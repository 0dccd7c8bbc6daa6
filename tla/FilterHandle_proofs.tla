------------------------ MODULE FilterHandle_proofs ------------------------
(***************************************************************************)
(* Proofs about a finished filter in the hands of an application, for both *)
(* families, tables and batches of every size and cache lines of every     *)
(* length, and for callbacks that return any vector: answers are those of  *)
(* the filter that was built, in order, as long as callbacks keep their    *)
(* contract or leave the words in their places; prefetches cover what the  *)
(* probes read; storage broken by one failure is not loaded again.         *)
(***************************************************************************)
EXTENDS FilterHandle, Hashing_proofs

-----------------------------------------------------------------------------
(* The inductive invariant                                                 *)

(* What a vector that is or was the storage may be: the solution until a   *)
(* callback breaks its contract, and after one failed relocation still the *)
(* solution or a vector whose length tells it from the solution            *)
Sound(s) ==
  /\ s \in Seq(Word)
  /\ breach = "none" => s = solution
  /\ breach # "lost" => s = solution \/ Len(s) # NumBlocks * R

(* Between taking and storing, the storage is with the callback.           *)
StorageInv ==
  /\ family \in FamilyNames /\ solution \in Solutions
  /\ at \in 0 .. LineLen[family] - 1
  /\ breach \in {"none", "caught", "lost"}
  /\ pc # "relocating" => Sound(segs) /\ taken = Nothing
  /\ pc = "relocating" => Sound(taken) /\ segs = Nothing
  /\ stored = Nothing \/ \E s : Sound(s) /\ stored = ToBytes(s)

(* Where the loops of a batch are, and what they work on                   *)
CallInv ==
  /\ pc \in {"idle", "prefetch", "probe", "relocating", "panicked"}
  /\ keys \in Seq(HashesOf(family))
  /\ out \in Seq({"unwritten", "yes", "no"})
  /\ keys = <<>> => out = <<>> \/ pc = "panicked"
  /\ keys = <<>> => chunk = 1 /\ n = 1 /\ hinted = {}
  /\ outChunk = chunk
  /\ pc = "relocating" => keys = <<>>
  /\ pc \in {"prefetch", "probe"} =>
       /\ Len(out) = Len(keys)
       /\ chunk \in 1 .. Len(keys) /\ n \in chunk .. chunk + Stride - 1
       /\ n \in DOMAIN keys

(* Places before the key that is probed, or before the chunk, are written. *)
WrittenInv ==
  /\ pc = "prefetch" => \A j \in DOMAIN out : out[j] # "unwritten" <=> j < chunk
  /\ pc = "probe" => \A j \in DOMAIN out : out[j] # "unwritten" <=> j < n

AnswersInv ==
  InPlace => \A j \in DOMAIN out : out[j] # "unwritten" =>
    /\ j \in DOMAIN keys
    /\ \A h : h = keys[j] => (out[j] = "yes" <=> IsMember(h))

(* The keys of the chunk that have been hinted so far                      *)
HintedInv ==
  /\ pc = "prefetch" =>
       \A j \in chunk .. n - 1 : \A h : h = keys[j] => PrefetchLines(h) \subseteq hinted
  /\ pc = "probe" =>
       \A j \in DOMAIN keys : chunk <= j /\ j < chunk + Stride =>
         \A h : h = keys[j] => PrefetchLines(h) \subseteq hinted

(* No query of whole storage panics.                                       *)
WholeInv == pc = "panicked" /\ Whole /\ keys # <<>> => Len(out) # Len(keys)

HandleInv ==
  /\ StorageInv /\ CallInv /\ WrittenInv /\ AnswersInv /\ HintedInv
  /\ BatchAnswersInOrder /\ WholeInv
-----------------------------------------------------------------------------
(* Queries                                                                 *)

LEMMA HashOfFamily ==
  ASSUME family \in FamilyNames, NEW h \in HashesOf(family)
  PROVE  h.hi \in 0 .. HashRange - 1 /\ Row(h) \in Word
<1>1. W \in Nat \ {0} /\ Half \in Nat \ {0} /\ W = Half + Half
      /\ XorMask \subseteq 0 .. Half - 1
  BY WAssumption, HalfAssumption, XorMaskAssumption
<1>2. CASE family = "std"
  <2>1. h \in Hashes128 /\ Row(h) = CoeffRow128(h)
    BY <1>2 DEF HashesOf, Row
  <2>2. h.hi \in 0 .. HashRange - 1 /\ h.lo \subseteq 0 .. Half - 1
    BY <2>1 DEF Hashes128
  <2> HIDE DEF Half
  <2>3. \A b \in h.lo : b + Half \in 0 .. W - 1
    BY <1>1, <2>2
  <2>4. SymDiff(h.lo, XorMask) \subseteq 0 .. W - 1
    <3>1. h.lo \subseteq 0 .. W - 1 /\ XorMask \subseteq 0 .. W - 1
      BY <1>1, <2>2
    <3> QED BY <3>1, Zenon DEF SymDiff
  <2>5. 0 \in 0 .. W - 1
    BY <1>1
  <2> QED BY <2>1, <2>2, <2>3, <2>4, <2>5 DEF CoeffRow128, Word
<1>3. CASE family # "std"
  <2>1. h \in Hashes /\ Row(h) = CoeffRow(h)
    BY <1>3 DEF HashesOf, Row
  <2> QED BY <2>1, CoeffRowIsWord DEF Hashes
<1> QED BY <1>2, <1>3

LEMMA ColumnType == R \in Nat \ {0} /\ (\A c \in Columns : c \in 0 .. R - 1)
BY RAssumption, ResultWidthAssumption, HalfAssumption DEF Columns

(* The segments of a query are indices of the solution.                    *)
LEMMA ReadsInSolution ==
  ASSUME NEW h, h.hi \in 0 .. HashRange - 1, NEW c \in Columns
  PROVE  /\ FirstSegment(h) \in Nat /\ Maybe(h) \in {0, R}
         /\ FirstSegment(h) + c \in 0 .. NumBlocks * R - 1
         /\ FirstSegment(h) + Maybe(h) + c \in 0 .. NumBlocks * R - 1
         /\ NumBlocks * R \in Nat
<1> DEFINE g == Start(h) \div W
<1>1. R \in Nat \ {0} /\ c \in 0 .. R - 1 /\ NumBlocks \in Nat
  BY ColumnType, NumBlocksAssumption
<1>2. g \in 0 .. NumBlocks - 1 /\ (Start(h) % W # 0 => g + 1 <= NumBlocks - 1)
  BY BlocksOfQuery
<1>3. FirstSegment(h) = g * R /\ Maybe(h) \in {0, R}
      /\ (Maybe(h) # 0 => Start(h) % W # 0)
  BY DEF FirstSegment, Maybe
<1> HIDE DEF g
<1>4. (g + 1) * R <= NumBlocks * R /\ (g + 1) * R = g * R + R
      /\ g * R \in Nat /\ NumBlocks * R \in Nat
  BY <1>1, <1>2, ProductGrows
<1>5. g + 1 <= NumBlocks - 1 => (g + 2) * R <= NumBlocks * R /\ (g + 2) * R = g * R + R + R
  BY <1>1, <1>2, ProductGrows
<1> QED BY <1>1, <1>2, <1>3, <1>4, <1>5

SegsType ==
  /\ family \in FamilyNames /\ solution \in Solutions
  /\ at \in 0 .. LineLen[family] - 1
  /\ segs \in Seq(Word)

LEMMA StorageIsTyped == StorageInv => SegsType
<1> SUFFICES ASSUME StorageInv PROVE SegsType
  OBVIOUS
<1>1. segs \in Seq(Word)
  <2>1. Nothing \in Seq(Word)
    BY DEF Nothing
  <2> QED BY <2>1 DEF StorageInv, Sound
<1> QED BY <1>1 DEF StorageInv, SegsType

(* Before the first breach, and outside a relocation, the storage is whole *)
(* and in its place.                                                       *)
LEMMA UnbreachedStorage ==
  ASSUME StorageInv, breach = "none"
  PROVE  /\ pc # "relocating" => Whole
         /\ InPlace
<1>1. pc # "relocating" => segs = solution
  BY DEF StorageInv, Sound
<1>2. pc = "relocating" => DOMAIN segs = {}
  BY DEF StorageInv, Nothing
<1> QED BY <1>1, <1>2 DEF Whole, InPlace

(* In storage whose segments are there and in their places, a column       *)
(* disagrees just if it does in the solution.                              *)
LEMMA DisagreesAsBuilt ==
  ASSUME SegsType, InPlace, NEW h \in HashesOf(family), NEW c \in Columns,
         \A z \in ReadsOf(h, c) : InBounds(z)
  PROVE  Disagrees(h, c) <=>
           Parity({b \in Row(h) : SolutionBit(c, Start(h) + b)})
             # (IF c \in Expected(h) THEN 1 ELSE 0)
<1> DEFINE g == Start(h) \div W
           bit == Start(h) % W
           X == {z \in Nat : SolutionBit(c, z)}
           lo == segs[FirstSegment(h) + c + 1]
           hi == segs[FirstSegment(h) + Maybe(h) + c + 1]
<1>1. h.hi \in 0 .. HashRange - 1 /\ Row(h) \in Word
  BY HashOfFamily DEF SegsType
<1>2. /\ Start(h) \in Nat /\ g \in 0 .. NumBlocks - 1 /\ bit \in 0 .. W - 1
      /\ Start(h) = g * W + bit
      /\ bit # 0 => g + 1 <= NumBlocks - 1
  BY <1>1, BlocksOfQuery
<1>3. /\ FirstSegment(h) \in Nat /\ Maybe(h) \in {0, R}
      /\ FirstSegment(h) + c \in 0 .. NumBlocks * R - 1
      /\ FirstSegment(h) + Maybe(h) + c \in 0 .. NumBlocks * R - 1
      /\ NumBlocks * R \in Nat
  BY <1>1, ReadsInSolution
<1>4. FirstSegment(h) + c < Len(segs) /\ FirstSegment(h) + Maybe(h) + c < Len(segs)
  BY DEF ReadsOf, InBounds
<1>5. /\ segs \in Seq(Word) /\ Len(segs) \in Nat
      /\ \A p \in 1 .. Len(segs) : p \in 1 .. NumBlocks * R => segs[p] = solution[p]
  <2>1. segs \in Seq(Word) /\ DOMAIN solution = 1 .. NumBlocks * R
    BY SolutionsAssumption DEF SegsType
  <2> QED BY <2>1 DEF InPlace
<1>6. FirstSegment(h) = g * R /\ (bit = 0 => Maybe(h) = 0) /\ (bit # 0 => Maybe(h) = R)
  BY DEF FirstSegment, Maybe
<1>7. lo \in Word /\ hi \in Word
      /\ lo = solution[FirstSegment(h) + c + 1]
      /\ hi = solution[FirstSegment(h) + Maybe(h) + c + 1]
  <2>1. FirstSegment(h) + c + 1 \in 1 .. Len(segs)
        /\ FirstSegment(h) + Maybe(h) + c + 1 \in 1 .. Len(segs)
        /\ FirstSegment(h) + c + 1 \in 1 .. NumBlocks * R
        /\ FirstSegment(h) + Maybe(h) + c + 1 \in 1 .. NumBlocks * R
    BY <1>3, <1>4, <1>5, ColumnType
  <2> QED BY <1>5, <2>1
<1>8. W \in Nat \ {0} /\ R \in Nat \ {0} /\ c \in 0 .. R - 1
  BY TableSize, ColumnType
<1>9. \A b \in 0 .. W - 1 : b \in lo <=> g * W + b \in X
  <2> SUFFICES ASSUME NEW b \in 0 .. W - 1 PROVE b \in lo <=> g * W + b \in X
    OBVIOUS
  <2>1. g * W + b \in Nat /\ (g * W + b) \div W = g /\ (g * W + b) % W = b
    <3>1. g \in Nat
      BY <1>2
    <3> HIDE DEF g
    <3> QED BY <1>8, <3>1, DivisionIsUnique
  <2> HIDE DEF g
  <2> QED BY <1>6, <1>7, <2>1 DEF SolutionBit
<1>10. ASSUME bit # 0
       PROVE  \A b \in 0 .. W - 1 : b \in hi <=> g * W + W + b \in X
  <2> SUFFICES ASSUME NEW b \in 0 .. W - 1 PROVE b \in hi <=> g * W + W + b \in X
    OBVIOUS
  <2>1. g + 1 \in Nat /\ g \in Nat
    BY <1>2
  <2> HIDE DEF g
  <2>2. (g + 1) * W + b \in Nat /\ ((g + 1) * W + b) \div W = g + 1
        /\ ((g + 1) * W + b) % W = b
    BY <1>8, <2>1, DivisionIsUnique
  <2>3. (g + 1) * W + b = g * W + W + b /\ (g + 1) * R = g * R + R /\ g * R \in Nat
    BY <1>8, <2>1
  <2>4. FirstSegment(h) + Maybe(h) + c + 1 = (g + 1) * R + c + 1
    BY <1>6, <1>8, <1>10, <2>3
  <2> QED BY <1>7, <2>2, <2>3, <2>4 DEF SolutionBit
<1>11. bit = 0 => hi = lo
  <2> HIDE DEF bit
  <2>1. bit = 0 => FirstSegment(h) + Maybe(h) + c + 1 = FirstSegment(h) + c + 1
    BY <1>3, <1>6
  <2> QED BY <2>1
<1>12. g * W \in Nat
  <2>1. g \in Nat
    BY <1>2
  <2> HIDE DEF g
  <2> QED BY <1>8, <2>1
<1> HIDE DEF g, bit, lo, hi, X
<1>13. Parity(Queried(lo, hi, Row(h), bit, W)) = Parity(Selected(Start(h), Row(h), X))
  BY <1>1, <1>2, <1>7, <1>8, <1>9, <1>10, <1>11, <1>12, ParityOfQuery DEF Word
<1>14. Parity(Selected(Start(h), Row(h), X))
         = Parity({b \in Row(h) : SolutionBit(c, Start(h) + b)})
  <2>1. IsFiniteSet(Row(h)) /\ Row(h) \in SUBSET Nat
    BY <1>1, FiniteWord
  <2>2. Parity(Selected(Start(h), Row(h), X)) = Parity(Selecting(Start(h), Row(h), X))
    BY <1>2, <2>1, ParityOfRow
  <2>3. Selecting(Start(h), Row(h), X) = {b \in Row(h) : SolutionBit(c, Start(h) + b)}
    BY <1>2, <2>1 DEF Selecting, X
  <2> QED BY <2>2, <2>3
<1>15. Disagrees(h, c) <=>
         Parity(Queried(lo, hi, Row(h), bit, W)) # (IF c \in Expected(h) THEN 1 ELSE 0)
  BY DEF Disagrees, Queried, lo, hi, bit
<1> QED BY <1>13, <1>14, <1>15

(* What contains answers, on whatever storage                              *)
LEMMA AnswerAsBuilt ==
  ASSUME SegsType, NEW h \in HashesOf(family)
  PROVE  /\ Contains(h) \in {"yes", "no", "panic"}
         /\ InPlace /\ Contains(h) = "yes" => IsMember(h)
         /\ InPlace /\ Contains(h) = "no" => ~IsMember(h)
         /\ Whole => Contains(h) # "panic"
<1> DEFINE Panics(c) == \E z \in ReadsOf(h, c) : ~InBounds(z)
           Wrong(c) == Parity({b \in Row(h) : SolutionBit(c, Start(h) + b)})
                         # (IF c \in Expected(h) THEN 1 ELSE 0)
           stops == {c \in Columns : Panics(c) \/ Disagrees(h, c)}
<1>1. InPlace => \A c \in Columns : ~Panics(c) => (Disagrees(h, c) <=> Wrong(c))
  BY DisagreesAsBuilt
<1>2. IsMember(h) <=> \A c \in Columns : ~Wrong(c)
  BY DEF IsMember
<1>3. Whole => \A c \in Columns : ~Panics(c)
  <2> SUFFICES ASSUME Whole, NEW c \in Columns, NEW z \in ReadsOf(h, c)
               PROVE  InBounds(z)
    OBVIOUS
  <2>1. z \in 0 .. NumBlocks * R - 1 /\ NumBlocks * R \in Nat
    BY HashOfFamily, ReadsInSolution DEF ReadsOf, SegsType
  <2>2. Len(segs) = NumBlocks * R
    BY <2>1, SolutionsAssumption DEF Whole, SegsType
  <2> QED BY <2>1, <2>2 DEF InBounds
<1>4. CASE family = "std"
  <2>1. Contains(h) = ContainsStd(h)
    BY <1>4 DEF Contains
  <2>2. ContainsStd(h) = IF \E c \in Columns : Panics(c) THEN "panic"
                         ELSE IF \E c \in Columns : Disagrees(h, c) THEN "no" ELSE "yes"
    BY DEF ContainsStd
  <2> HIDE DEF Panics, Wrong
  <2> QED BY <1>1, <1>2, <1>3, <2>1, <2>2
<1>5. CASE family # "std"
  <2>1. Contains(h) = ContainsHomog(h)
    BY <1>5 DEF Contains
  <2>2. ContainsHomog(h) = IF stops = {} THEN "yes"
                           ELSE IF Panics(Min(stops)) THEN "panic" ELSE "no"
    BY DEF ContainsHomog
  <2>3. stops # {} => Min(stops) \in stops
    <3>1. stops \in SUBSET Nat
      BY ColumnType
    <3> QED BY <3>1, MinIsLeast
  <2>4. \A c \in stops : c \in Columns /\ (Panics(c) \/ Disagrees(h, c))
    OBVIOUS
  <2>5. \A c \in Columns : c \notin stops => ~Panics(c) /\ ~Disagrees(h, c)
    OBVIOUS
  <2> HIDE DEF Panics, Wrong, stops
  <2>6. CASE stops = {}
    BY <1>1, <1>2, <2>1, <2>2, <2>5, <2>6
  <2>7. CASE stops # {} /\ Panics(Min(stops))
    BY <1>3, <2>1, <2>2, <2>3, <2>4, <2>7
  <2>8. CASE stops # {} /\ ~Panics(Min(stops))
    <3>1. Min(stops) \in Columns /\ (InPlace => Wrong(Min(stops)))
      BY <1>1, <2>3, <2>4, <2>8
    <3> QED BY <1>2, <2>1, <2>2, <2>8, <3>1
  <2> QED BY <2>6, <2>7, <2>8
<1> QED BY <1>4, <1>5
-----------------------------------------------------------------------------
(* Prefetches                                                              *)

LEMMA QuotientGrows ==
  ASSUME NEW a \in Nat, NEW b \in Nat, NEW w \in Nat \ {0}, a <= b
  PROVE  a \div w \in Nat /\ b \div w \in Nat /\ a \div w <= b \div w
<1> DEFINE q == a \div w
           p == b \div w
<1>1. q \in Nat /\ a % w \in 0 .. w - 1 /\ q * w \in Nat /\ a = q * w + (a % w)
  BY Division
<1>2. p \in Nat /\ b % w \in 0 .. w - 1 /\ p * w \in Nat /\ b = p * w + (b % w)
  BY Division
<1> HIDE DEF q, p
<1>3. ASSUME p + 1 <= q PROVE FALSE
  <2>1. (p + 1) * w <= q * w /\ (p + 1) * w = p * w + w
    BY <1>1, <1>2, <1>3, ProductGrows
  <2> QED BY <1>1, <1>2, <2>1
<1> QED BY <1>1, <1>2, <1>3 DEF q, p

LEMMA NextLine ==
  ASSUME NEW a \in Nat, NEW w \in Nat \ {0}
  PROVE  (a + w) \div w = (a \div w) + 1
<1> DEFINE q == a \div w
           b == a % w
<1>1. q \in Nat /\ b \in 0 .. w - 1 /\ a = q * w + b /\ q * w \in Nat
  BY Division
<1> HIDE DEF q, b
<1>2. ((q + 1) * w + b) \div w = q + 1
  BY <1>1, DivisionIsUnique
<1>3. (q + 1) * w + b = a + w
  BY <1>1
<1> QED BY <1>2, <1>3 DEF q

(* The first of some places, every one so many further on, and the last    *)
Strides(w, first, last) ==
  {x \in first .. last - 1 : (x - first) % w = 0} \cup {last}

(* One of them lies in the same line as place s.                           *)
Meets(w, a, first, last, s) ==
  \E z \in Strides(w, first, last) : (a + z) \div w = (a + s) \div w

(* Of the places from first to last, the first, every one so many further  *)
(* on as a line is long, and the last lie in all lines that any lies in.   *)
LEMMA StridesMeetLines ==
  ASSUME NEW w \in Nat \ {0}, NEW a \in Nat, NEW first \in Nat, NEW last \in Nat,
         NEW s \in first .. last
  PROVE  Meets(w, a, first, last, s)
<1> SUFFICES \E z \in Strides(w, first, last) : (a + z) \div w = (a + s) \div w
  BY DEF Meets
<1> DEFINE T == Strides(w, first, last)
           q == (s - first) \div w
           t == first + q * w
<1>1. s - first \in Nat /\ s \in Nat /\ s <= last
  OBVIOUS
<1>2. q \in Nat /\ q * w \in Nat /\ q * w <= s - first /\ s - first < q * w + w
  <2> DEFINE d == s - first
             b == d % w
  <2>1. q \in Nat /\ b \in 0 .. w - 1 /\ q * w \in Nat /\ d = q * w + b
    BY <1>1, Division, Zenon
  <2> HIDE DEF q, b
  <2> QED BY <1>1, <2>1
<1>3. (q * w) % w = 0 /\ (q * w + w) % w = 0
  <2> HIDE DEF q
  <2>1. 0 \in 0 .. w - 1
    OBVIOUS
  <2>2. (q * w + 0) % w = 0 /\ ((q + 1) * w + 0) % w = 0
    BY <1>2, <2>1, DivisionIsUnique
  <2>3. q * w + 0 = q * w /\ (q + 1) * w + 0 = q * w + w
    BY <1>2
  <2> QED BY <2>2, <2>3
<1> DEFINE m == q * w
<1>4. m \in Nat /\ m <= s - first /\ s - first < m + w /\ t = first + m
      /\ m % w = 0 /\ (m + w) % w = 0
  BY <1>2, <1>3
<1> HIDE DEF q, m, t
<1>5. t \in Nat /\ t <= s /\ s < t + w /\ t - first = m /\ (t + w) - first = m + w
  BY <1>1, <1>4
<1>6. last \in T /\ \A x \in first .. last - 1 : (x - first) % w = 0 => x \in T
  BY DEF Strides
<1> HIDE DEF T
<1>7. CASE s = last
  BY <1>6, <1>7 DEF T
<1>8. CASE s # last
  <2>1. t \in first .. last - 1
    BY <1>1, <1>4, <1>5, <1>8
  <2>2. t \in T
    BY <1>4, <1>5, <1>6, <2>1
  <2> DEFINE lt == (a + t) \div w
             ls == (a + s) \div w
             lu == (a + t + w) \div w
  <2>3. lt \in Nat /\ ls \in Nat /\ lt <= ls
    <3>1. a + t \in Nat /\ a + s \in Nat /\ a + t <= a + s
      BY <1>1, <1>5
    <3> QED BY <3>1, QuotientGrows
  <2>4. lu \in Nat /\ ls <= lu /\ lu = lt + 1
    <3>1. a + t \in Nat /\ a + s \in Nat /\ a + t + w \in Nat /\ a + s <= a + t + w
      BY <1>1, <1>5
    <3> QED BY <3>1, QuotientGrows, NextLine
  <2>5. CASE ls = lt
    BY <2>2, <2>5 DEF T
  <2>6. CASE ls = lu
    <3>1. CASE t + w <= last - 1
      <4>1. t + w \in first .. last - 1
        BY <1>5, <2>1, <3>1
      <4>2. t + w \in T
        BY <1>4, <1>5, <1>6, <4>1
      <4>3. (a + (t + w)) \div w = ls
        <5>1. a + (t + w) = a + t + w
          BY <1>5
        <5> QED BY <2>6, <5>1
      <4> QED BY <4>2, <4>3 DEF T
    <3>2. CASE last <= t + w
      <4> DEFINE ll == (a + last) \div w
      <4>1. ll \in Nat /\ ls <= ll /\ ll <= lu
        <5>1. a + last \in Nat /\ a + s \in Nat /\ a + t + w \in Nat
              /\ a + s <= a + last /\ a + last <= a + t + w
          BY <1>1, <1>5, <3>2
        <5> QED BY <5>1, QuotientGrows
      <4>2. ll = ls
        <5> HIDE DEF ll, ls, lu
        <5> QED BY <2>3, <2>4, <2>6, <4>1
      <4> QED BY <1>6, <4>2 DEF T
    <3> QED BY <1>5, <3>1, <3>2
  <2> HIDE DEF lt, ls, lu
  <2> QED BY <2>3, <2>4, <2>5, <2>6
<1> QED BY <1>7, <1>8 DEF T

(* The lines that a query of whole storage reads, unless it starts in the  *)
(* last block, are those its prefetch hints or some of them.               *)
LEMMA ReadsAreHinted ==
  ASSUME SegsType, Whole, NEW h \in HashesOf(family), Start(h) # NumStarts - 1
  PROVE  LinesRead(h) \subseteq PrefetchLines(h)
<1> DEFINE g == Start(h) \div W
           f == FirstSegment(h)
           last == f + 2 * R - 1
<1>1. h.hi \in 0 .. HashRange - 1
  BY HashOfFamily DEF SegsType
<1>2. g \in Nat /\ g + 2 <= NumBlocks
  BY <1>1, BlocksOfQuery, NumBlocksAssumption
<1>3. R \in Nat \ {0} /\ NumBlocks \in Nat /\ (\A c \in Columns : c \in 0 .. R - 1)
  BY ColumnType, NumBlocksAssumption
<1>4. f = g * R
  BY DEF FirstSegment
<1> HIDE DEF g, f
<1>5. f \in Nat /\ f + 2 * R <= NumBlocks * R /\ NumBlocks * R \in Nat
  <2>1. (g + 2) * R <= NumBlocks * R /\ (g + 2) * R = g * R + 2 * R
        /\ g * R \in Nat /\ NumBlocks * R \in Nat
    BY <1>2, <1>3, ProductGrows
  <2> QED BY <1>3, <1>4, <2>1
<1>6. Len(segs) = NumBlocks * R
  BY <1>5, SolutionsAssumption DEF Whole, SegsType
<1>7. LineLen[family] \in Nat \ {0} /\ at \in Nat
  BY LineAssumption DEF SegsType
<1>8. last \in Nat /\ \A z \in f .. last : InBounds(z)
  BY <1>3, <1>5, <1>6 DEF InBounds
<1>9. last - 1 = f + 2 * R - 2
  BY <1>3, <1>5
<1>10. Touched(h) = Strides(LineLen[family], f, last)
  BY <1>9 DEF Touched, Strided, Strides, f
<1> HIDE DEF last
<1>11. Touched(h) \subseteq f .. last
  <2>1. f <= last
    BY <1>3, <1>5 DEF last
  <2> QED BY <1>5, <1>8, <1>10, <2>1 DEF Strides
<1>12. ASSUME NEW c \in Columns, NEW s \in ReadsOf(h, c)
       PROVE  Line(s) \in PrefetchLines(h)
  <2>1. s \in f .. last
    <3>1. s = f + c \/ s = f + Maybe(h) + c
      BY DEF ReadsOf, f
    <3>2. Maybe(h) = 0 \/ Maybe(h) = R
      BY DEF Maybe
    <3>3. c \in 0 .. R - 1
      BY <1>3
    <3> QED BY <1>3, <1>5, <3>1, <3>2, <3>3 DEF last
  <2>2. \E z \in Strides(LineLen[family], f, last) :
          (at + z) \div LineLen[family] = (at + s) \div LineLen[family]
    <3> DEFINE L == LineLen[family]
    <3>1. L \in Nat \ {0} /\ at \in Nat /\ f \in Nat /\ last \in Nat
      BY <1>5, <1>7, <1>8
    <3> HIDE DEF L
    <3>2. Meets(L, at, f, last, s)
      BY <2>1, <3>1, StridesMeetLines
    <3> QED BY <3>2 DEF L, Meets
  <2>3. PICK z \in Touched(h) : Line(z) = Line(s)
    BY <1>10, <2>2 DEF Line
  <2>4. InBounds(z)
    BY <1>8, <1>11, <2>3
  <2> QED BY <2>3, <2>4 DEF PrefetchLines
<1> QED BY <1>12 DEF LinesRead

-----------------------------------------------------------------------------
(* The invariant, step by step                                             *)

LEMMA MembersStay ==
  ASSUME UNCHANGED filterVars
  PROVE  \A h : IsMember(h)' = IsMember(h)
BY DEF filterVars, IsMember, SolutionBit, Row, Expected

LEMMA LinesStay ==
  ASSUME UNCHANGED <<filterVars, segs, at>>
  PROVE  /\ \A h : PrefetchLines(h)' = PrefetchLines(h)
         /\ Whole' = Whole /\ InPlace' = InPlace
<1>1. \A h : PrefetchLines(h)' = PrefetchLines(h)
  BY DEF filterVars, PrefetchLines, Line, Touched, Strided, InBounds
<1>2. Whole' = Whole /\ InPlace' = InPlace
  BY DEF filterVars, Whole, InPlace
<1> QED BY <1>1, <1>2

LEMMA StorageStays ==
  ASSUME StorageInv, UNCHANGED <<filterVars, segs, at, taken, stored, breach>>,
         (pc # "relocating" /\ pc' # "relocating") \/ pc' = pc
  PROVE  StorageInv'
<1>1. \A s : Sound(s)' = Sound(s) /\ ToBytes(s)' = ToBytes(s)
  BY DEF Sound, ToBytes, filterVars
<1>2. Sound(segs)' = Sound(segs) /\ Sound(taken)' = Sound(taken)
  BY DEF Sound, filterVars
<1> QED BY <1>1, <1>2 DEF StorageInv, filterVars, Nothing

(* An application that is not in a call                                    *)
LEMMA IdleInv ==
  ASSUME UNCHANGED filterVars,
         keys' = <<>>, out' = <<>>, chunk' = 1, n' = 1, outChunk' = 1, hinted' = {},
         pc' \in {"idle", "relocating", "panicked"}
  PROVE  /\ CallInv' /\ WrittenInv' /\ AnswersInv' /\ HintedInv'
         /\ BatchAnswersInOrder' /\ WholeInv'
<1>1. CallInv'
  BY DEF CallInv
<1>2. WrittenInv' /\ HintedInv'
  BY DEF WrittenInv, HintedInv
<1>3. AnswersInv' /\ BatchAnswersInOrder'
  BY DEF AnswersInv, BatchAnswersInOrder
<1>4. WholeInv'
  BY DEF WholeInv
<1> QED BY <1>1, <1>2, <1>3, <1>4

LEMMA InitHandleInv == Init => HandleInv
<1> SUFFICES ASSUME Init PROVE HandleInv
  OBVIOUS
<1>2. solution \in Seq(Word)
  <2>1. R \in Nat /\ NumBlocks \in Nat
    BY ColumnType, NumBlocksAssumption
  <2>2. NumBlocks * R \in Nat /\ solution \in [1 .. NumBlocks * R -> Word]
    BY <2>1, SolutionsAssumption DEF Init
  <2> QED BY <2>2
<1>3. StorageInv
  BY <1>2 DEF Init, StorageInv, Sound
<1>4. CallInv /\ WrittenInv /\ AnswersInv /\ HintedInv
      /\ BatchAnswersInOrder /\ WholeInv
  BY DEF Init, CallInv, WrittenInv, AnswersInv, HintedInv,
         BatchAnswersInOrder, WholeInv
<1> QED BY <1>3, <1>4 DEF HandleInv

LEMMA LookupHandleInv ==
  ASSUME HandleInv, Lookup
  PROVE  HandleInv'
<1>1. PICK h \in Probes[family] :
        /\ keys' = <<h>>
        /\ IF Contains(h) = "panic"
           THEN pc' = "panicked" /\ out' = <<"unwritten">>
           ELSE pc' = "idle" /\ out' = <<Contains(h)>>
  BY DEF Lookup
<1>2. pc = "idle" /\ UNCHANGED <<filterVars, segs, at, taken, chunk, n, outChunk, hinted,
                                  stored, breach>>
  BY DEF Lookup, Idle
<1>3. StorageInv /\ SegsType /\ h \in HashesOf(family)
  BY QueriesAssumption, StorageIsTyped DEF HandleInv, StorageInv
<1>4. /\ Contains(h) \in {"yes", "no", "panic"}
      /\ InPlace /\ Contains(h) = "yes" => IsMember(h)
      /\ InPlace /\ Contains(h) = "no" => ~IsMember(h)
      /\ Whole => Contains(h) # "panic"
  BY <1>3, AnswerAsBuilt
<1>5. StorageInv'
  BY <1>1, <1>2, <1>3, StorageStays
<1>6. (\A k : IsMember(k)' = IsMember(k)) /\ Whole' = Whole /\ InPlace' = InPlace
      /\ family' = family
  BY <1>2, MembersStay, LinesStay DEF filterVars
<1> DEFINE answer == Contains(h)
<1> HIDE DEF answer
<1>7. \/ answer = "panic" /\ pc' = "panicked" /\ out' = <<"unwritten">>
      \/ answer \in {"yes", "no"} /\ pc' = "idle" /\ out' = <<answer>>
  BY <1>1, <1>4 DEF answer
<1>8. CallInv'
  <2>1. keys' \in Seq(HashesOf(family)) /\ keys' # <<>>
    BY <1>1, <1>3
  <2>2. HashesOf(family)' = HashesOf(family)
    BY <1>6 DEF HashesOf
  <2>3. out' \in Seq({"unwritten", "yes", "no"})
    <3>1. \A a \in {"unwritten", "yes", "no"} : <<a>> \in Seq({"unwritten", "yes", "no"})
      OBVIOUS
    <3> QED BY <1>7, <3>1
  <2>4. outChunk' = chunk'
    BY <1>2 DEF HandleInv, CallInv
  <2> QED BY <1>7, <2>1, <2>2, <2>3, <2>4 DEF CallInv
<1>9. WrittenInv' /\ HintedInv'
  BY <1>7 DEF WrittenInv, HintedInv
<1>10. AnswersInv'
  <2>1. ASSUME NEW j \in DOMAIN out', out'[j] # "unwritten"
        PROVE  j = 1 /\ answer \in {"yes", "no"} /\ out'[j] = answer
    BY <1>7, <2>1
  <2>2. 1 \in DOMAIN keys' /\ keys'[1] = h
    BY <1>1
  <2> QED BY <1>4, <1>6, <2>1, <2>2 DEF AnswersInv, answer
<1>11. BatchAnswersInOrder'
  BY <1>7 DEF BatchAnswersInOrder
<1>12. WholeInv'
  <2>1. pc' = "panicked" => ~Whole
    BY <1>4, <1>7 DEF answer
  <2> QED BY <1>6, <2>1 DEF WholeInv
<1> QED BY <1>5, <1>8, <1>9, <1>10, <1>11, <1>12 DEF HandleInv

LEMMA ContainsBatchHandleInv ==
  ASSUME HandleInv, ContainsBatch
  PROVE  HandleInv'
<1>1. PICK ks \in Batches[family], spare \in -1 .. 1 :
        /\ Len(ks) + spare >= 0
        /\ keys' = ks
        /\ out' = [j \in 1 .. Len(ks) + spare |-> "unwritten"]
        /\ pc' = IF spare # 0 THEN "panicked" ELSE IF ks = <<>> THEN "idle" ELSE "prefetch"
  BY DEF ContainsBatch
<1>2. pc = "idle" /\ keys = <<>>
      /\ UNCHANGED <<filterVars, segs, at, taken, chunk, n, outChunk, hinted, stored, breach>>
  BY DEF ContainsBatch, Idle
<1>3. ks \in Seq(HashesOf(family)) /\ Len(ks) \in Nat
  BY QueriesAssumption DEF HandleInv, StorageInv
<1>4. chunk' = 1 /\ n' = 1 /\ outChunk' = 1 /\ hinted' = {}
  BY <1>2 DEF HandleInv, CallInv
<1>5. StorageInv'
  <2>1. pc' # "relocating"
    BY <1>1
  <2> QED BY <1>2, <2>1, StorageStays DEF HandleInv
<1>6. out' \in Seq({"unwritten"}) /\ Len(out') = Len(ks) + spare
      /\ \A j \in DOMAIN out' : out'[j] = "unwritten"
  BY <1>1, <1>3
<1>7. CallInv'
  <2>1. HashesOf(family)' = HashesOf(family)
    BY <1>2 DEF HashesOf, filterVars
  <2>2. out' \in Seq({"unwritten", "yes", "no"})
    BY <1>6
  <2>3. ASSUME pc' \in {"prefetch", "probe"}
        PROVE  /\ Len(out') = Len(keys')
               /\ 1 \in 1 .. Len(keys') /\ 1 \in 1 .. 1 + Stride - 1
               /\ 1 \in DOMAIN keys'
    <3>1. spare = 0 /\ ks # <<>>
      BY <1>1, <2>3
    <3> QED BY <1>1, <1>3, <1>6, <3>1, StrideAssumption
  <2>4. ASSUME keys' = <<>> PROVE out' = <<>> \/ pc' = "panicked"
    <3>1. CASE spare # 0
      BY <1>1, <3>1
    <3>2. CASE spare = 0
      BY <1>1, <1>3, <1>6, <2>4, <3>2
    <3> QED BY <3>1, <3>2
  <2>5. pc' \in {"idle", "prefetch", "panicked"}
    BY <1>1
  <2> QED BY <1>1, <1>3, <1>4, <2>1, <2>2, <2>3, <2>4, <2>5 DEF CallInv
<1>8. WrittenInv'
  BY <1>1, <1>4, <1>6 DEF WrittenInv
<1>9. AnswersInv'
  BY <1>6 DEF AnswersInv
<1>10. HintedInv'
  BY <1>1, <1>4 DEF HintedInv
<1>11. BatchAnswersInOrder'
  <2>1. ASSUME pc' = "idle" PROVE DOMAIN out' = {}
    <3>1. spare = 0 /\ ks = <<>>
      BY <1>1, <2>1
    <3> QED BY <1>1, <3>1
  <2> QED BY <1>6, <2>1 DEF BatchAnswersInOrder
<1>12. WholeInv'
  <2>1. ASSUME pc' = "panicked" PROVE Len(out') # Len(keys')
    <3>1. spare # 0
      BY <1>1, <2>1
    <3> QED BY <1>1, <1>3, <1>6, <3>1
  <2> QED BY <2>1 DEF WholeInv
<1> QED BY <1>5, <1>7, <1>8, <1>9, <1>10, <1>11, <1>12 DEF HandleInv

LEMMA PrefetchKeyHandleInv ==
  ASSUME HandleInv, PrefetchKey
  PROVE  HandleInv'
<1>1. /\ pc = "prefetch"
      /\ hinted' = hinted \cup PrefetchLines(keys[n])
      /\ \/ EndOfChunk /\ pc' = "probe" /\ n' = chunk
         \/ ~EndOfChunk /\ pc' = "prefetch" /\ n' = n + 1
      /\ UNCHANGED <<filterVars, segs, at, taken, keys, out, chunk, outChunk, stored, breach>>
  BY DEF PrefetchKey
<1>2. /\ keys \in Seq(HashesOf(family)) /\ Len(keys) \in Nat
      /\ Len(out) = Len(keys) /\ out \in Seq({"unwritten", "yes", "no"})
      /\ chunk \in 1 .. Len(keys) /\ n \in chunk .. chunk + Stride - 1
      /\ n \in 1 .. Len(keys) /\ DOMAIN keys = 1 .. Len(keys)
  BY <1>1 DEF HandleInv, CallInv
<1>3. keys[n] \in HashesOf(family) /\ StorageInv
  BY <1>2 DEF HandleInv
<1>4. Stride \in Nat \ {0}
  BY StrideAssumption
<1>5. StorageInv'
  BY <1>1, <1>3, StorageStays
<1>6. /\ \A h : PrefetchLines(h)' = PrefetchLines(h)
      /\ InPlace' = InPlace
      /\ \A h : IsMember(h)' = IsMember(h)
  BY <1>1, LinesStay, MembersStay
<1>7. CallInv'
  <2>1. HashesOf(family)' = HashesOf(family)
    BY <1>1 DEF HashesOf, filterVars
  <2>2. keys # <<>>
    BY <1>2
  <2>3. n' \in chunk .. chunk + Stride - 1 /\ n' \in 1 .. Len(keys)
    BY <1>1, <1>2, <1>4 DEF EndOfChunk
  <2>4. outChunk' = chunk'
    BY <1>1 DEF HandleInv, CallInv
  <2> QED BY <1>1, <1>2, <2>1, <2>2, <2>3, <2>4 DEF CallInv
<1>8. WrittenInv'
  BY <1>1, <1>2 DEF HandleInv, WrittenInv
<1>9. AnswersInv'
  BY <1>1, <1>6 DEF HandleInv, AnswersInv
<1>10. HintedInv'
  <2>1. ASSUME NEW j \in chunk .. n, NEW h, h = keys[j]
        PROVE  PrefetchLines(h) \subseteq hinted'
    <3>1. CASE j = n
      BY <1>1, <2>1, <3>1
    <3>2. CASE j # n
      <4>1. j \in chunk .. n - 1
        BY <1>2, <2>1, <3>2
      <4>2. PrefetchLines(h) \subseteq hinted
        BY <1>1, <2>1, <4>1 DEF HandleInv, HintedInv
      <4> QED BY <1>1, <4>2
    <3> QED BY <3>1, <3>2
  <2>2. CASE EndOfChunk
    <3>1. ASSUME NEW j \in 1 .. Len(keys), chunk <= j, j < chunk + Stride
          PROVE  j \in chunk .. n
      BY <1>2, <1>4, <2>2, <3>1 DEF EndOfChunk
    <3> QED BY <1>1, <1>2, <1>6, <2>1, <2>2, <3>1 DEF HintedInv
  <2>3. CASE ~EndOfChunk
    <3>1. (n + 1) - 1 = n
      BY <1>2
    <3> QED BY <1>1, <1>6, <2>1, <2>3, <3>1 DEF HintedInv
  <2> QED BY <2>2, <2>3
<1>11. BatchAnswersInOrder'
  BY <1>1 DEF HandleInv, BatchAnswersInOrder
<1>12. WholeInv'
  BY <1>1 DEF WholeInv
<1> QED BY <1>5, <1>7, <1>8, <1>9, <1>10, <1>11, <1>12 DEF HandleInv

LEMMA ProbeKeyHandleInv ==
  ASSUME HandleInv, ProbeKey
  PROVE  HandleInv'
<1> DEFINE answer == Contains(keys[n])
<1>1. /\ pc = "probe"
      /\ IF answer = "panic"
         THEN pc' = "panicked" /\ UNCHANGED <<out, chunk, n, outChunk, hinted>>
         ELSE out' = [out EXCEPT ![Place] = answer] /\ Advance
      /\ UNCHANGED <<filterVars, segs, at, taken, keys, stored, breach>>
  BY DEF ProbeKey
<1>2. /\ keys \in Seq(HashesOf(family)) /\ Len(keys) \in Nat
      /\ Len(out) = Len(keys) /\ out \in Seq({"unwritten", "yes", "no"})
      /\ chunk \in 1 .. Len(keys) /\ n \in chunk .. chunk + Stride - 1
      /\ n \in 1 .. Len(keys) /\ DOMAIN keys = 1 .. Len(keys)
      /\ DOMAIN out = 1 .. Len(keys) /\ outChunk = chunk
  BY <1>1 DEF HandleInv, CallInv
<1>3. keys[n] \in HashesOf(family) /\ StorageInv /\ SegsType
  BY <1>2, StorageIsTyped DEF HandleInv
<1>4. Stride \in Nat \ {0}
  BY StrideAssumption
<1>5. /\ answer \in {"yes", "no", "panic"}
      /\ InPlace /\ answer = "yes" => IsMember(keys[n])
      /\ InPlace /\ answer = "no" => ~IsMember(keys[n])
      /\ Whole => answer # "panic"
  BY <1>3, AnswerAsBuilt
<1>6. /\ \A h : PrefetchLines(h)' = PrefetchLines(h)
      /\ Whole' = Whole /\ InPlace' = InPlace
      /\ \A h : IsMember(h)' = IsMember(h)
      /\ HashesOf(family)' = HashesOf(family)
  BY <1>1, LinesStay, MembersStay DEF HashesOf, filterVars
<1>7. keys # <<>>
  BY <1>2
<1> DEFINE len == Len(keys)
<1>bounds. len \in Nat /\ chunk \in Nat /\ n \in Nat /\ 1 <= chunk /\ chunk <= n /\ n <= len
       /\ n <= chunk + (Stride - 1)
  BY <1>2, <1>4
<1>place. Place = n
  BY <1>2, <1>bounds DEF Place
<1> HIDE DEF answer, len
<1>8. pc' # "relocating"
  BY <1>1 DEF Advance
<1>9. StorageInv'
  BY <1>1, <1>3, <1>8, StorageStays
<1>10. CASE answer = "panic"
  <2>1. pc' = "panicked" /\ UNCHANGED <<out, chunk, n, outChunk, hinted, keys>> /\ ~Whole
    BY <1>1, <1>5, <1>10
  <2>2. CallInv'
    BY <1>2, <1>6, <1>7, <2>1 DEF CallInv
  <2>3. WrittenInv' /\ HintedInv'
    BY <2>1 DEF WrittenInv, HintedInv
  <2>4. AnswersInv'
    BY <1>6, <2>1 DEF HandleInv, AnswersInv
  <2>5. BatchAnswersInOrder' /\ WholeInv'
    BY <1>6, <2>1 DEF HandleInv, BatchAnswersInOrder, WholeInv
  <2> QED BY <1>9, <2>2, <2>3, <2>4, <2>5 DEF HandleInv
<1>11. CASE answer # "panic"
  <2>1. /\ out' = [out EXCEPT ![n] = answer] /\ answer \in {"yes", "no"}
        /\ \/ n = Len(keys) /\ pc' = "idle" /\ UNCHANGED <<chunk, n, outChunk, hinted>>
           \/ /\ n # Len(keys) /\ n = chunk + Stride - 1
              /\ pc' = "prefetch" /\ chunk' = n + 1 /\ n' = n + 1 /\ hinted' = {}
              /\ outChunk' = outChunk + Stride
           \/ /\ n # Len(keys) /\ n # chunk + Stride - 1
              /\ pc' = "probe" /\ n' = n + 1 /\ UNCHANGED <<chunk, outChunk, hinted>>
    BY <1>1, <1>5, <1>11, <1>place DEF Advance, EndOfChunk
  <2>2. /\ out' \in Seq({"unwritten", "yes", "no"}) /\ Len(out') = Len(keys)
        /\ DOMAIN out' = 1 .. Len(keys)
        /\ out'[n] = answer
        /\ \A j \in 1 .. Len(keys) : j # n => out'[j] = out[j]
    <3> DEFINE S == {"unwritten", "yes", "no"}
               k == Len(keys)
    <3>1. out \in Seq(S) /\ Len(out) = k /\ n \in 1 .. k /\ DOMAIN out = 1 .. k
          /\ answer \in S /\ out' = [out EXCEPT ![n] = answer]
      BY <1>2, <2>1
    <3> HIDE DEF S, k
    <3>2. out' \in Seq(S) /\ Len(out') = k
      BY <3>1
    <3>3. DOMAIN out' = 1 .. k /\ out'[n] = answer
          /\ \A j \in 1 .. k : j # n => out'[j] = out[j]
      BY <3>1
    <3> QED BY <3>2, <3>3 DEF S, k
  <2>3. \A j \in 1 .. Len(keys) : out[j] # "unwritten" <=> j < n
    BY <1>1, <1>2 DEF HandleInv, WrittenInv
  <2>4. \A j \in 1 .. Len(keys) : out'[j] # "unwritten" <=> j < n + 1
    <3> TAKE j \in 1 .. Len(keys)
    <3>1. CASE j = n
      <4>1. out'[j] # "unwritten"
        BY <2>1, <2>2, <3>1
      <4> QED BY <1>2, <3>1, <4>1
    <3>2. CASE j # n
      BY <1>2, <2>2, <2>3, <3>2
    <3> QED BY <3>1, <3>2
  <2>5. CallInv'
    <3>1. pc' = "idle" => n' \in Nat /\ keys' # <<>>
      BY <1>1, <1>2, <1>7, <2>1
    <3>2. pc' = "prefetch" =>
            chunk' \in 1 .. Len(keys) /\ n' \in chunk' .. chunk' + Stride - 1
            /\ n' \in 1 .. Len(keys)
      <4> SUFFICES ASSUME pc' = "prefetch"
                   PROVE  chunk' \in 1 .. Len(keys) /\ n' \in chunk' .. chunk' + Stride - 1
                          /\ n' \in 1 .. Len(keys)
        OBVIOUS
      <4>1. n # Len(keys) /\ chunk' = n + 1 /\ n' = n + 1
        BY <2>1
      <4>2. n # len
        BY <4>1 DEF len
      <4>3. chunk' \in 1 .. len /\ n' \in chunk' .. chunk' + Stride - 1 /\ n' \in 1 .. len
        BY <1>4, <1>bounds, <4>1, <4>2
      <4> QED BY <4>3 DEF len
    <3>3. pc' = "probe" =>
            chunk' \in 1 .. Len(keys) /\ n' \in chunk' .. chunk' + Stride - 1
            /\ n' \in 1 .. Len(keys)
      <4> SUFFICES ASSUME pc' = "probe"
                   PROVE  chunk' \in 1 .. Len(keys) /\ n' \in chunk' .. chunk' + Stride - 1
                          /\ n' \in 1 .. Len(keys)
        OBVIOUS
      <4>1. n # Len(keys) /\ n # chunk + Stride - 1 /\ chunk' = chunk /\ n' = n + 1
        BY <2>1
      <4>2. n # len
        BY <4>1 DEF len
      <4>3. chunk' \in 1 .. len /\ n' \in chunk' .. chunk' + Stride - 1 /\ n' \in 1 .. len
        BY <1>4, <1>bounds, <4>1, <4>2
      <4> QED BY <4>3 DEF len
    <3>4. pc' \in {"idle", "prefetch", "probe"}
      BY <2>1
    <3>5. outChunk' = chunk'
      <4>1. CASE UNCHANGED <<chunk, outChunk>>
        BY <1>2, <4>1
      <4>2. CASE n = chunk + Stride - 1 /\ chunk' = n + 1 /\ outChunk' = outChunk + Stride
        <5>1. chunk \in Nat /\ Stride \in Nat /\ outChunk = chunk
          BY <1>2, <1>4, <1>bounds
        <5> QED BY <4>2, <5>1
      <4> QED BY <2>1, <4>1, <4>2
    <3> QED BY <1>1, <1>2, <1>6, <1>7, <2>2, <3>2, <3>3, <3>4, <3>5 DEF CallInv
  <2>6. WrittenInv'
    BY <2>1, <2>2, <2>4 DEF WrittenInv
  <2>7. AnswersInv'
    <3>1. ASSUME InPlace, NEW j \in 1 .. Len(keys), out'[j] # "unwritten", NEW h, h = keys[j]
          PROVE  out'[j] = "yes" <=> IsMember(h)
      <4>1. CASE j = n
        BY <1>5, <2>1, <2>2, <3>1, <4>1
      <4>2. CASE j # n
        BY <1>2, <2>2, <3>1, <4>2 DEF HandleInv, AnswersInv
      <4> QED BY <4>1, <4>2
    <3> QED BY <1>1, <1>2, <1>6, <2>2, <3>1 DEF AnswersInv
  <2>8. HintedInv'
    <3>1. ASSUME pc' = "probe"
          PROVE  \A j \in DOMAIN keys : chunk <= j /\ j < chunk + Stride =>
                   \A h : h = keys[j] => PrefetchLines(h) \subseteq hinted
      BY <1>1 DEF HandleInv, HintedInv
    <3>2. pc' = "prefetch" => chunk' .. n' - 1 = {}
      BY <1>2, <2>1
    <3>3. pc' = "probe" => UNCHANGED <<chunk, hinted, keys>>
      BY <1>1, <2>1
    <3> QED BY <1>6, <3>1, <3>2, <3>3 DEF HintedInv
  <2>9. BatchAnswersInOrder'
    <3>1. pc' = "idle" => \A j \in 1 .. Len(keys) : j < n + 1
      BY <1>2, <2>1
    <3>2. \A k, j \in 1 .. Len(keys) : k < j /\ j < n + 1 => k < n + 1
      BY <1>2
    <3> QED BY <2>2, <2>4, <3>1, <3>2 DEF BatchAnswersInOrder
  <2>10. WholeInv'
    BY <2>1 DEF WholeInv
  <2> QED BY <1>9, <2>5, <2>6, <2>7, <2>8, <2>9, <2>10 DEF HandleInv
<1> QED BY <1>10, <1>11

(* The storage and the saved buffers, step by step outside a call          *)
LEMMA TakeStorageInv ==
  ASSUME StorageInv, TakeStorage
  PROVE  StorageInv'
<1>1. /\ taken' = segs /\ segs' = Nothing /\ pc # "relocating" /\ pc' = "relocating"
      /\ UNCHANGED <<filterVars, at, stored, breach>>
  BY DEF TakeStorage, Idle
<1>2. (\A s : Sound(s)' = Sound(s)) /\ (\A s : ToBytes(s)' = ToBytes(s))
  BY <1>1 DEF Sound, ToBytes, filterVars
<1>3. Sound(taken)' = Sound(segs)
  BY <1>1 DEF Sound, filterVars
<1> QED BY <1>1, <1>2, <1>3 DEF StorageInv, filterVars, Nothing

LEMMA SolutionHasWords ==
  ASSUME solution \in Solutions
  PROVE  /\ NumBlocks * R \in Nat \ {0}
         /\ solution \in Seq(Word) /\ Len(solution) = NumBlocks * R
<1>1. NumBlocks \in Nat \ {0} /\ R \in Nat \ {0}
  BY NumBlocksAssumption, ColumnType
<1>2. 1 * R <= NumBlocks * R /\ NumBlocks * R \in Nat /\ 1 * R = R
  BY <1>1, ProductGrows
<1>3. solution \in [1 .. NumBlocks * R -> Word]
  BY SolutionsAssumption
<1> QED BY <1>1, <1>2, <1>3

LEMMA StoreReturnedInv ==
  ASSUME StorageInv, StoreReturned
  PROVE  StorageInv'
<1>1. PICK v \in Returned :
        /\ segs' = v
        /\ pc' = IF Len(v) = Len(taken) THEN "idle" ELSE "panicked"
        /\ breach' = IF v = taken THEN breach
                     ELSE IF breach = "none" /\ Len(v) # Len(taken) THEN "caught" ELSE "lost"
  BY DEF StoreReturned
<1>2. /\ pc = "relocating" /\ at' \in 0 .. LineLen[family] - 1 /\ taken' = Nothing
      /\ UNCHANGED <<filterVars, stored>>
  BY DEF StoreReturned
<1>3. Sound(taken) /\ v \in Seq(Word)
  <2>1. Sound(taken)
    BY <1>2 DEF StorageInv
  <2> QED BY <2>1, VectorsAssumption DEF Returned, Sound
<1>4. /\ breach' \in {"none", "caught", "lost"}
      /\ breach' = "none" => breach = "none" /\ v = taken
      /\ breach' = "caught" =>
           \/ breach = "caught" /\ v = taken
           \/ breach = "none" /\ Len(v) # Len(taken)
  BY <1>1 DEF StorageInv
<1>5. Sound(v)'
  <2>1. breach = "none" => taken = solution /\ Len(taken) = NumBlocks * R
    BY <1>3, SolutionHasWords DEF Sound, StorageInv
  <2>2. breach' = "none" => v = solution
    BY <1>4, <2>1
  <2>3. breach' # "lost" => v = solution \/ Len(v) # NumBlocks * R
    BY <1>3, <1>4, <2>1, <2>2 DEF Sound
  <2> QED BY <1>2, <1>3, <2>2, <2>3 DEF Sound, filterVars
<1>6. \A s : Sound(s) => Sound(s)'
  BY <1>2, <1>4 DEF Sound, filterVars
<1>7. stored' = Nothing \/ \E s : Sound(s)' /\ stored' = ToBytes(s)'
  BY <1>2, <1>6 DEF StorageInv, ToBytes
<1>8. Sound(segs)'
  BY <1>1, <1>5 DEF Sound
<1>9. pc' # "relocating"
  BY <1>1
<1> QED BY <1>2, <1>4, <1>7, <1>8, <1>9 DEF StorageInv, filterVars, Nothing

LEMMA CallbackPanicsInv ==
  ASSUME StorageInv, CallbackPanics
  PROVE  StorageInv'
<1>1. /\ pc = "relocating" /\ pc' = "panicked" /\ taken' = Nothing
      /\ breach' = IF breach = "none" THEN "caught" ELSE breach
      /\ UNCHANGED <<filterVars, segs, at, stored>>
  BY DEF CallbackPanics
<1>2. breach' \in {"caught", "lost"} /\ (breach' = "caught" => breach # "lost")
  BY <1>1 DEF StorageInv
<1>3. \A s : Sound(s) => Sound(s)'
  BY <1>1, <1>2 DEF Sound, filterVars
<1>4. Sound(segs)'
  <2>1. segs' = Nothing /\ Nothing \in Seq(Word) /\ Len(Nothing) = 0
    BY <1>1 DEF StorageInv, Nothing
  <2>2. Len(segs') # NumBlocks * R
    BY <2>1, SolutionHasWords DEF StorageInv
  <2> QED BY <1>1, <1>2, <2>1, <2>2 DEF Sound, filterVars
<1>5. stored' = Nothing \/ \E s : Sound(s)' /\ stored' = ToBytes(s)'
  BY <1>1, <1>3 DEF StorageInv, ToBytes
<1> QED BY <1>1, <1>2, <1>4, <1>5 DEF StorageInv, filterVars, Nothing

LEMMA SerializeInv ==
  ASSUME StorageInv, Serialize
  PROVE  StorageInv'
<1>1. /\ stored' = ToBytes(segs) /\ pc # "relocating"
      /\ UNCHANGED <<filterVars, segs, at, taken, pc, breach>>
  BY DEF Serialize, Idle
<1>2. (\A s : Sound(s)' = Sound(s)) /\ (\A s : ToBytes(s)' = ToBytes(s))
  BY <1>1 DEF Sound, ToBytes, filterVars
<1>3. Sound(segs) /\ Sound(segs)' = Sound(segs)
  BY <1>1 DEF StorageInv, Sound, filterVars
<1>4. \E s : Sound(s)' /\ stored' = ToBytes(s)'
  BY <1>1, <1>2, <1>3
<1> QED BY <1>1, <1>3, <1>4 DEF StorageInv, filterVars, Nothing

LEMMA FromBytesInv ==
  ASSUME StorageInv, FromBytes
  PROVE  StorageInv'
<1>1. /\ stored # Nothing /\ stored' = Nothing /\ pc # "relocating"
      /\ UNCHANGED <<filterVars, taken, pc, breach>>
      /\ \/ segs' = stored.payload /\ at' \in 0 .. LineLen[family] - 1
         \/ UNCHANGED <<segs, at>>
  BY DEF FromBytes, Idle
<1>2. PICK s : Sound(s) /\ stored = ToBytes(s)
  BY <1>1 DEF StorageInv
<1>3. stored.payload = s
  BY <1>2 DEF ToBytes
<1>4. Sound(segs) /\ (segs' = s \/ segs' = segs)
  BY <1>1, <1>3 DEF StorageInv
<1>5. Sound(segs)'
  BY <1>1, <1>2, <1>4 DEF Sound, filterVars
<1> QED BY <1>1, <1>5 DEF StorageInv, filterVars, Nothing

(* The steps outside a call                                                *)
LEMMA OtherHandleInv ==
  ASSUME HandleInv,
         \/ TakeStorage \/ StoreReturned \/ CallbackPanics
         \/ GoOn \/ Serialize \/ FromBytes
  PROVE  HandleInv'
<1>1. UNCHANGED filterVars
  BY DEF TakeStorage, StoreReturned, CallbackPanics, GoOn, Serialize, FromBytes
<1>2. /\ keys' = <<>> /\ out' = <<>> /\ chunk' = 1 /\ n' = 1 /\ outChunk' = 1
      /\ hinted' = {}
      /\ pc' \in {"idle", "relocating", "panicked"}
  <2>1. CASE GoOn
    BY <2>1 DEF GoOn
  <2>2. CASE TakeStorage \/ Serialize \/ FromBytes
    BY <2>2 DEF HandleInv, CallInv, TakeStorage, Serialize, FromBytes, Idle, callVars
  <2>3. CASE StoreReturned \/ CallbackPanics
    BY <2>3 DEF HandleInv, CallInv, StoreReturned, CallbackPanics, callVars
  <2> QED BY <2>1, <2>2, <2>3
<1>3. StorageInv'
  <2>1. StorageInv
    BY DEF HandleInv
  <2>2. CASE GoOn
    BY <2>1, <2>2, StorageStays DEF GoOn
  <2> QED BY <2>1, <2>2, TakeStorageInv, StoreReturnedInv, CallbackPanicsInv,
             SerializeInv, FromBytesInv
<1> QED BY <1>1, <1>2, <1>3, IdleInv DEF HandleInv

LEMMA StutterHandleInv ==
  ASSUME HandleInv, UNCHANGED vars
  PROVE  HandleInv'
<1>1. UNCHANGED <<filterVars, segs, at, taken, pc, keys, out, chunk, n, outChunk, hinted,
                  stored, breach>>
  BY DEF vars, callVars
<1>2. StorageInv'
  BY <1>1, StorageStays DEF HandleInv
<1>3. /\ \A h : PrefetchLines(h)' = PrefetchLines(h)
      /\ Whole' = Whole /\ InPlace' = InPlace
      /\ \A h : IsMember(h)' = IsMember(h)
      /\ HashesOf(family)' = HashesOf(family)
  BY <1>1, LinesStay, MembersStay DEF HashesOf, filterVars
<1>4. CallInv' /\ WrittenInv' /\ AnswersInv' /\ HintedInv'
  BY <1>1, <1>3 DEF HandleInv, CallInv, WrittenInv, AnswersInv, HintedInv
<1>5. BatchAnswersInOrder' /\ WholeInv'
  BY <1>1, <1>3 DEF HandleInv, BatchAnswersInOrder, WholeInv
<1> QED BY <1>2, <1>4, <1>5 DEF HandleInv

LEMMA HandleInvariant == Spec => []HandleInv
<1>1. HandleInv /\ [Next]_vars => HandleInv'
  BY LookupHandleInv, ContainsBatchHandleInv, PrefetchKeyHandleInv, ProbeKeyHandleInv,
     OtherHandleInv, StutterHandleInv DEF Next
<1> QED BY InitHandleInv, <1>1, PTL DEF Spec
-----------------------------------------------------------------------------
(* Types: the indices of a batch stay inside the slices of keys and        *)
(* answers, and storage is in the filter or with the callback.             *)
THEOREM HandleTypeCorrect == Spec => []HandleTypeOK
<1>1. HandleInv => HandleTypeOK
  <2> SUFFICES ASSUME HandleInv PROVE HandleTypeOK
    OBVIOUS
  <2>1. segs \in Seq(Word) /\ taken \in Seq(Word)
    <3>1. Nothing \in Seq(Word)
      BY DEF Nothing
    <3> QED BY <3>1 DEF HandleInv, StorageInv, Sound
  <2>2. \A j \in DOMAIN out : out[j] \in {"unwritten", "yes", "no"}
    BY DEF HandleInv, CallInv
  <2> QED BY <2>1, <2>2 DEF HandleInv, StorageInv, CallInv, HandleTypeOK
<1> QED BY <1>1, HandleInvariant, PTL

(* As long as callbacks keep their contract, and after any breach of it    *)
(* that left the words of the solution in their places, an answer that     *)
(* contains gives is that of the filter that was built.                    *)
THEOREM AnswersOfTheBuilt == Spec => []AnswersAreOriginal
<1>1. HandleInv => AnswersAreOriginal
  <2> SUFFICES ASSUME HandleInv, breach = "none" \/ InPlace,
                      NEW j \in DOMAIN out, out[j] # "unwritten"
               PROVE  out[j] = "yes" <=> IsMember(keys[j])
    BY DEF AnswersAreOriginal
  <2>1. InPlace
    BY UnbreachedStorage DEF HandleInv
  <2> QED BY <2>1 DEF HandleInv, AnswersInv
<1> QED BY <1>1, HandleInvariant, PTL

(* A batch answers its keys in order and passes over none.                 *)
THEOREM BatchesAnswerInOrder == Spec => []BatchAnswersInOrder
<1>1. HandleInv => BatchAnswersInOrder
  BY DEF HandleInv
<1> QED BY <1>1, HandleInvariant, PTL

(* No query of a filter whose callbacks kept their contract, or whose      *)
(* storage is whole all the same, panics, wherever in the table its row    *)
(* starts.                                                                 *)
THEOREM WholeFiltersAnswer == Spec => []WholeFilterAnswers
<1>1. HandleInv => WholeFilterAnswers
  <2> SUFFICES ASSUME HandleInv, pc = "panicked", breach = "none" \/ Whole, keys # <<>>
               PROVE  Len(out) # Len(keys)
    BY DEF WholeFilterAnswers
  <2>1. Whole
    BY UnbreachedStorage DEF HandleInv
  <2> QED BY <2>1 DEF HandleInv, WholeInv
<1> QED BY <1>1, HandleInvariant, PTL

(* When a key of a batch is probed, the lines its query reads have been    *)
(* hinted, unless it starts in the last block, for lines of every length.  *)
THEOREM HintsComeFirst == Spec => []HintsPrecedeReads
<1>1. HandleInv => HintsPrecedeReads
  <2> SUFFICES ASSUME HandleInv, pc = "probe", Whole, Start(keys[n]) # NumStarts - 1
               PROVE  LinesRead(keys[n]) \subseteq hinted
    BY DEF HintsPrecedeReads
  <2>1. keys \in Seq(HashesOf(family)) /\ n \in DOMAIN keys
        /\ chunk \in Nat /\ n \in chunk .. chunk + Stride - 1
    BY DEF HandleInv, CallInv
  <2>2. keys[n] \in HashesOf(family) /\ StorageInv
    BY <2>1 DEF HandleInv
  <2>3. LinesRead(keys[n]) \subseteq PrefetchLines(keys[n])
    BY <2>2, ReadsAreHinted, StorageIsTyped
  <2>4. chunk <= n /\ n < chunk + Stride
    BY <2>1, StrideAssumption
  <2>5. PrefetchLines(keys[n]) \subseteq hinted
    BY <2>1, <2>4 DEF HandleInv, HintedInv
  <2> QED BY <2>3, <2>5
<1> QED BY <1>1, HandleInvariant, PTL

(* What from_bytes accepts is the filter that was built, unless callbacks  *)
(* broke their contract twice, or without a panic: storage that lost or    *)
(* gained segments in a failed relocation is not loaded again.             *)
THEOREM BrokenIsNotLoaded == Spec => []BrokenIsNotPersisted
<1>1. HandleInv => BrokenIsNotPersisted
  <2> SUFFICES ASSUME HandleInv, breach # "lost", stored # Nothing, Accepts(stored)
               PROVE  stored.payload = solution
    BY DEF BrokenIsNotPersisted
  <2>1. PICK s : Sound(s) /\ stored = ToBytes(s)
    BY DEF HandleInv, StorageInv
  <2>2. stored.num_starts = NumStarts /\ stored.count = Len(s) /\ stored.payload = s
    BY <2>1 DEF ToBytes
  <2>3. Type.w = W /\ Type.r = R
    BY DEF Type
  <2>4. /\ NumStarts + W - 1 < U64
        /\ Len(s) = (Geo!SlotsOf(NumStarts, Type) \div W) * R
    BY <2>2, <2>3 DEF Accepts, Geo!GoodGeometry, Geo!GoodSlots, Geo!GoodCount
  <2>5. Geo!SlotsOf(NumStarts, Type) = NumSlots
    <3>1. NumStarts + W - 1 = NumSlots /\ NumSlots \in Nat /\ NumSlots < U64
      BY <2>4, TableSize
    <3>2. NumSlots % U64 = NumSlots
      BY <3>1, MachineAssumption
    <3> QED BY <2>3, <3>1, <3>2 DEF Geo!SlotsOf
  <2>6. NumSlots \div W = NumBlocks
    <3>1. W \in Nat \ {0} /\ NumBlocks \in Nat /\ 0 \in 0 .. W - 1
      BY TableSize, NumBlocksAssumption
    <3>2. (NumBlocks * W + 0) \div W = NumBlocks
      BY <3>1, DivisionIsUnique
    <3>3. NumBlocks * W + 0 = NumSlots
      BY <3>1 DEF NumSlots
    <3> QED BY <3>2, <3>3
  <2>7. Len(s) = NumBlocks * R
    BY <2>4, <2>5, <2>6
  <2>8. s = solution
    BY <2>1, <2>7 DEF Sound
  <2> QED BY <2>2, <2>8
<1> QED BY <1>1, HandleInvariant, PTL
=============================================================================
