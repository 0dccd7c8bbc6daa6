-------------------------- MODULE PleatPlan_proofs -------------------------
(***************************************************************************)
(* Proofs about the counting sort: for slices, windows and tables of every *)
(* size, the indices of its passes stay inside the arrays, the cursors     *)
(* stay in the runs of their windows, and the result is the stable order   *)
(* by windows.                                                             *)
(***************************************************************************)
EXTENDS PleatPlan, FiniteSetTheorems, FunctionTheorems, TLAPS

-----------------------------------------------------------------------------
(* Ranks                                                                   *)

(* The keys that belong before the keys of window w after the m-th of the  *)
(* slice: those of earlier windows, and the window's own among the first m *)
UpTo(w, m) ==
  {a \in 1 .. Len(keys) :
     WindowOf(keys[a]) < w \/ (WindowOf(keys[a]) = w /\ a <= m)}

Rank(w, m) == Cardinality(UpTo(w, m))

(* What of it is there with all keys, and with those before the i-th       *)
SeenInAll(w) == Seen(Len(keys), w)
SeenSoFar(w) == Seen(i - 1, w)
RankSoFar(w) == Rank(w, i - 1)

(* The place of key a in the stable order                                  *)
Place(a) == Rank(WindowOf(keys[a]), a)

(* What no step changes                                                    *)
InputInv ==
  /\ keys \in Seq(Keys) /\ keys \in Inputs
  /\ start \in [Range(keys) -> 0 .. NumStarts - 1]
  /\ window \in Nat \ {0} /\ window \in WindowSizes
  /\ out \in [1 .. Len(keys) -> Keys]
  /\ counts \in [0 .. NumWindows -> Nat]
  /\ i \in 1 .. Len(keys) + NumWindows + 1
  /\ pc \in {"count", "offsets", "move", "done"}

(* First pass: the window of every key so far is counted one place on.     *)
CountInv ==
  pc = "count" =>
    /\ i <= Len(keys) + 1
    /\ counts[0] = 0
    /\ \A w \in Windows : counts[w + 1] = SeenSoFar(w)

(* Second pass: below i offsets, from i on still counts                    *)
OffsetInv ==
  pc = "offsets" =>
    /\ i <= NumWindows + 1
    /\ \A w \in 0 .. NumWindows : w < i => counts[w] = Rank(w, 0)
    /\ \A w \in Windows : i <= w + 1 => counts[w + 1] = SeenInAll(w)

(* Third pass: the keys so far are at their places in the stable order,    *)
(* and the cursors right behind them.                                      *)
MoveInv ==
  pc \in {"move", "done"} =>
    /\ i <= Len(keys) + 1
    /\ pc = "done" => i = Len(keys) + 1
    /\ \A w \in 0 .. NumWindows : counts[w] = Rank(w, 0)
    /\ cursor \in [Windows -> Nat]
    /\ \A w \in Windows : cursor[w] = RankSoFar(w)
    /\ \A a \in 1 .. Len(keys) : a < i => out[Place(a)] = keys[a]

(* The inductive invariant of the sort                                     *)
PleatInv == InputInv /\ CountInv /\ OffsetInv /\ MoveInv
-----------------------------------------------------------------------------
(* Windows                                                                 *)

LEMMA QuotientIsNatural ==
  ASSUME NEW a \in Nat, NEW b \in Nat \ {0}
  PROVE  a \div b \in Nat /\ a % b \in 0 .. b - 1 /\ a = b * (a \div b) + (a % b)
OBVIOUS

LEMMA QuotientGrows ==
  ASSUME NEW a \in Nat, NEW c \in Nat, NEW b \in Nat \ {0}, a <= c
  PROVE  a \div b <= c \div b
<1> DEFINE q == a \div b
           p == c \div b
<1>1. q \in Nat /\ p \in Nat /\ a >= b * q /\ c < b * p + b
  <2>1. q \in Nat /\ a % b \in 0 .. b - 1 /\ a = b * q + (a % b)
    BY QuotientIsNatural
  <2>2. p \in Nat /\ c % b \in 0 .. b - 1 /\ c = b * p + (c % b)
    BY QuotientIsNatural
  <2>3. b * q \in Nat /\ b * p \in Nat
    BY <2>1, <2>2
  <2> HIDE DEF q, p
  <2> QED BY <2>1, <2>2, <2>3
<1> HIDE DEF q, p
<1>2. ASSUME q > p
      PROVE  FALSE
  <2>1. b * q >= b * (p + 1)
    BY <1>1, <1>2
  <2>2. b * (p + 1) = b * p + b /\ b * p \in Nat /\ b * q \in Nat
    BY <1>1
  <2> QED BY <1>1, <2>1, <2>2
<1> QED BY <1>1, <1>2 DEF q, p

LEMMA WindowCount ==
  ASSUME window \in Nat \ {0}
  PROVE  NumWindows \in Nat /\ NumWindows >= 2
BY NumStartsAssumption, QuotientIsNatural DEF NumWindows

(* Every key has its window, and that window's counter is not the last.    *)
LEMMA KeyInWindow ==
  ASSUME InputInv, NEW a \in 1 .. Len(keys)
  PROVE  WindowOf(keys[a]) \in Windows
<1> DEFINE s == start[keys[a]]
<1>1. keys[a] \in Range(keys)
  BY DEF Range, InputInv
<1>2. s \in 0 .. NumStarts - 1
  BY <1>1 DEF InputInv
<1> HIDE DEF s
<1>3. s \in Nat /\ s <= NumStarts /\ NumStarts \in Nat /\ window \in Nat \ {0}
  BY <1>2, NumStartsAssumption DEF InputInv
<1>4. s \div window <= NumStarts \div window /\ s \div window \in Nat
      /\ NumStarts \div window \in Nat
  BY <1>3, QuotientGrows, QuotientIsNatural
<1> QED BY <1>4 DEF WindowOf, Windows, NumWindows, s

-----------------------------------------------------------------------------
(* Counting                                                                *)

LEMMA PartOfIndices ==
  ASSUME NEW m \in Nat, NEW S, S \subseteq 1 .. m
  PROVE  IsFiniteSet(S) /\ Cardinality(S) \in 0 .. m
<1>1. IsFiniteSet(1 .. m) /\ Cardinality(1 .. m) = m
  BY FS_Interval
<1>2. IsFiniteSet(S) /\ Cardinality(S) <= m
  BY <1>1, FS_Subset
<1> QED BY <1>2, FS_CardinalityType

LEMMA OneMore ==
  ASSUME NEW S, NEW x, IsFiniteSet(S), x \notin S, NEW T, T = S \cup {x}
  PROVE  Cardinality(T) = Cardinality(S) + 1
BY FS_AddElement

LEMMA Disjoint ==
  ASSUME NEW S, NEW T, IsFiniteSet(S), IsFiniteSet(T),
         \A x \in S : x \notin T, NEW U, U = S \cup T
  PROVE  Cardinality(U) = Cardinality(S) + Cardinality(T)
<1>1. S \cap T = {}
  OBVIOUS
<1>2. Cardinality(S \cap T) = 0
  BY <1>1, FS_EmptySet
<1>3. Cardinality(S \cup T) = Cardinality(S) + Cardinality(T) - Cardinality(S \cap T)
  BY FS_Union
<1>4. Cardinality(S) \in Nat /\ Cardinality(T) \in Nat
  BY FS_CardinalityType
<1> QED BY <1>2, <1>3, <1>4

(* A window's keys among the first m                                       *)
OfWindow(m, w) == {a \in 1 .. m : WindowOf(keys[a]) = w}

LEMMA SeenType ==
  ASSUME NEW m \in Nat, NEW w
  PROVE  IsFiniteSet(OfWindow(m, w)) /\ Seen(m, w) \in 0 .. m
<1>1. OfWindow(m, w) \subseteq 1 .. m
  BY DEF OfWindow
<1>2. Seen(m, w) = Cardinality(OfWindow(m, w))
  BY DEF Seen, OfWindow
<1> QED BY <1>1, <1>2, PartOfIndices

LEMMA NoneSeen ==
  ASSUME NEW w
  PROVE  Seen(0, w) = 0
<1>1. {a \in 1 .. 0 : WindowOf(keys[a]) = w} = {}
  OBVIOUS
<1> QED BY <1>1, FS_EmptySet DEF Seen

LEMMA SeenNext ==
  ASSUME NEW m \in Nat \ {0}, NEW w
  PROVE  Seen(m, w) = Seen(m - 1, w) + (IF WindowOf(keys[m]) = w THEN 1 ELSE 0)
<1>1. Seen(m, w) = Cardinality(OfWindow(m, w))
      /\ Seen(m - 1, w) = Cardinality(OfWindow(m - 1, w))
  BY DEF Seen, OfWindow
<1>2. IsFiniteSet(OfWindow(m - 1, w)) /\ Seen(m - 1, w) \in Nat
  BY SeenType
<1>3. CASE WindowOf(keys[m]) = w
  <2>1. m \notin OfWindow(m - 1, w)
        /\ OfWindow(m, w) = OfWindow(m - 1, w) \cup {m}
    BY <1>3 DEF OfWindow
  <2> QED BY <1>1, <1>2, <1>3, <2>1, OneMore
<1>4. CASE WindowOf(keys[m]) # w
  <2>1. OfWindow(m, w) = OfWindow(m - 1, w)
    BY <1>4 DEF OfWindow
  <2> QED BY <1>1, <1>2, <1>4, <2>1
<1> QED BY <1>3, <1>4

LEMMA RankType ==
  ASSUME keys \in Seq(Keys), NEW w, NEW m
  PROVE  IsFiniteSet(UpTo(w, m)) /\ Rank(w, m) \in 0 .. Len(keys)
<1>1. UpTo(w, m) \subseteq 1 .. Len(keys) /\ Len(keys) \in Nat
  BY DEF UpTo
<1> QED BY <1>1, PartOfIndices DEF Rank

(* The rank after m keys is the first rank and what has been seen.         *)
LEMMA RankIsOffset ==
  ASSUME InputInv, NEW w \in Windows, NEW m \in 0 .. Len(keys)
  PROVE  Rank(w, m) = Rank(w, 0) + Seen(m, w)
<1>1. IsFiniteSet(UpTo(w, 0)) /\ IsFiniteSet(OfWindow(m, w))
  BY RankType, SeenType DEF InputInv
<1>2. \A a \in 1 .. Len(keys) : WindowOf(keys[a]) \in Nat
  BY KeyInWindow DEF Windows
<1>3. \A a \in UpTo(w, 0) : a \notin OfWindow(m, w)
  BY <1>2 DEF UpTo, OfWindow, Windows
<1>4. UpTo(w, m) = UpTo(w, 0) \cup OfWindow(m, w)
  BY <1>2 DEF UpTo, OfWindow, Windows
<1>5. Seen(m, w) = Cardinality(OfWindow(m, w))
  BY DEF Seen, OfWindow
<1> QED BY <1>1, <1>3, <1>4, <1>5, Disjoint DEF Rank

(* The run of a window begins where that of the one before ends.           *)
LEMMA NextRun ==
  ASSUME InputInv, NEW w \in Windows
  PROVE  Rank(w + 1, 0) = Rank(w, 0) + Seen(Len(keys), w)
<1>1. \A a \in 1 .. Len(keys) : WindowOf(keys[a]) \in Nat
  BY KeyInWindow DEF Windows
<1>2. UpTo(w + 1, 0) = UpTo(w, Len(keys))
  BY <1>1 DEF UpTo, Windows
<1>3. Len(keys) \in 0 .. Len(keys)
  BY DEF InputInv
<1> QED BY <1>2, <1>3, RankIsOffset DEF Rank

LEMMA FirstRun ==
  ASSUME InputInv
  PROVE  Rank(0, 0) = 0
<1>1. \A a \in 1 .. Len(keys) : WindowOf(keys[a]) \in Nat
  BY KeyInWindow DEF Windows
<1>2. UpTo(0, 0) = {}
  BY <1>1 DEF UpTo
<1> QED BY <1>2, FS_EmptySet DEF Rank

(* A key's place is the next one behind what its window had before it.     *)
LEMMA PlaceIsNext ==
  ASSUME InputInv, NEW a \in 1 .. Len(keys)
  PROVE  Place(a) = Rank(WindowOf(keys[a]), a - 1) + 1
<1> DEFINE w == WindowOf(keys[a])
<1>1. w \in Windows
  BY KeyInWindow
<1> HIDE DEF w
<1>2. Rank(w, a) = Rank(w, 0) + Seen(a, w)
      /\ Rank(w, a - 1) = Rank(w, 0) + Seen(a - 1, w)
  BY <1>1, RankIsOffset DEF InputInv
<1>3. Seen(a, w) = Seen(a - 1, w) + 1
  <2>1. a \in Nat \ {0}
    OBVIOUS
  <2> QED BY <2>1, SeenNext DEF w
<1>4. Rank(w, 0) \in Nat /\ Seen(a - 1, w) \in Nat
  BY RankType, SeenType DEF InputInv
<1> QED BY <1>2, <1>3, <1>4 DEF Place, w

(* Places are in the buffer, and in the order of windows and arrival.      *)
LEMMA PlaceInBuffer ==
  ASSUME InputInv, NEW a \in 1 .. Len(keys)
  PROVE  Place(a) \in 1 .. Len(keys)
<1>1. Place(a) \in 0 .. Len(keys) /\ Rank(WindowOf(keys[a]), a - 1) \in Nat
  BY RankType DEF InputInv, Place
<1> QED BY <1>1, PlaceIsNext

LEMMA PlacesInOrder ==
  ASSUME InputInv, NEW a \in 1 .. Len(keys), NEW b \in 1 .. Len(keys),
         \/ WindowOf(keys[a]) < WindowOf(keys[b])
         \/ WindowOf(keys[a]) = WindowOf(keys[b]) /\ a < b
  PROVE  Place(a) < Place(b)
<1> DEFINE S == UpTo(WindowOf(keys[a]), a)
           T == UpTo(WindowOf(keys[b]), b)
<1>1. \A c \in 1 .. Len(keys) : WindowOf(keys[c]) \in Nat
  BY KeyInWindow DEF Windows
<1>2. S \subseteq T
  BY <1>1 DEF UpTo
<1>3. b \in T /\ b \notin S
  BY <1>1 DEF UpTo
<1>4. IsFiniteSet(T) /\ IsFiniteSet(S)
  BY RankType DEF InputInv
<1>5. Place(a) = Cardinality(S) /\ Place(b) = Cardinality(T)
  BY DEF Place, Rank
<1>6. Place(a) \in Nat /\ Place(b) \in Nat
  BY PlaceInBuffer
<1> HIDE DEF S, T
<1>7. Cardinality(S) <= Cardinality(T)
      /\ (Cardinality(S) = Cardinality(T) => S = T)
  BY <1>2, <1>4, FS_Subset, SMT
<1> QED BY <1>3, <1>5, <1>6, <1>7
-----------------------------------------------------------------------------
(* The invariant, step by step                                             *)

LEMMA SameRanks ==
  ASSUME UNCHANGED <<keys, start, window>>
  PROVE  /\ NumWindows' = NumWindows /\ Windows' = Windows
         /\ \A w, m : Rank(w, m)' = Rank(w, m)
         /\ \A w : SeenInAll(w)' = SeenInAll(w)
         /\ \A a : Place(a)' = Place(a)
<1>1. NumWindows' = NumWindows /\ Windows' = Windows
  BY DEF NumWindows, Windows
<1>2. \A w, m : Rank(w, m)' = Rank(w, m)
  BY DEF Rank, UpTo, WindowOf
<1>3. \A w : SeenInAll(w)' = SeenInAll(w)
  BY DEF SeenInAll, Seen, WindowOf
<1>4. \A a : Place(a)' = Place(a)
  BY DEF Place, Rank, UpTo, WindowOf
<1> QED BY <1>1, <1>2, <1>3, <1>4

LEMMA NextSoFar ==
  ASSUME UNCHANGED <<keys, start, window>>, NEW m, i' - 1 = m
  PROVE  \A w : SeenSoFar(w)' = Seen(m, w) /\ RankSoFar(w)' = Rank(w, m)
BY DEF SeenSoFar, RankSoFar, Seen, Rank, UpTo, WindowOf

LEMMA InitPleatInv == Init => PleatInv
<1> SUFFICES ASSUME Init PROVE PleatInv
  OBVIOUS
<1>1. window \in Nat \ {0} /\ keys \in Seq(Keys)
  BY InputsAssumption, WindowSizesAssumption DEF Init
<1>2. NumWindows \in Nat /\ Len(keys) \in Nat
  BY <1>1, WindowCount
<1>3. InputInv
  BY <1>1, <1>2 DEF Init, InputInv
<1>4. CountInv
  <2>1. counts[0] = 0 /\ \A w \in Windows : counts[w + 1] = 0
    BY <1>2 DEF Init, Windows
  <2>2. \A w \in Windows : SeenSoFar(w) = 0
    <3>1. i - 1 = 0
      BY DEF Init
    <3> QED BY <3>1, NoneSeen DEF SeenSoFar
  <2> QED BY <1>2, <2>1, <2>2 DEF Init, CountInv
<1>5. OffsetInv /\ MoveInv
  BY DEF Init, OffsetInv, MoveInv
<1> QED BY <1>3, <1>4, <1>5 DEF PleatInv

LEMMA CountKeyPleatInv ==
  ASSUME PleatInv, CountKey
  PROVE  PleatInv'
<1>1. InputInv /\ pc = "count" /\ i <= Len(keys) /\ i \in 1 .. Len(keys)
  BY DEF PleatInv, InputInv, CountKey
<1>2. NumWindows' = NumWindows /\ Windows' = Windows
  BY SameRanks DEF CountKey
<1>3. NumWindows \in Nat
  BY <1>1, WindowCount DEF InputInv
<1>4. InputInv'
  <2> DEFINE v == WindowOf(keys[i])
  <2>1. v + 1 \in 0 .. NumWindows /\ counts \in [0 .. NumWindows -> Nat]
    <3>1. v \in Windows
      BY <1>1, KeyInWindow
    <3> HIDE DEF v
    <3>2. v + 1 \in 0 .. NumWindows
      BY <1>3, <3>1 DEF Windows
    <3> QED BY <1>1, <3>2 DEF InputInv
  <2>2. counts' = [counts EXCEPT ![v + 1] = counts[v + 1] + 1]
    BY DEF CountKey
  <2> HIDE DEF v
  <2>3. counts' \in [0 .. NumWindows -> Nat]
    BY <2>1, <2>2
  <2> QED BY <1>1, <1>2, <1>3, <2>3 DEF InputInv, CountKey
<1>5. CountInv'
  <2> DEFINE v == WindowOf(keys[i])
  <2>1. v \in Windows
    BY <1>1, KeyInWindow
  <2>2. counts' = [counts EXCEPT ![v + 1] = @ + 1] /\ i' = i + 1
        /\ UNCHANGED <<keys, pc>>
    BY DEF CountKey
  <2>3. \A w \in Windows : Seen(i, w) = Seen(i - 1, w) + (IF v = w THEN 1 ELSE 0)
    BY <1>1, SeenNext
  <2>4. counts[0] = 0 /\ \A w \in Windows : counts[w + 1] = Seen(i - 1, w)
    BY <1>1 DEF PleatInv, CountInv, SeenSoFar
  <2>5. \A w \in Windows : Seen(i - 1, w) \in Nat
    BY <1>1, SeenType
  <2> HIDE DEF v
  <2>6. counts'[0] = 0
    BY <1>1, <1>3, <2>1, <2>2, <2>4 DEF InputInv, Windows
  <2>7. ASSUME NEW w \in Windows
        PROVE  counts'[w + 1] = Seen(i, w)
    <3>1. w + 1 \in DOMAIN counts /\ v + 1 \in DOMAIN counts /\ (w + 1 = v + 1 <=> v = w)
      BY <1>1, <1>3, <2>1 DEF InputInv, Windows
    <3> QED BY <2>2, <2>3, <2>4, <2>5, <3>1
  <2>8. \A w \in Windows' : counts'[w + 1] = SeenSoFar(w)'
    <3>1. i' - 1 = i
      BY <1>1, <2>2
    <3>2. \A w : SeenSoFar(w)' = Seen(i, w)
      BY <3>1, NextSoFar DEF CountKey
    <3> QED BY <1>2, <2>7, <3>2
  <2> QED BY <1>1, <2>2, <2>6, <2>8 DEF CountInv
<1>6. OffsetInv' /\ MoveInv'
  BY <1>1 DEF CountKey, OffsetInv, MoveInv
<1> QED BY <1>4, <1>5, <1>6 DEF PleatInv

LEMMA StartOffsetsPleatInv ==
  ASSUME PleatInv, StartOffsets
  PROVE  PleatInv'
<1>1. InputInv /\ pc = "count" /\ i = Len(keys) + 1 /\ Len(keys) \in Nat
  BY DEF PleatInv, InputInv, StartOffsets, CountInv
<1>2. /\ NumWindows' = NumWindows /\ Windows' = Windows
      /\ \A w, m : Rank(w, m)' = Rank(w, m)
      /\ \A w : SeenInAll(w)' = SeenInAll(w)
  BY SameRanks DEF StartOffsets
<1>3. NumWindows \in Nat
  BY <1>1, WindowCount DEF InputInv
<1>4. InputInv'
  BY <1>1, <1>2, <1>3 DEF InputInv, StartOffsets
<1>5. OffsetInv'
  <2>1. counts[0] = 0 /\ \A w \in Windows : counts[w + 1] = SeenInAll(w)
    <3>1. i - 1 = Len(keys)
      BY <1>1
    <3> QED BY <1>1, <3>1 DEF PleatInv, CountInv, SeenSoFar, SeenInAll
  <2>2. \A w \in 0 .. NumWindows : w < 1 => counts[w] = Rank(w, 0)
    BY <1>1, <1>3, <2>1, FirstRun
  <2>3. i' = 1 /\ counts' = counts /\ keys' = keys
    BY DEF StartOffsets
  <2>4. \A w \in 0 .. NumWindows' : w < i' => counts'[w] = Rank(w, 0)'
    BY <1>2, <2>2, <2>3
  <2>5. \A w \in Windows' : counts'[w + 1] = SeenInAll(w)'
    BY <1>2, <2>1, <2>3
  <2> QED BY <1>2, <1>3, <2>3, <2>4, <2>5 DEF OffsetInv
<1>6. CountInv' /\ MoveInv'
  BY DEF StartOffsets, CountInv, MoveInv
<1> QED BY <1>4, <1>5, <1>6 DEF PleatInv

LEMMA AddOffsetPleatInv ==
  ASSUME PleatInv, AddOffset
  PROVE  PleatInv'
<1>1. InputInv /\ pc = "offsets" /\ i \in 1 .. NumWindows /\ Len(keys) \in Nat
  BY DEF PleatInv, InputInv, AddOffset
<1>2. /\ NumWindows' = NumWindows /\ Windows' = Windows
      /\ \A w, m : Rank(w, m)' = Rank(w, m)
      /\ \A w : SeenInAll(w)' = SeenInAll(w)
  BY SameRanks DEF AddOffset
<1>3. NumWindows \in Nat
  BY <1>1, WindowCount DEF InputInv
<1>4. InputInv'
  <2>1. counts' \in [0 .. NumWindows -> Nat]
    <3>1. counts \in [0 .. NumWindows -> Nat] /\ i \in 0 .. NumWindows /\ i - 1 \in 0 .. NumWindows
      BY <1>1, <1>3 DEF InputInv
    <3>2. counts[i] + counts[i - 1] \in Nat
      BY <3>1
    <3> QED BY <3>1, <3>2 DEF AddOffset
  <2>2. i' \in 1 .. Len(keys) + NumWindows + 1
    BY <1>1, <1>3 DEF AddOffset
  <2> QED BY <1>1, <1>2, <2>1, <2>2 DEF InputInv, AddOffset
<1>5. OffsetInv'
  <2>1. /\ \A w \in 0 .. NumWindows : w < i => counts[w] = Rank(w, 0)
        /\ \A w \in Windows : i <= w + 1 => counts[w + 1] = SeenInAll(w)
    BY <1>1 DEF PleatInv, OffsetInv
  <2>2. i - 1 \in Windows
    BY <1>1, <1>3 DEF Windows
  <2>3. counts[i] = SeenInAll(i - 1) /\ counts[i - 1] = Rank(i - 1, 0)
    <3>1. i - 1 \in 0 .. NumWindows /\ i - 1 < i /\ i <= (i - 1) + 1 /\ (i - 1) + 1 = i
      BY <1>1, <1>3
    <3> QED BY <2>1, <2>2, <3>1
  <2>4. Rank(i, 0) = Rank(i - 1, 0) + SeenInAll(i - 1)
    <3>1. (i - 1) + 1 = i
      BY <1>1
    <3> QED BY <1>1, <2>2, <3>1, NextRun DEF SeenInAll
  <2>5. Rank(i - 1, 0) \in Nat /\ SeenInAll(i - 1) \in Nat
    BY <1>1, RankType, SeenType DEF InputInv, SeenInAll
  <2>6. counts' = [counts EXCEPT ![i] = counts[i] + counts[i - 1]] /\ i' = i + 1
        /\ UNCHANGED <<keys, pc>>
    BY DEF AddOffset
  <2>7. counts'[i] = Rank(i, 0) /\ \A w \in 0 .. NumWindows : w # i => counts'[w] = counts[w]
    BY <1>1, <2>3, <2>4, <2>5, <2>6 DEF InputInv
  <2>8. \A w \in 0 .. NumWindows' : w < i' => counts'[w] = Rank(w, 0)'
    BY <1>1, <1>2, <1>3, <2>1, <2>6, <2>7
  <2>9. ASSUME NEW w \in Windows', i' <= w + 1
        PROVE  counts'[w + 1] = SeenInAll(w)'
    <3>1. w \in Windows /\ w + 1 \in 0 .. NumWindows /\ w + 1 # i /\ i <= w + 1
      BY <1>1, <1>2, <1>3, <2>6, <2>9 DEF Windows
    <3>2. counts'[w + 1] = SeenInAll(w)
      BY <2>1, <2>7, <3>1
    <3> QED BY <1>2, <2>6, <3>2
  <2>10. i' <= NumWindows' + 1
    BY <1>1, <1>2, <1>3, <2>6
  <2> QED BY <2>8, <2>9, <2>10 DEF OffsetInv
<1>6. CountInv' /\ MoveInv'
  BY <1>1 DEF AddOffset, CountInv, MoveInv
<1> QED BY <1>4, <1>5, <1>6 DEF PleatInv

LEMMA StartMovesPleatInv ==
  ASSUME PleatInv, StartMoves
  PROVE  PleatInv'
<1>1. InputInv /\ pc = "offsets" /\ Len(keys) \in Nat
  BY DEF PleatInv, InputInv, StartMoves
<1>2. /\ NumWindows' = NumWindows /\ Windows' = Windows
      /\ \A w, m : Rank(w, m)' = Rank(w, m)
      /\ \A a : Place(a)' = Place(a)
  BY SameRanks DEF StartMoves
<1>3. NumWindows \in Nat
  BY <1>1, WindowCount DEF InputInv
<1>4. InputInv'
  BY <1>1, <1>2, <1>3 DEF InputInv, StartMoves
<1>5. MoveInv'
  <2>1. i = NumWindows + 1
    BY <1>1, <1>3 DEF PleatInv, OffsetInv, StartMoves, InputInv
  <2>2. \A w \in 0 .. NumWindows : counts[w] = Rank(w, 0)
    BY <1>1, <1>3, <2>1 DEF PleatInv, OffsetInv
  <2>3. /\ cursor' = [w \in Windows |-> counts[w]]
        /\ i' = 1 /\ pc' = "move"
        /\ UNCHANGED <<keys, counts>>
    BY DEF StartMoves
  <2>4. \A w \in 0 .. NumWindows' : counts'[w] = Rank(w, 0)'
    BY <1>2, <2>2, <2>3
  <2>5. \A w \in Windows : cursor'[w] = Rank(w, 0) /\ Rank(w, 0) \in Nat
    BY <1>1, <1>3, <2>2, <2>3, RankType DEF Windows, InputInv
  <2>6. \A w \in Windows' : cursor'[w] = RankSoFar(w)'
    <3>1. i' - 1 = 0
      BY <2>3
    <3>2. \A w : RankSoFar(w)' = Rank(w, 0)
      BY <3>1, NextSoFar DEF StartMoves
    <3> QED BY <1>2, <2>5, <3>2
  <2>7. cursor' \in [Windows' -> Nat]
    BY <1>2, <2>3, <2>5
  <2>8. i' <= Len(keys') + 1 /\ (pc' = "done" => i' = Len(keys') + 1)
        /\ \A a \in 1 .. Len(keys') : a < i' => out'[Place(a)'] = keys'[a]
    BY <1>1, <2>3
  <2> QED BY <2>4, <2>6, <2>7, <2>8 DEF MoveInv
<1>6. CountInv' /\ OffsetInv'
  BY DEF StartMoves, CountInv, OffsetInv
<1> QED BY <1>4, <1>5, <1>6 DEF PleatInv
LEMMA RankNext ==
  ASSUME InputInv, NEW w \in Windows, NEW m \in 1 .. Len(keys)
  PROVE  Rank(w, m) = Rank(w, m - 1) + (IF WindowOf(keys[m]) = w THEN 1 ELSE 0)
<1>1. Rank(w, m) = Rank(w, 0) + Seen(m, w)
      /\ Rank(w, m - 1) = Rank(w, 0) + Seen(m - 1, w)
  BY RankIsOffset DEF InputInv
<1>2. Seen(m, w) = Seen(m - 1, w) + (IF WindowOf(keys[m]) = w THEN 1 ELSE 0)
  <2>1. m \in Nat \ {0}
    OBVIOUS
  <2> QED BY <2>1, SeenNext
<1>3. Rank(w, 0) \in Nat /\ Seen(m - 1, w) \in Nat
  BY RankType, SeenType DEF InputInv
<1> QED BY <1>1, <1>2, <1>3

LEMMA PlacesDiffer ==
  ASSUME InputInv, NEW a \in 1 .. Len(keys), NEW b \in 1 .. Len(keys), a # b
  PROVE  Place(a) # Place(b)
<1>1. Place(a) \in Nat /\ Place(b) \in Nat
  BY PlaceInBuffer
<1>2. WindowOf(keys[a]) \in Nat /\ WindowOf(keys[b]) \in Nat
  BY KeyInWindow DEF Windows
<1>3. CASE WindowOf(keys[a]) < WindowOf(keys[b])
  BY <1>1, <1>3, PlacesInOrder
<1>4. CASE WindowOf(keys[b]) < WindowOf(keys[a])
  BY <1>1, <1>4, PlacesInOrder
<1>5. CASE WindowOf(keys[a]) = WindowOf(keys[b]) /\ a < b
  BY <1>1, <1>5, PlacesInOrder
<1>6. CASE WindowOf(keys[a]) = WindowOf(keys[b]) /\ b < a
  BY <1>1, <1>6, PlacesInOrder
<1> QED BY <1>2, <1>3, <1>4, <1>5, <1>6

LEMMA MoveKeyPleatInv ==
  ASSUME PleatInv, MoveKey
  PROVE  PleatInv'
<1>1. InputInv /\ pc = "move" /\ i \in 1 .. Len(keys) /\ Len(keys) \in Nat
  BY DEF PleatInv, InputInv, MoveKey
<1>2. /\ NumWindows' = NumWindows /\ Windows' = Windows
      /\ \A w, m : Rank(w, m)' = Rank(w, m)
      /\ \A a : Place(a)' = Place(a)
  BY SameRanks DEF MoveKey
<1>3. NumWindows \in Nat
  BY <1>1, WindowCount DEF InputInv
<1> DEFINE v == WindowOf(keys[i])
<1>4. /\ v \in Windows /\ cursor \in [Windows -> Nat] /\ cursor[v] = Rank(v, i - 1)
      /\ \A w \in Windows : cursor[w] = Rank(w, i - 1)
      /\ \A w \in 0 .. NumWindows : counts[w] = Rank(w, 0)
  BY <1>1, KeyInWindow DEF PleatInv, MoveInv, RankSoFar
<1>5. cursor[v] + 1 = Place(i) /\ Place(i) \in 1 .. Len(keys)
  BY <1>1, <1>4, PlaceIsNext, PlaceInBuffer
<1>6. /\ out' = [out EXCEPT ![Place(i)] = keys[i]]
      /\ cursor' = [cursor EXCEPT ![v] = cursor[v] + 1]
      /\ i' = i + 1
      /\ UNCHANGED <<keys, start, window, pc, counts>>
  BY <1>5 DEF MoveKey
<1>7. \A w \in Windows :
        Rank(w, i) = Rank(w, i - 1) + (IF v = w THEN 1 ELSE 0)
  BY <1>1, RankNext
<1> HIDE DEF v
<1>8. InputInv'
  <2>1. keys[i] \in Keys /\ out \in [1 .. Len(keys) -> Keys]
    BY <1>1 DEF InputInv
  <2>2. out' \in [1 .. Len(keys) -> Keys]
    BY <1>6, <2>1
  <2> QED BY <1>1, <1>2, <1>3, <1>6, <2>2 DEF InputInv
<1>9. MoveInv'
  <2>1. cursor' \in [Windows' -> Nat]
    BY <1>2, <1>4, <1>6
  <2>2. \A w \in Windows' : cursor'[w] = RankSoFar(w)'
    <3>1. i' - 1 = i
      BY <1>1, <1>6
    <3>2. \A w : RankSoFar(w)' = Rank(w, i)
      BY <1>6, <3>1, NextSoFar
    <3>3. \A w \in Windows : cursor'[w] = Rank(w, i)
      BY <1>4, <1>6, <1>7
    <3> QED BY <1>2, <3>2, <3>3
  <2>3. \A w \in 0 .. NumWindows' : counts'[w] = Rank(w, 0)'
    BY <1>2, <1>4, <1>6
  <2>4. ASSUME NEW a \in 1 .. Len(keys), a < i + 1
        PROVE  out'[Place(a)] = keys[a]
    <3>1. CASE a = i
      BY <1>1, <1>5, <1>6, <3>1 DEF InputInv
    <3>2. CASE a < i
      <4>1. out[Place(a)] = keys[a]
        BY <1>1, <3>2 DEF PleatInv, MoveInv
      <4>2. Place(a) # Place(i) /\ Place(a) \in 1 .. Len(keys)
        BY <1>1, <3>2, PlacesDiffer, PlaceInBuffer
      <4>3. out'[Place(a)] = out[Place(a)]
        BY <1>1, <1>5, <1>6, <4>2 DEF InputInv
      <4> QED BY <4>1, <4>3
    <3> QED BY <1>1, <2>4, <3>1, <3>2
  <2>5. \A a \in 1 .. Len(keys') : a < i' => out'[Place(a)'] = keys'[a]
    BY <1>2, <1>6, <2>4
  <2>6. i' <= Len(keys') + 1 /\ pc' # "done"
    BY <1>1, <1>6
  <2> QED BY <2>1, <2>2, <2>3, <2>5, <2>6 DEF MoveInv
<1>10. CountInv' /\ OffsetInv'
  BY <1>1, <1>6 DEF CountInv, OffsetInv
<1> QED BY <1>8, <1>9, <1>10 DEF PleatInv

(* Steps that change nothing the sort works on                             *)
LEMMA RestPleatInv ==
  ASSUME PleatInv, Return \/ UNCHANGED vars
  PROVE  PleatInv'
<1>1. InputInv /\ UNCHANGED <<keys, start, window, i, counts, cursor, out>>
  BY DEF PleatInv, Return, vars
<1>2. \/ pc = "move" /\ pc' = "done" /\ i > Len(keys)
      \/ pc' = pc
  BY DEF Return, vars
<1>3. /\ NumWindows' = NumWindows /\ Windows' = Windows
      /\ \A w, m : Rank(w, m)' = Rank(w, m)
      /\ \A w : SeenInAll(w)' = SeenInAll(w)
      /\ \A a : Place(a)' = Place(a)
  BY <1>1, SameRanks
<1>4. \A w : SeenSoFar(w)' = SeenSoFar(w) /\ RankSoFar(w)' = RankSoFar(w)
  BY <1>1, NextSoFar DEF SeenSoFar, RankSoFar
<1>5. InputInv'
  BY <1>1, <1>2, <1>3 DEF InputInv
<1>6. CountInv' /\ OffsetInv'
  BY <1>1, <1>2, <1>3, <1>4 DEF PleatInv, CountInv, OffsetInv
<1>7. MoveInv'
  <2>1. ASSUME pc' \in {"move", "done"}
        PROVE  /\ i <= Len(keys) + 1
               /\ \A w \in 0 .. NumWindows : counts[w] = Rank(w, 0)
               /\ cursor \in [Windows -> Nat]
               /\ \A w \in Windows : cursor[w] = RankSoFar(w)
               /\ \A a \in 1 .. Len(keys) : a < i => out[Place(a)] = keys[a]
    BY <1>2, <2>1 DEF PleatInv, MoveInv
  <2>2. ASSUME pc' = "done" PROVE i' = Len(keys') + 1
    <3>1. i \in Nat /\ Len(keys) \in Nat /\ i <= Len(keys) + 1
      BY <1>1, <2>1, <2>2, WindowCount DEF InputInv
    <3>2. pc = "done" => i = Len(keys) + 1
      BY DEF PleatInv, MoveInv
    <3> QED BY <1>1, <1>2, <2>2, <3>1, <3>2
  <2> QED BY <1>1, <1>3, <1>4, <2>1, <2>2 DEF MoveInv
<1> QED BY <1>5, <1>6, <1>7 DEF PleatInv

LEMMA PleatInvariant == Spec => []PleatInv
<1>1. PleatInv /\ [Next]_vars => PleatInv'
  BY CountKeyPleatInv, StartOffsetsPleatInv, AddOffsetPleatInv, StartMovesPleatInv,
     MoveKeyPleatInv, RestPleatInv DEF Next
<1> QED BY InitPleatInv, <1>1, PTL DEF Spec

-----------------------------------------------------------------------------
(* Types: the indices of `counts` that the two passes use stay inside it,  *)
(* and every key has a window with a cursor, for windows of any size.      *)
THEOREM PleatTypeCorrect == Spec => []PleatTypeOK
<1>1. PleatInv => PleatTypeOK
  <2> SUFFICES ASSUME PleatInv PROVE PleatTypeOK
    OBVIOUS
  <2>1. InputInv /\ Len(keys) \in Nat /\ NumWindows \in Nat
    BY WindowCount DEF PleatInv, InputInv
  <2>2. \A k \in Range(keys) : WindowOf(k) \in Windows
    <3>1. \A k \in Range(keys) : \E a \in 1 .. Len(keys) : k = keys[a]
      BY <2>1 DEF Range, InputInv
    <3> QED BY <2>1, <3>1, KeyInWindow
  <2>3. \A w, m : Rank(w, m) \in 0 .. Len(keys)
    BY <2>1, RankType DEF InputInv
  <2>4. \A w : SeenInAll(w) \in 0 .. Len(keys)
    BY <2>1, SeenType DEF SeenInAll
  <2>5. ASSUME NEW w \in 0 .. NumWindows
        PROVE  counts[w] \in 0 .. Len(keys)
    <3>1. w = 0 \/ (w - 1 \in Windows /\ (w - 1) + 1 = w)
      BY <2>1 DEF Windows
    <3>2. CASE pc = "count"
      <4>1. \A m \in 0 .. Len(keys) : \A v : Seen(m, v) \in 0 .. Len(keys)
        <5> TAKE m \in 0 .. Len(keys)
        <5> TAKE v
        <5>1. Seen(m, v) \in 0 .. m
          BY <2>1, SeenType
        <5> QED BY <2>1, <5>1
      <4>2. i - 1 \in 0 .. Len(keys) /\ counts[0] = 0
            /\ \A v \in Windows : counts[v + 1] = Seen(i - 1, v)
        BY <2>1, <3>2 DEF PleatInv, CountInv, InputInv, SeenSoFar
      <4> QED BY <2>1, <3>1, <4>1, <4>2
    <3>3. CASE pc = "offsets"
      <4>1. /\ w < i => counts[w] = Rank(w, 0)
            /\ \A v \in Windows : i <= v + 1 => counts[v + 1] = SeenInAll(v)
        BY <3>3 DEF PleatInv, OffsetInv
      <4>2. CASE w < i
        BY <2>3, <4>1, <4>2
      <4>3. CASE i <= w
        <5>1. w - 1 \in Windows /\ (w - 1) + 1 = w
          BY <2>1, <3>1, <4>3 DEF InputInv
        <5>2. counts[w] = SeenInAll(w - 1)
          BY <4>1, <4>3, <5>1
        <5> QED BY <2>4, <5>2
      <4> QED BY <2>1, <4>2, <4>3 DEF InputInv
    <3>4. CASE pc \in {"move", "done"}
      BY <2>3, <3>4 DEF PleatInv, MoveInv
    <3> QED BY <2>1, <3>2, <3>3, <3>4 DEF InputInv
  <2>6. counts \in [0 .. NumWindows -> 0 .. Len(keys)]
    <3>1. counts \in [0 .. NumWindows -> Nat]
      BY <2>1 DEF InputInv
    <3> QED BY <2>5, <3>1
  <2>7. pc \in {"move", "done"} => cursor \in [Windows -> 0 .. Len(keys)]
    BY <2>3 DEF PleatInv, MoveInv, RankSoFar
  <2> QED BY <2>1, <2>2, <2>6, <2>7 DEF PleatTypeOK, InputInv
<1> QED BY <1>1, PleatInvariant, PTL

(* While the keys are moved every window has its own run of the buffer,    *)
(* which its keys just fill: no cursor enters the next run.                *)
THEOREM CursorsKeepToRuns == Spec => []CursorsStayInRuns
<1>1. PleatInv => CursorsStayInRuns
  <2> SUFFICES ASSUME PleatInv, pc \in {"move", "done"}, NEW w \in Windows
               PROVE  /\ counts[w + 1] - counts[w] = Seen(Len(keys), w)
                      /\ cursor[w] = counts[w] + Seen(i - 1, w)
    BY DEF CursorsStayInRuns
  <2>1. InputInv /\ NumWindows \in Nat /\ i - 1 \in 0 .. Len(keys)
    BY WindowCount DEF PleatInv, InputInv, MoveInv
  <2>2. counts[w] = Rank(w, 0) /\ counts[w + 1] = Rank(w + 1, 0)
        /\ cursor[w] = Rank(w, i - 1)
    BY <2>1 DEF PleatInv, MoveInv, RankSoFar, Windows
  <2>3. Rank(w, 0) \in Nat /\ Seen(Len(keys), w) \in Nat
    BY <2>1, RankType, SeenType DEF InputInv
  <2> QED BY <2>1, <2>2, <2>3, NextRun, RankIsOffset
<1> QED BY <1>1, PleatInvariant, PTL

(* The buffer is left with the keys in the stable order by windows, and    *)
(* nothing of what was in it before, whatever keys in whatever order.      *)
THEOREM SortIsStable == Spec => []PleatsStably
<1>1. PleatInv => PleatsStably
  <2> SUFFICES ASSUME PleatInv, pc = "done"
               PROVE  out \in PleatedOrders(keys, [k \in Range(keys) |-> WindowOf(k)])
    BY DEF PleatsStably
  <2> DEFINE I == 1 .. Len(keys)
             f == [a \in I |-> Place(a)]
             p == Inverse(f, I, I)
             win == [k \in Range(keys) |-> WindowOf(k)]
  <2>1. InputInv /\ Len(keys) \in Nat /\ out \in [I -> Keys]
        /\ \A a \in I : out[Place(a)] = keys[a]
    BY DEF PleatInv, InputInv, MoveInv
  <2>2. f \in Injection(I, I)
    BY <2>1, PlacesDiffer, PlaceInBuffer DEF Injection, IsInjective
  <2>3. f \in Bijection(I, I)
    <3>1. IsFiniteSet(I)
      BY <2>1, FS_Interval
    <3>2. f \in Surjection(I, I)
      BY <2>2, <3>1, FS_Injection
    <3> QED BY <2>2, <3>2 DEF Bijection
  <2>4. \A a \in I : f[a] = Place(a)
    OBVIOUS
  <2> HIDE DEF f
  <2>5. p \in Bijection(I, I) /\ \A a \in I : p[f[a]] = a
    BY <2>3, Fun_BijInverse
  <2>6. p \in [I -> I] /\ \A m \in I : f[p[m]] = m
    <3>1. p \in [I -> I]
      BY <2>5 DEF Bijection, Injection
    <3>2. \A m \in I : \E a \in I : f[a] = m
      BY <2>3, Fun_BijectionProperties
    <3> HIDE DEF p, I
    <3> QED BY <2>5, <3>1, <3>2
  <2> HIDE DEF p
  <2>7. out = [m \in I |-> keys[p[m]]]
    <3>1. \A m \in I : out[m] = keys[p[m]]
      BY <2>1, <2>4, <2>6
    <3> HIDE DEF I
    <3> QED BY <2>1, <3>1
  <2>8. \A a \in I : keys[a] \in Range(keys) /\ win[keys[a]] = WindowOf(keys[a])
    BY <2>1 DEF Range, InputInv
  <2>9. ASSUME NEW a \in I, NEW b \in I, a < b
        PROVE  \/ win[keys[p[a]]] < win[keys[p[b]]]
               \/ win[keys[p[a]]] = win[keys[p[b]]] /\ p[a] < p[b]
    <3>1. p[a] \in I /\ p[b] \in I /\ Place(p[a]) = a /\ Place(p[b]) = b
      BY <2>4, <2>6
    <3>2. WindowOf(keys[p[a]]) \in Nat /\ WindowOf(keys[p[b]]) \in Nat
      BY <2>1, <3>1, KeyInWindow DEF Windows
    <3>3. p[a] # p[b]
      BY <2>9, <3>1
    <3>4. ~ (\/ WindowOf(keys[p[b]]) < WindowOf(keys[p[a]])
             \/ WindowOf(keys[p[b]]) = WindowOf(keys[p[a]]) /\ p[b] < p[a])
      BY <2>1, <2>9, <3>1, PlacesInOrder
    <3>5. \/ WindowOf(keys[p[a]]) < WindowOf(keys[p[b]])
          \/ WindowOf(keys[p[a]]) = WindowOf(keys[p[b]]) /\ p[a] < p[b]
      BY <3>1, <3>2, <3>3, <3>4
    <3>6. win[keys[p[a]]] = WindowOf(keys[p[a]]) /\ win[keys[p[b]]] = WindowOf(keys[p[b]])
      BY <2>8, <3>1
    <3> QED BY <3>5, <3>6
  <2> HIDE DEF win
  <2>10. out \in PleatedOrders(keys, win)
    BY <2>5, <2>7, <2>9 DEF PleatedOrders
  <2> QED BY <2>10 DEF win
<1> QED BY <1>1, PleatInvariant, PTL
=============================================================================
