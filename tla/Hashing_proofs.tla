-------------------------- MODULE Hashing_proofs ---------------------------
(***************************************************************************)
(* Facts that hold for ribbons of every width and tables of every size:    *)
(* about words and parities, about systems of linear equations and their   *)
(* solutions, and about the rows that the hashing layer gives to keys.     *)
(***************************************************************************)
EXTENDS Hashing, LinearSystem, FiniteSetTheorems, FunctionTheorems,
        WellFoundedInduction, TLAPS

-----------------------------------------------------------------------------
(* The least and the greatest element of a set                             *)

LEMMA LeastNatural ==
  ASSUME NEW T \in SUBSET Nat, T # {}
  PROVE  \E x \in T : \A y \in T : x <= y
<1> DEFINE R == OpToRel(<, Nat)
<1>1. IsWellFoundedOn(R, Nat)
  BY NatLessThanWellFounded
<1>2. PICK x \in T : \A y \in T : ~ (<<y, x>> \in R)
  <2> HIDE DEF R
  <2> QED BY <1>1, WFMin
<1>3. \A y \in T : ~ (y < x)
  <2> SUFFICES ASSUME NEW y \in T, y < x PROVE FALSE
    OBVIOUS
  <2>1. <<y, x>> \in Nat \X Nat
    OBVIOUS
  <2>2. <<y, x>> \in R
    BY <2>1, Zenon DEF OpToRel
  <2> QED BY <1>2, <2>2
<1>4. \A y \in T : x <= y
  <2> HIDE DEF R
  <2> QED BY <1>3
<1> QED BY <1>4

(* TrailingZeros of a word other than 0 is its lowest bit.                 *)
LEMMA MinIsLeast ==
  ASSUME NEW T \in SUBSET Nat, T # {}
  PROVE  /\ Min(T) \in T
         /\ \A y \in T : Min(T) <= y
BY LeastNatural, Zenon DEF Min

LEMMA MaxIsGreatest ==
  ASSUME NEW T \in SUBSET Nat, T # {}, NEW n \in Nat, \A y \in T : y <= n
  PROVE  /\ Max(T) \in T
         /\ \A y \in T : Max(T) >= y
<1> DEFINE U == {n - y : y \in T}
<1>1. U \in SUBSET Nat /\ U # {}
  <2>1. PICK t \in T : TRUE
    OBVIOUS
  <2>2. n - t \in U
    BY <2>1
  <2>3. \A y \in T : n - y \in Nat
    OBVIOUS
  <2> QED BY <2>2, <2>3
<1>2. PICK u \in U : \A v \in U : u <= v
  <2> HIDE DEF U
  <2> QED BY <1>1, LeastNatural
<1>3. PICK x \in T : u = n - x
  OBVIOUS
<1>4. \A y \in T : x >= y
  BY <1>2, <1>3
<1> QED BY <1>4, Zenon DEF Max

-----------------------------------------------------------------------------
(* Parities                                                                *)

LEMMA ParityType ==
  ASSUME NEW A, IsFiniteSet(A)
  PROVE  Parity(A) \in {0, 1}
BY FS_CardinalityType DEF Parity

(* The bits two words share cancel out of their sum.                       *)
LEMMA ParityOfSymDiff ==
  ASSUME NEW A, NEW B, IsFiniteSet(A), IsFiniteSet(B)
  PROVE  /\ IsFiniteSet(SymDiff(A, B))
         /\ Parity(SymDiff(A, B)) = (Parity(A) + Parity(B)) % 2
<1> DEFINE a == Cardinality(A)
           b == Cardinality(B)
           c == Cardinality(A \cap B)
<1>1. IsFiniteSet(A \ B) /\ Cardinality(A \ B) = a - c
  BY FS_Difference
<1>2. IsFiniteSet(B \ A) /\ Cardinality(B \ A) = b - c
  <2>1. B \cap A = A \cap B
    OBVIOUS
  <2>2. IsFiniteSet(B \ A) /\ Cardinality(B \ A) = b - Cardinality(B \cap A)
    BY FS_Difference
  <2> QED BY <2>1, <2>2
<1>3. (A \ B) \cap (B \ A) = {}
  OBVIOUS
<1>4. IsFiniteSet(A \cap B)
  BY FS_Intersection
<1>5. a \in Nat /\ b \in Nat /\ c \in Nat
  BY <1>4, FS_CardinalityType
<1>6. /\ IsFiniteSet(SymDiff(A, B))
      /\ Cardinality(SymDiff(A, B)) = (a - c) + (b - c) - Cardinality({})
  <2> DEFINE P == A \ B
             Q == B \ A
  <2>1. /\ IsFiniteSet(P \cup Q)
        /\ Cardinality(P \cup Q)
             = Cardinality(P) + Cardinality(Q) - Cardinality(P \cap Q)
    BY <1>1, <1>2, FS_Union, Zenon
  <2> QED BY <1>1, <1>2, <1>3, <2>1 DEF SymDiff
<1>7. Cardinality(SymDiff(A, B)) = (a - c) + (b - c)
  BY <1>5, <1>6, FS_EmptySet
<1> HIDE DEF a, b, c
<1>8. ((a - c) + (b - c)) % 2 = ((a % 2) + (b % 2)) % 2
  BY <1>5
<1> QED BY <1>6, <1>7, <1>8 DEF Parity, a, b

(* Adding a word that a column X cancels out changes no parity in X.       *)
LEMMA ParityOfSum ==
  ASSUME NEW A, NEW B, NEW X, IsFiniteSet(A), IsFiniteSet(B),
         Parity(B \cap X) = 0
  PROVE  Parity(SymDiff(A, B) \cap X) = Parity(A \cap X)
<1> DEFINE P == A \cap X
           Q == B \cap X
<1>1. SymDiff(A, B) \cap X = SymDiff(P, Q)
  BY DEF SymDiff
<1>2. IsFiniteSet(P) /\ IsFiniteSet(Q)
  BY FS_Intersection
<1>3. Parity(Q) = 0
  OBVIOUS
<1> HIDE DEF P, Q
<1>4. Parity(SymDiff(P, Q)) = (Parity(P) + Parity(Q)) % 2
  BY <1>2, ParityOfSymDiff
<1>5. Parity(SymDiff(P, Q)) = Parity(P)
  BY <1>2, <1>3, <1>4, ParityType
<1> QED BY <1>1, <1>5 DEF P

(* Two sets that a one-to-one map takes onto each other have the same      *)
(* parity.                                                                 *)
LEMMA SameParity ==
  ASSUME NEW S, NEW T, NEW f \in [S -> T], IsFiniteSet(S),
         \A a, b \in S : f[a] = f[b] => a = b,
         \A t \in T : \E s \in S : f[s] = t
  PROVE  IsFiniteSet(T) /\ Parity(T) = Parity(S)
<1>1. f \in Bijection(S, T)
  BY Fun_IsBij
<1>2. ExistsBijection(S, T)
  BY <1>1, Fun_ExistsBij, Zenon
<1>3. IsFiniteSet(T) /\ Cardinality(T) = Cardinality(S)
  BY <1>2, FS_Bijection
<1> QED BY <1>3 DEF Parity

(* One more bit turns the parity over.                                     *)
LEMMA ParityOfAdded ==
  ASSUME NEW A, NEW x, IsFiniteSet(A), x \notin A
  PROVE  IsFiniteSet(A \cup {x}) /\ Parity(A \cup {x}) = 1 - Parity(A)
<1> DEFINE c == Cardinality(A)
<1>1. c \in Nat /\ IsFiniteSet(A \cup {x}) /\ Cardinality(A \cup {x}) = c + 1
  BY FS_CardinalityType, FS_AddElement
<1> HIDE DEF c
<1>2. (c + 1) % 2 = 1 - (c % 2)
  BY <1>1
<1> QED BY <1>1, <1>2 DEF Parity, c

LEMMA ParityOfNone == Parity({}) = 0
BY FS_EmptySet DEF Parity

LEMMA ParityOfOne ==
  ASSUME NEW x
  PROVE  Parity({x}) = 1
BY FS_Singleton DEF Parity

-----------------------------------------------------------------------------
(* Rows: the slots a word selects when it starts at slot s                 *)

(* Adding two words adds their rows.                                       *)
LEMMA RowOfSum ==
  ASSUME NEW x \in SUBSET Nat, NEW y \in SUBSET Nat, NEW s \in Nat
  PROVE  {s + b : b \in SymDiff(x, y)}
           = SymDiff({s + b : b \in x}, {s + b : b \in y})
<1> DEFINE X == {s + b : b \in x}
           Y == {s + b : b \in y}
           Z == {s + b : b \in SymDiff(x, y)}
<1>1. ASSUME NEW z \in Z PROVE z \in SymDiff(X, Y)
  <2>1. PICK b \in SymDiff(x, y) : z = s + b
    OBVIOUS
  <2>2. CASE b \in x /\ b \notin y
    BY <2>1, <2>2 DEF SymDiff
  <2>3. CASE b \in y /\ b \notin x
    BY <2>1, <2>3 DEF SymDiff
  <2> QED BY <2>1, <2>2, <2>3 DEF SymDiff
<1>2. ASSUME NEW z \in SymDiff(X, Y) PROVE z \in Z
  <2>1. CASE z \in X /\ z \notin Y
    BY <2>1 DEF SymDiff
  <2>2. CASE z \in Y /\ z \notin X
    BY <2>2 DEF SymDiff
  <2> QED BY <2>1, <2>2 DEF SymDiff
<1> QED BY <1>1, <1>2

(* A row does not change when its word is shifted to its lowest bit and    *)
(* its start slot moves up as far: no bit falls off.                       *)
LEMMA RowOfShift ==
  ASSUME NEW c \in SUBSET Nat, NEW s \in Nat, NEW n \in Nat,
         \A b \in c : n <= b
  PROVE  {s + n + b : b \in ShiftRight(c, n)} = {s + b : b \in c}
<1>1. ASSUME NEW b \in c PROVE s + b \in {s + n + d : d \in ShiftRight(c, n)}
  <2>1. b - n \in ShiftRight(c, n)
    BY DEF ShiftRight
  <2>2. s + b = s + n + (b - n)
    OBVIOUS
  <2> QED BY <2>1, <2>2
<1>2. ASSUME NEW d \in ShiftRight(c, n) PROVE s + n + d \in {s + b : b \in c}
  <2>1. PICK b \in c : d = b - n
    BY DEF ShiftRight
  <2> QED BY <2>1
<1> QED BY <1>1, <1>2

(* A word shifted down to its lowest bit is a word with bit 0 set.         *)
LEMMA ShiftToLowBit ==
  ASSUME NEW w \in Nat, NEW c \in SUBSET (0 .. w - 1), c # {}
  PROVE  /\ TrailingZeros(c) \in c
         /\ \A b \in c : TrailingZeros(c) <= b
         /\ ShiftRight(c, TrailingZeros(c)) \in SUBSET (0 .. w - 1)
         /\ 0 \in ShiftRight(c, TrailingZeros(c))
<1> DEFINE tz == TrailingZeros(c)
<1>1. tz \in c /\ \A b \in c : tz <= b
  BY MinIsLeast DEF TrailingZeros
<1> HIDE DEF tz
<1>2. 0 \in ShiftRight(c, tz)
  BY <1>1 DEF ShiftRight
<1>3. ShiftRight(c, tz) \in SUBSET (0 .. w - 1)
  BY <1>1 DEF ShiftRight
<1> QED BY <1>1, <1>2, <1>3, Zenon DEF tz

(* Words and rows are finite.                                              *)
LEMMA WordIsFinite ==
  ASSUME NEW w \in Nat, NEW c \in SUBSET (0 .. w - 1)
  PROVE  IsFiniteSet(c)
<1>1. IsFiniteSet(0 .. w - 1)
  BY FS_Interval
<1> QED BY <1>1, FS_Subset

LEMMA RowIsFinite ==
  ASSUME NEW c, IsFiniteSet(c), c \in SUBSET Nat, NEW s \in Nat
  PROVE  IsFiniteSet({s + b : b \in c})
<1> DEFINE T == {s + b : b \in c}
           f == [b \in c |-> s + b]
<1>1. f \in [c -> T]
  OBVIOUS
<1>2. \A a, b \in c : f[a] = f[b] => a = b
  OBVIOUS
<1>3. \A t \in T : \E b \in c : f[b] = t
  OBVIOUS
<1> HIDE DEF T, f
<1>4. IsFiniteSet(T)
  BY <1>1, <1>2, <1>3, SameParity
<1> QED BY <1>4 DEF T

(* The slots of a row that are in X, and the bits of its word that select  *)
(* them                                                                    *)
Selected(s, c, X) == {s + b : b \in c} \cap X

Selecting(s, c, X) == {b \in c : s + b \in X}

(* There are as many such bits as the row has slots in X.                  *)
LEMMA ParityOfRow ==
  ASSUME NEW c, IsFiniteSet(c), c \in SUBSET Nat, NEW s \in Nat, NEW X
  PROVE  /\ IsFiniteSet(Selecting(s, c, X))
         /\ Parity(Selected(s, c, X)) = Parity(Selecting(s, c, X))
<1> DEFINE S == {b \in c : s + b \in X}
           T == {s + b : b \in c} \cap X
           f == [b \in S |-> s + b]
<1>1. IsFiniteSet(S)
  BY FS_Subset
<1>2. f \in [S -> T]
  OBVIOUS
<1>3. \A a, b \in S : f[a] = f[b] => a = b
  OBVIOUS
<1>4. \A t \in T : \E b \in S : f[b] = t
  OBVIOUS
<1> HIDE DEF S, T, f
<1>5. Parity(T) = Parity(S)
  BY <1>1, <1>2, <1>3, <1>4, SameParity
<1> QED BY <1>1, <1>5, Zenon DEF S, T, Selected, Selecting

-----------------------------------------------------------------------------
(* Queries                                                                 *)

(* What Solution::contains ands with a row c: the words lo and hi of the   *)
(* block in which it starts and of the next one, against c cut in two.     *)
Queried(lo, hi, c, bit, w) ==
  (lo \cap ShiftLeft(c, bit, w)) \cup (hi \cap ShiftRight(c, (w - bit) % w))

(* A word cut by the boundary of a block: the bits that stay in the block  *)
(* and those that go to the next one select, in the words lo and hi of the *)
(* two blocks, what the whole word selects in the table.                   *)
LEMMA ParityOfQuery ==
  ASSUME NEW w \in Nat \ {0}, NEW c \in SUBSET (0 .. w - 1),
         NEW base \in Nat, NEW bit \in 0 .. w - 1, NEW s \in Nat, s = base + bit,
         NEW X,
         NEW lo \in SUBSET (0 .. w - 1), NEW hi \in SUBSET (0 .. w - 1),
         \A b \in 0 .. w - 1 : b \in lo <=> base + b \in X,
         bit # 0 => \A b \in 0 .. w - 1 : b \in hi <=> base + w + b \in X,
         bit = 0 => hi = lo
  PROVE  Parity(Queried(lo, hi, c, bit, w)) = Parity(Selected(s, c, X))
<1> DEFINE S == {b \in c : s + b \in X}
           T == (lo \cap ShiftLeft(c, bit, w))
                  \cup (hi \cap ShiftRight(c, (w - bit) % w))
<1>1. Parity(Selected(s, c, X)) = Parity(S) /\ IsFiniteSet(S)
  <2>1. S = Selecting(s, c, X)
    BY Zenon DEF Selecting
  <2>2. IsFiniteSet(c) /\ c \in SUBSET Nat
    <3>1. w \in Nat /\ c \in SUBSET Nat
      OBVIOUS
    <3> QED BY <3>1, WordIsFinite, Zenon
  <2>3. /\ IsFiniteSet(Selecting(s, c, X))
        /\ Parity(Selected(s, c, X)) = Parity(Selecting(s, c, X))
    <3> HIDE DEF S, T
    <3> QED BY <2>2, ParityOfRow
  <2> QED BY <2>1, <2>3, Zenon
<1>2. CASE bit = 0
  <2>1. (w - bit) % w = 0
    BY <1>2
  <2>2. ShiftLeft(c, 0, w) = c /\ ShiftRight(c, 0) = c
    <3>1. \A b \in c : b + 0 = b /\ b - 0 = b /\ b + 0 < w /\ b >= 0
      OBVIOUS
    <3>2. {d \in c : d + 0 < w} = c /\ {d \in c : d >= 0} = c
      BY <3>1
    <3>3. {b + 0 : b \in c} = c /\ {b - 0 : b \in c} = c
      BY <3>1
    <3> QED BY <3>2, <3>3, Zenon DEF ShiftLeft, ShiftRight
  <2>3. T = lo \cap c
    BY <1>2, <2>1, <2>2
  <2>4. S = lo \cap c
    <3>1. \A b \in c : b \in 0 .. w - 1 /\ s + b = base + b
      BY <1>2
    <3> QED BY <3>1
  <2> QED BY <1>1, <2>3, <2>4 DEF Queried
<1>3. CASE bit # 0
  <2>1. (w - bit) % w = w - bit
    BY <1>3
  <2> DEFINE f == [b \in S |-> IF b + bit < w THEN b + bit ELSE b + bit - w]
  <2>2. ASSUME NEW b \in S
        PROVE  f[b] \in T
    <3>1. b \in 0 .. w - 1 /\ b \in c /\ base + bit + b \in X
      OBVIOUS
    <3>2. CASE b + bit < w
      <4>1. b + bit \in ShiftLeft(c, bit, w)
        BY <3>1, <3>2 DEF ShiftLeft
      <4>2. b + bit \in lo
        <5>1. b + bit \in 0 .. w - 1 /\ base + (b + bit) = base + bit + b
          BY <3>1, <3>2
        <5> QED BY <3>1, <5>1
      <4> QED BY <3>2, <4>1, <4>2
    <3>3. CASE ~ (b + bit < w)
      <4>1. b + bit - w \in ShiftRight(c, w - bit)
        BY <3>1, <3>3 DEF ShiftRight
      <4>2. b + bit - w \in hi
        <5>1. /\ b + bit - w \in 0 .. w - 1
              /\ base + w + (b + bit - w) = base + bit + b
          BY <3>1, <3>3
        <5> QED BY <1>3, <3>1, <5>1
      <4> QED BY <2>1, <3>3, <4>1, <4>2
    <3> QED BY <3>2, <3>3
  <2>3. \A a, b \in S : f[a] = f[b] => a = b
    OBVIOUS
  <2>4. ASSUME NEW t \in T
        PROVE  \E b \in S : f[b] = t
    <3>1. CASE t \in lo \cap ShiftLeft(c, bit, w)
      <4>1. PICK b \in c : t = b + bit /\ b + bit < w
        BY <3>1 DEF ShiftLeft
      <4>2. base + (b + bit) = s + b /\ b + bit \in 0 .. w - 1
        BY <4>1
      <4>3. base + t \in X
        BY <3>1, <4>1, <4>2
      <4>4. b \in S
        BY <4>1, <4>2, <4>3
      <4> QED BY <4>1, <4>4
    <3>2. CASE t \in hi \cap ShiftRight(c, w - bit)
      <4>1. PICK b \in c : t = b - (w - bit) /\ b >= w - bit
        BY <3>2 DEF ShiftRight
      <4>2. base + w + t = s + b /\ t \in 0 .. w - 1
        BY <4>1
      <4>3. base + w + t \in X
        BY <1>3, <3>2, <4>2
      <4>4. b \in S /\ ~ (b + bit < w) /\ t = b + bit - w
        BY <4>1, <4>2, <4>3
      <4> QED BY <4>4
    <3> QED BY <2>1, <3>1, <3>2
  <2>5. f \in [S -> T]
    BY <2>2
  <2> HIDE DEF f, S, T
  <2>6. Parity(T) = Parity(S)
    BY <1>1, <2>3, <2>4, <2>5, SameParity
  <2> QED BY <1>1, <2>6 DEF T, Queried
<1> QED BY <1>2, <1>3

-----------------------------------------------------------------------------
(* Blocks of slots                                                         *)

LEMMA ProductGrows ==
  ASSUME NEW a \in Nat, NEW b \in Nat, NEW c \in Nat, a <= b
  PROVE  a * c \in Nat /\ b * c \in Nat /\ a * c <= b * c
<1> DEFINE d == b - a
<1>1. d \in Nat /\ b = a + d
  OBVIOUS
<1> HIDE DEF d
<1>2. b * c = a * c + d * c /\ d * c \in Nat /\ a * c \in Nat
  BY <1>1
<1> QED BY <1>2

LEMMA Division ==
  ASSUME NEW s \in Nat, NEW w \in Nat \ {0}
  PROVE  /\ s \div w \in Nat
         /\ s % w \in 0 .. w - 1
         /\ (s \div w) * w \in Nat
         /\ s = (s \div w) * w + (s % w)
<1> DEFINE q == s \div w
<1>1. q \in Nat /\ s % w \in 0 .. w - 1 /\ s = w * q + (s % w)
  OBVIOUS
<1>2. w * q = q * w /\ q * w \in Nat
  <2> HIDE DEF q
  <2> QED BY <1>1
<1> QED BY <1>1, <1>2

LEMMA DivisionIsUnique ==
  ASSUME NEW w \in Nat \ {0}, NEW g \in Nat, NEW b \in 0 .. w - 1
  PROVE  /\ g * w + b \in Nat
         /\ (g * w + b) \div w = g
         /\ (g * w + b) % w = b
<1> DEFINE s == g * w + b
           q == s \div w
<1>1. s \in Nat /\ g * w \in Nat
  OBVIOUS
<1>2. q \in Nat /\ s % w \in 0 .. w - 1 /\ q * w \in Nat /\ s = q * w + (s % w)
  <2> HIDE DEF s
  <2> QED BY <1>1, Division
<1> HIDE DEF q
<1>3. ~ (q < g)
  <2> SUFFICES ASSUME q + 1 <= g PROVE FALSE
    BY <1>2
  <2>1. (q + 1) * w <= g * w /\ (q + 1) * w = q * w + w
    BY <1>2, ProductGrows
  <2> QED BY <1>1, <1>2, <2>1
<1>4. ~ (g < q)
  <2> SUFFICES ASSUME g + 1 <= q PROVE FALSE
    BY <1>2
  <2>1. (g + 1) * w <= q * w /\ (g + 1) * w = g * w + w
    BY <1>2, ProductGrows
  <2> QED BY <1>1, <1>2, <2>1
<1>5. q = g
  BY <1>2, <1>3, <1>4
<1> QED BY <1>1, <1>2, <1>5 DEF q

-----------------------------------------------------------------------------
(* Linear systems                                                          *)

(* The parities of two columns add up to that of their difference.         *)
LEMMA ParityOfDifference ==
  ASSUME NEW on, NEW X, NEW Y, IsFiniteSet(on)
  PROVE  Parity(on \cap SymDiff(X, Y)) = (Parity(on \cap X) + Parity(on \cap Y)) % 2
<1>1. on \cap SymDiff(X, Y) = SymDiff(on \cap X, on \cap Y)
  BY DEF SymDiff
<1>2. IsFiniteSet(on \cap X) /\ IsFiniteSet(on \cap Y)
  BY FS_Intersection
<1> QED BY <1>1, <1>2, ParityOfSymDiff

LEMMA BitType ==
  ASSUME NEW j, NEW rr
  PROVE  Bit(j, rr) \in {0, 1}
BY DEF Bit

(* The difference of two solutions is in the kernel, and what the kernel   *)
(* adds to a solution is a solution.                                       *)
LEMMA KernelIsDifferences ==
  ASSUME NEW S, NEW j, NEW E, \A e \in E : IsFiniteSet(e.on),
         NEW X \in SUBSET S, Solves(X, j, E)
  PROVE  \A Y \in SUBSET S : Solves(Y, j, E) <=> SymDiff(X, Y) \in Kernel(S, E)
<1> SUFFICES ASSUME NEW Y \in SUBSET S
             PROVE  Solves(Y, j, E) <=> SymDiff(X, Y) \in Kernel(S, E)
  OBVIOUS
<1>1. ASSUME NEW e \in E
      PROVE  Satisfies(Y, j, e) <=> Parity(e.on \cap SymDiff(X, Y)) = 0
  <2> DEFINE p == Parity(e.on \cap X)
             q == Parity(e.on \cap Y)
             rhs == Bit(j, e.rhs)
  <2>1. p \in {0, 1} /\ q \in {0, 1} /\ rhs \in {0, 1}
    BY FS_Intersection, ParityType, BitType
  <2>2. p = rhs
    BY DEF Solves, Satisfies
  <2>3. Parity(e.on \cap SymDiff(X, Y)) = (p + q) % 2
    BY ParityOfDifference
  <2>4. Satisfies(Y, j, e) <=> q = rhs
    BY DEF Satisfies
  <2> HIDE DEF p, q, rhs
  <2>5. (p + q) % 2 = 0 <=> p = q
    BY <2>1
  <2> QED BY <2>2, <2>3, <2>4, <2>5
<1>2. SymDiff(X, Y) \in SUBSET S
  BY DEF SymDiff
<1> QED BY <1>1, <1>2 DEF Solves, Kernel

(* Systems with the same solutions, of which there are some, have the same *)
(* kernel and so the same canonical columns.                               *)
LEMMA CanonicalOfEquivalent ==
  ASSUME NEW S, NEW j, NEW E, NEW F, NEW fill,
         \A e \in E \cup F : IsFiniteSet(e.on),
         \A X \in SUBSET S : Solves(X, j, E) <=> Solves(X, j, F),
         \E X \in SUBSET S : Solves(X, j, E)
  PROVE  CanonicalColumns(S, j, E, fill) = CanonicalColumns(S, j, F, fill)
<1>1. PICK X \in SUBSET S : Solves(X, j, E) /\ Solves(X, j, F)
  OBVIOUS
<1>2. ASSUME NEW D \in SUBSET S
      PROVE  D \in Kernel(S, E) <=> D \in Kernel(S, F)
  <2>1. SymDiff(X, D) \in SUBSET S /\ SymDiff(X, SymDiff(X, D)) = D
    BY DEF SymDiff
  <2>2. Solves(SymDiff(X, D), j, E) <=> D \in Kernel(S, E)
    BY <1>1, <2>1, KernelIsDifferences
  <2>3. Solves(SymDiff(X, D), j, F) <=> D \in Kernel(S, F)
    BY <1>1, <2>1, KernelIsDifferences
  <2> QED BY <2>1, <2>2, <2>3
<1>3. Kernel(S, E) = Kernel(S, F)
  BY <1>2 DEF Kernel
<1>4. FreeSlots(S, E) = FreeSlots(S, F)
  BY <1>3, Zenon DEF FreeSlots
<1> QED BY <1>4 DEF CanonicalColumns

(* Equations on finitely many unknowns each; the slots of Pivots each lead *)
(* an equation, of which they are the lowest; and outside Pivots, X holds  *)
(* the bits of fill.                                                       *)
Finitary(E) == \A e \in E : IsFiniteSet(e.on)

Lead(Pivots, E) ==
  \A s \in Pivots : \E e \in E : s \in e.on /\ \A t \in e.on : t \in Int /\ s <= t

FilledFrom(X, j, fill, open) == \A s \in open : s \in X <=> j \in fill[s]

(* A matrix in echelon form has exactly one solution that agrees with fill *)
(* on the slots it leaves open.                                            *)
LEMMA EchelonIsCanonical ==
  ASSUME NEW N \in Nat, NEW j, NEW E, NEW fill, NEW Pivots,
         Finitary(E), Lead(Pivots, E),
         NEW X \in SUBSET (0 .. N - 1), Solves(X, j, E),
         FilledFrom(X, j, fill, (0 .. N - 1) \ Pivots)
  PROVE  CanonicalColumns(0 .. N - 1, j, E, fill) = {X}
<1> USE DEF Finitary, Lead, FilledFrom
<1> DEFINE S == 0 .. N - 1
<1>1. ASSUME NEW D \in Kernel(S, E), D # {}
      PROVE  Max(D) \in D /\ Max(D) \in S \ Pivots
  <2>1. D \in SUBSET Nat /\ \A y \in D : y <= N
    BY DEF Kernel
  <2>2. Max(D) \in D /\ \A y \in D : Max(D) >= y
    BY <1>1, <2>1, MaxIsGreatest
  <2>3. Max(D) \in S
    BY <2>2 DEF Kernel
  <2>4. ASSUME Max(D) \in Pivots PROVE FALSE
    <3>1. PICK e \in E : Max(D) \in e.on /\ \A t \in e.on : t \in Int /\ Max(D) <= t
      BY <2>4
    <3>2. \A t \in e.on \cap D : t = Max(D)
      BY <2>1, <2>2, <3>1
    <3>3. e.on \cap D = {Max(D)}
      BY <2>2, <3>1, <3>2
    <3>4. Parity(e.on \cap D) = 0
      BY DEF Kernel
    <3>5. Parity({Max(D)}) = 1
      BY ParityOfOne
    <3>6. Parity(e.on \cap D) = 1
      BY <3>3, <3>5, Zenon
    <3> QED BY <3>4, <3>6
  <2> QED BY <2>2, <2>3, <2>4
<1>2. \A s \in FreeSlots(S, E) : s \in S \ Pivots
  BY <1>1 DEF FreeSlots
<1>3. X \in CanonicalColumns(S, j, E, fill)
  BY <1>2 DEF CanonicalColumns
<1>4. ASSUME NEW Y \in CanonicalColumns(S, j, E, fill)
      PROVE  Y = X
  <2> DEFINE D == SymDiff(X, Y)
  <2>1. /\ Y \in SUBSET S
        /\ Solves(Y, j, E)
        /\ \A s \in FreeSlots(S, E) : s \in Y <=> j \in fill[s]
    BY DEF CanonicalColumns
  <2>2. D \in Kernel(S, E)
    BY <2>1, KernelIsDifferences
  <2>3. D = {}
    <3> SUFFICES ASSUME D # {} PROVE FALSE
      OBVIOUS
    <3>1. Max(D) \in D /\ Max(D) \in S \ Pivots
      <4> HIDE DEF D, S
      <4> QED BY <1>1, <2>2
    <3>2. Max(D) \in FreeSlots(S, E)
      <4> HIDE DEF D, S
      <4> QED BY <2>2 DEF FreeSlots
    <3>3. Max(D) \in X <=> Max(D) \in Y
      <4> HIDE DEF D
      <4> QED BY <2>1, <3>1, <3>2
    <3>4. ~ (Max(D) \in X <=> Max(D) \in Y)
      <4> DEFINE m == Max(D)
      <4>1. m \in SymDiff(X, Y)
        BY <3>1
      <4> HIDE DEF m
      <4>2. ~ (m \in X <=> m \in Y)
        BY <4>1 DEF SymDiff
      <4> QED BY <4>2 DEF m
    <3> QED BY <3>3, <3>4
  <2> QED BY <2>3 DEF SymDiff
<1> QED BY <1>3, <1>4

-----------------------------------------------------------------------------
(* Hashing                                                                 *)

LEMMA TableSize ==
  /\ W \in Nat \ {0}
  /\ NumSlots \in Nat
  /\ NumSlots >= 2 * W
  /\ NumStarts \in Nat \ {0}
  /\ NumStarts + W - 1 = NumSlots
<1>1. NumBlocks * W \in Nat /\ NumBlocks * W >= 2 * W
  <2> DEFINE m == NumBlocks - 2
  <2>1. m \in Nat /\ W \in Nat /\ NumBlocks = m + 2
    BY WAssumption, NumBlocksAssumption
  <2> HIDE DEF m
  <2>2. m * W \in Nat
    BY <2>1
  <2>3. NumBlocks * W = m * W + 2 * W
    BY <2>1
  <2> QED BY <2>1, <2>2, <2>3
<1> QED BY <1>1, WAssumption DEF NumSlots, NumStarts

(* A block holds W slots of the table, from g * W on.                      *)
LEMMA BlockInTable ==
  ASSUME NEW g \in 0 .. NumBlocks - 1
  PROVE  /\ g * W \in Nat
         /\ g * W + W <= NumSlots
<1>1. W \in Nat \ {0} /\ NumBlocks \in Nat /\ g \in Nat /\ g + 1 <= NumBlocks
  BY TableSize, NumBlocksAssumption
<1>2. (g + 1) * W <= NumBlocks * W
  BY <1>1, ProductGrows
<1>3. (g + 1) * W = g * W + W /\ g * W \in Nat
  BY <1>1
<1> QED BY <1>2, <1>3 DEF NumSlots

LEMMA BlockOfSlot ==
  ASSUME NEW s \in Slots
  PROVE  s \div W \in 0 .. NumBlocks - 1
<1>1. s \in Nat /\ s < NumSlots /\ W \in Nat \ {0} /\ NumBlocks \in Nat
  BY TableSize, NumBlocksAssumption DEF Slots
<1> DEFINE q == s \div W
<1>2. q \in Nat /\ q * W \in Nat /\ q * W <= s
  <2> DEFINE r == s % W
  <2>1. q \in Nat /\ r \in 0 .. W - 1 /\ q * W \in Nat /\ s = q * W + r
    BY <1>1, Division, Zenon
  <2> HIDE DEF q, r
  <2> QED BY <1>1, <2>1
<1> HIDE DEF q
<1>3. ~ (NumBlocks <= q)
  <2> SUFFICES ASSUME NumBlocks <= q PROVE FALSE
    OBVIOUS
  <2>1. NumBlocks * W <= q * W
    BY <1>1, <1>2, ProductGrows
  <2> QED BY <1>1, <1>2, <2>1 DEF NumSlots
<1> QED BY <1>1, <1>2, <1>3 DEF q

LEMMA StartOfMagnitude ==
  ASSUME NEW h, h.hi \in 0 .. HashRange - 1
  PROVE  Start(h) \in 0 .. NumStarts - 1
<1> DEFINE a == h.hi * NumStarts
           q == a \div HashRange
<1>1. h.hi \in 0 .. HashRange - 1
  OBVIOUS
<1>2. HashRange \in Nat \ {0} /\ NumStarts \in Nat \ {0}
  BY HashRangeAssumption, TableSize
<1>3. a \in Nat /\ a <= (HashRange - 1) * NumStarts
  BY <1>1, <1>2
<1>4. a < HashRange * NumStarts
  BY <1>1, <1>2, <1>3
<1>5. q \in Nat /\ q * HashRange <= a
  <2> HIDE DEF a
  <2> QED BY <1>2, <1>3
<1>6. q < NumStarts
  <2> HIDE DEF a, q
  <2>1. SUFFICES ASSUME q >= NumStarts PROVE FALSE
    BY <1>2, <1>5
  <2>2. q * HashRange >= NumStarts * HashRange
    BY <1>2, <1>5, <2>1
  <2> QED BY <1>2, <1>3, <1>4, <1>5, <2>2
<1> QED BY <1>2, <1>5, <1>6 DEF Start

(* fastrange never reaches its bound: a 64-bit magnitude times num_starts, *)
(* shifted down by 64, is less than num_starts.                            *)
THEOREM StartInRange == \A h \in Hashes : Start(h) \in 0 .. NumStarts - 1
<1> SUFFICES ASSUME NEW h \in Hashes PROVE Start(h) \in 0 .. NumStarts - 1
  OBVIOUS
<1>1. h.hi \in 0 .. HashRange - 1
  BY DEF Hashes
<1> QED BY <1>1, StartOfMagnitude

(* The blocks of a query: a row that starts inside its block has a next.   *)
LEMMA BlocksOfQuery ==
  ASSUME NEW h, h.hi \in 0 .. HashRange - 1
  PROVE  /\ Start(h) \in Nat
         /\ Start(h) \div W \in 0 .. NumBlocks - 1
         /\ Start(h) % W \in 0 .. W - 1
         /\ Start(h) = (Start(h) \div W) * W + (Start(h) % W)
         /\ Start(h) % W # 0 => (Start(h) \div W) + 1 <= NumBlocks - 1
         /\ Start(h) # NumStarts - 1 => (Start(h) \div W) + 1 <= NumBlocks - 1
<1> DEFINE s == Start(h)
           g == s \div W
           b == s % W
<1>1. s \in 0 .. NumStarts - 1
  BY StartOfMagnitude
<1>2. W \in Nat \ {0} /\ NumSlots \in Nat /\ NumStarts \in Nat \ {0}
      /\ NumStarts + W - 1 = NumSlots /\ NumBlocks \in Nat /\ NumBlocks >= 2
  BY TableSize, NumBlocksAssumption
<1> HIDE DEF s
<1>3. g \in Nat /\ b \in 0 .. W - 1 /\ g * W \in Nat /\ s = g * W + b
  <2>1. s \in Nat
    BY <1>1, <1>2
  <2> QED BY <1>2, <2>1, Division, Zenon
<1>4. g \in 0 .. NumBlocks - 1
  <2>1. s \in Slots
    BY <1>1, <1>2 DEF Slots
  <2> QED BY <2>1, BlockOfSlot
<1> HIDE DEF g, b
<1>5. (NumBlocks - 1) * W = NumSlots - W
  BY <1>2 DEF NumSlots
<1>6. ASSUME b # 0 \/ s # NumStarts - 1, ~(g + 1 <= NumBlocks - 1)
      PROVE  FALSE
  <2>1. g = NumBlocks - 1
    BY <1>2, <1>4, <1>6
  <2>2. g * W = NumSlots - W
    BY <1>5, <2>1
  <2> QED BY <1>1, <1>2, <1>3, <1>6, <2>2
<1> QED BY <1>1, <1>3, <1>4, <1>6 DEF s, g, b

LEMMA FiniteWord ==
  ASSUME NEW c \in Word
  PROVE  IsFiniteSet(c) /\ c \in SUBSET Nat
<1>1. W \in Nat /\ c \in SUBSET (0 .. W - 1) /\ c \in SUBSET Nat
  BY TableSize DEF Word
<1> QED BY <1>1, WordIsFinite, Zenon

LEMMA CoeffRowIsWord ==
  ASSUME NEW h \in Hashes
  PROVE  CoeffRow(h) \in Word /\ 0 \in CoeffRow(h)
BY WAssumption DEF Hashes, CoeffRow, Word

(* The row of a key fits between its start slot and the end of the table.  *)
LEMMA RowFits ==
  ASSUME NEW h \in Hashes
  PROVE  /\ Start(h) \in Nat
         /\ \A b \in CoeffRow(h) : Start(h) + b < NumSlots
BY StartInRange, CoeffRowIsWord, TableSize DEF Word

-----------------------------------------------------------------------------
(* Reduction                                                               *)

StaysBelow(s, c, end) == \A i \in c : s + i < end

(* One turn of the reduction: the new row starts at its low bit and ends   *)
(* where one of the two rows did.                                          *)
LEMMA ReducedRow ==
  ASSUME NEW s \in Nat, NEW x \in Word, NEW c \in Word,
         SymDiff(x, c) # {},
         NEW tz, tz = TrailingZeros(SymDiff(x, c)),
         NEW r, r = ShiftRight(SymDiff(x, c), tz)
  PROVE  /\ tz \in Nat /\ r \in Word /\ 0 \in r
         /\ \A end \in Nat : StaysBelow(s, x, end) /\ StaysBelow(s, c, end)
                               => StaysBelow(s + tz, r, end)
<1> DEFINE y == SymDiff(x, c)
<1>1. y \in SUBSET (0 .. W - 1) /\ y # {} /\ W \in Nat
  BY WAssumption DEF Word, SymDiff
<1>2. \A b \in y : b \in x \/ b \in c
  BY DEF SymDiff
<1> HIDE DEF y
<1>3. tz \in y /\ r \in Word /\ 0 \in r
  BY <1>1, ShiftToLowBit, WAssumption DEF Word, y
<1>4. tz \in Nat
  BY <1>1, <1>3
<1>5. r = ShiftRight(y, tz)
  BY DEF y
<1>6. ASSUME NEW end \in Nat, StaysBelow(s, x, end), StaysBelow(s, c, end)
      PROVE  StaysBelow(s + tz, r, end)
  <2>1. \A i \in y : i \in Nat /\ s + i < end
    BY <1>1, <1>2, <1>6 DEF StaysBelow
  <2>2. ASSUME NEW i \in r PROVE s + tz + i < end
    <3>1. PICK d \in y : i = d - tz
      BY <1>5, <2>2 DEF ShiftRight
    <3> QED BY <1>4, <2>1, <3>1
  <2> QED BY <2>2 DEF StaysBelow
<1> QED BY <1>3, <1>4, <1>6
=============================================================================
