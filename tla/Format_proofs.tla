--------------------------- MODULE Format_proofs ----------------------------
(***************************************************************************)
(* What a serialized filter promises, for bytes and words of every size:   *)
(* it is read back as it was written, damage is detected, and what is      *)
(* accepted has every segment that a query may read.  And what the tables  *)
(* that builders ask for promise, for floats of any precision.             *)
(***************************************************************************)
EXTENDS Format, Sizing, WellFoundedInduction, TLAPS

(* Division with remainder                                                 *)
LEMMA Division ==
  ASSUME NEW s \in Nat, NEW w \in Nat \ {0}
  PROVE  /\ s \div w \in Nat
         /\ s % w \in 0 .. w - 1
         /\ (s \div w) * w \in Nat
         /\ s = (s \div w) * w + (s % w)
<1> DEFINE q == s \div w
<1>1. q \in Nat /\ s % w \in 0 .. w - 1 /\ s = w * q + (s % w)
  OBVIOUS
<1>2. w * q = q * w /\ q * w \in Nat
  <2> HIDE DEF q
  <2> QED BY <1>1
<1> QED BY <1>1, <1>2

LEMMA MultipleOrder ==
  ASSUME NEW p \in Nat, NEW q \in Nat, NEW w \in Nat \ {0}, p * w < q * w
  PROVE  p < q
<1>1. SUFFICES ASSUME p >= q PROVE FALSE
  OBVIOUS
<1> DEFINE d == p - q
<1>2. d \in Nat /\ p = q + d
  BY <1>1
<1> HIDE DEF d
<1>3. p * w = q * w + d * w /\ d * w \in Nat /\ q * w \in Nat
  BY <1>2
<1> QED BY <1>3

LEMMA MultipleMonotone ==
  ASSUME NEW p \in Nat, NEW q \in Nat, NEW r \in Nat, p <= q
  PROVE  p * r <= q * r
<1> DEFINE d == q - p
<1>1. d \in Nat /\ q = p + d
  OBVIOUS
<1> HIDE DEF d
<1>2. q * r = p * r + d * r /\ d * r \in Nat /\ p * r \in Nat
  BY <1>1
<1> QED BY <1>2

LEMMA DivisionIsUnique ==
  ASSUME NEW w \in Nat \ {0}, NEW g \in Nat, NEW b \in 0 .. w - 1
  PROVE  /\ g * w + b \in Nat
         /\ (g * w + b) \div w = g
         /\ (g * w + b) % w = b
<1> DEFINE s == g * w + b
           q == s \div w
<1>1. s \in Nat /\ g * w \in Nat
  OBVIOUS
<1>2. q \in Nat /\ s % w \in 0 .. w - 1 /\ q * w \in Nat /\ s = q * w + (s % w)
  <2> HIDE DEF s
  <2> QED BY <1>1, Division
<1> HIDE DEF q
<1>3. ~ (q < g)
  <2> SUFFICES ASSUME q + 1 <= g PROVE FALSE
    BY <1>2
  <2>1. (q + 1) * w <= g * w /\ (q + 1) * w = q * w + w
    BY <1>2, MultipleMonotone
  <2> QED BY <1>1, <1>2, <2>1
<1>4. ~ (g < q)
  <2> SUFFICES ASSUME g + 1 <= q PROVE FALSE
    BY <1>2
  <2>1. (g + 1) * w <= q * w /\ (g + 1) * w = g * w + w
    BY <1>2, MultipleMonotone
  <2> QED BY <1>1, <1>2, <2>1
<1>5. q = g
  BY <1>2, <1>3, <1>4
<1> QED BY <1>1, <1>2, <1>5 DEF q


-----------------------------------------------------------------------------
(* Induction and recursion                                                 *)

LEMMA LeastNatural ==
  ASSUME NEW T \in SUBSET Nat, T # {}
  PROVE  \E x \in T : \A y \in T : x <= y
<1> DEFINE R == OpToRel(<, Nat)
<1>1. IsWellFoundedOn(R, Nat)
  BY NatLessThanWellFounded
<1>2. PICK x \in T : \A y \in T : ~ (<<y, x>> \in R)
  <2> HIDE DEF R
  <2> QED BY <1>1, WFMin
<1>3. \A y \in T : ~ (y < x)
  <2> SUFFICES ASSUME NEW y \in T, y < x PROVE FALSE
    OBVIOUS
  <2>1. <<y, x>> \in Nat \X Nat
    OBVIOUS
  <2>2. <<y, x>> \in R
    BY <2>1, Zenon DEF OpToRel
  <2> QED BY <1>2, <2>2
<1>4. \A y \in T : x <= y
  <2> HIDE DEF R
  <2> QED BY <1>3
<1> QED BY <1>4

LEMMA Ascent ==
  ASSUME NEW N \in Nat, NEW S \in SUBSET (0 .. N), 0 \in S,
         \A m \in 0 .. N - 1 : m \in S => m + 1 \in S
  PROVE  S = 0 .. N
<1> DEFINE T == {m \in Nat : m <= N /\ m \notin S}
<1>1. T = {}
  <2> SUFFICES ASSUME T # {} PROVE FALSE
    OBVIOUS
  <2>1. PICK m \in T : \A x \in T : m <= x
    BY LeastNatural
  <2>2. m \in Nat /\ m <= N /\ m \notin S /\ m # 0
    BY <2>1
  <2>3. m - 1 \in 0 .. N - 1 /\ m - 1 \notin T
    BY <2>1, <2>2
  <2>4. m - 1 \in S /\ m - 1 + 1 = m
    BY <2>2, <2>3
  <2> QED BY <2>2, <2>3, <2>4
<1>2. \A m \in 0 .. N : m \in S
  <2> SUFFICES ASSUME NEW m \in 0 .. N PROVE m \in S
    OBVIOUS
  <2>1. m \notin T /\ m \in Nat /\ m <= N
    BY <1>1
  <2> QED BY <2>1
<1> QED BY <1>2

(* A function g on 0 .. N that starts with e and takes the steps of F      *)
Unrolls(g, N, e, F) ==
  \A m \in 0 .. N : g[m] = IF m = 0 THEN e ELSE F[<<m, g[m - 1]>>]

HasUnrolling(N, V, e, F) == \E g \in [0 .. N -> V] : Unrolls(g, N, e, F)

LEMMA RecursionExists ==
  ASSUME NEW N \in Nat, NEW V, NEW e \in V, NEW F \in [(1 .. N) \X V -> V]
  PROVE  HasUnrolling(N, V, e, F)
<1> DEFINE S == {m \in 0 .. N : \E g \in [0 .. m -> V] : Unrolls(g, m, e, F)}
<1>1. 0 \in S
  <2> DEFINE g == [i \in 0 .. 0 |-> e]
  <2>1. g \in [0 .. 0 -> V] /\ Unrolls(g, 0, e, F)
    BY DEF Unrolls
  <2> QED BY <2>1
<1>2. ASSUME NEW m \in 0 .. N - 1, m \in S PROVE m + 1 \in S
  <2>1. PICK g \in [0 .. m -> V] : Unrolls(g, m, e, F)
    BY <1>2
  <2> DEFINE v == F[<<m + 1, g[m]>>]
             f == [i \in 0 .. m + 1 |-> IF i = m + 1 THEN v ELSE g[i]]
  <2>2. m \in Nat /\ m < N /\ m \in 0 .. m /\ <<m + 1, g[m]>> \in (1 .. N) \X V
    BY <2>1
  <2>3. v \in V
    BY <2>2
  <2>4. f \in [0 .. m + 1 -> V]
    <3> HIDE DEF v
    <3>1. \A i \in 0 .. m + 1 : i # m + 1 => i \in 0 .. m
      BY <2>2
    <3> QED BY <2>1, <2>3, <3>1
  <2>5. f[m + 1] = v /\ \A i \in 0 .. m : f[i] = g[i]
    BY <2>2
  <2>6. ASSUME NEW i \in 0 .. m + 1
        PROVE  f[i] = IF i = 0 THEN e ELSE F[<<i, f[i - 1]>>]
    <3> HIDE DEF f
    <3>1. CASE i = m + 1
      <4>1. i - 1 = m /\ i # 0 /\ f[i - 1] = g[m]
        BY <2>2, <2>5, <3>1
      <4> QED BY <2>5, <3>1, <4>1
    <3>2. CASE i # m + 1
      <4>1. i \in 0 .. m /\ (i # 0 => i - 1 \in 0 .. m)
        BY <2>2, <3>2
      <4>2. f[i] = g[i] /\ (i # 0 => f[i - 1] = g[i - 1])
        BY <2>5, <4>1
      <4> QED BY <2>1, <4>1, <4>2 DEF Unrolls
    <3> QED BY <3>1, <3>2
  <2> HIDE DEF f
  <2>7. Unrolls(f, m + 1, e, F) /\ m + 1 \in 0 .. N
    BY <2>2, <2>6 DEF Unrolls
  <2> QED BY <2>4, <2>7
<1>3. N \in S
  <2>1. S \in SUBSET (0 .. N)
    OBVIOUS
  <2> HIDE DEF S
  <2>2. S = 0 .. N
    BY <1>1, <1>2, <2>1, Ascent
  <2> QED BY <2>2
<1> QED BY <1>3 DEF HasUnrolling

-----------------------------------------------------------------------------
(* Powers                                                                  *)

(* g[m] is the m-th power of b, for m up to k.                             *)
ArePowers(g, b, k) ==
  /\ g \in [0 .. k -> Nat]
  /\ g[0] = 1
  /\ \A m \in 1 .. k : g[m] = b * g[m - 1]

LEMMA PowersUnrolled ==
  ASSUME NEW b \in Nat, NEW k \in Nat
  PROVE  \E g : ArePowers(g, b, k) /\ Power(b, k) = g[k]
<1> DEFINE F == [x \in (1 .. k) \X Nat |-> b * x[2]]
           Step(h) == [i \in 0 .. k |-> IF i = 0 THEN 1 ELSE b * h[i - 1]]
           p == CHOOSE h : h = Step(h)
<1>1. F \in [(1 .. k) \X Nat -> Nat] /\ \A m \in 1 .. k : \A v \in Nat : F[<<m, v>>] = b * v
  OBVIOUS
<1>2. Power(b, k) = p[k]
  BY DEF Power
<1>3. \A h, m : m \in 0 .. k => Step(h)[m] = IF m = 0 THEN 1 ELSE b * h[m - 1]
  OBVIOUS
<1>4. \A h : Step(h) = [m \in 0 .. k |-> Step(h)[m]]
  OBVIOUS
<1> HIDE DEF F, Step, p
<1>5. HasUnrolling(k, Nat, 1, F)
  BY <1>1, RecursionExists
<1>6. PICK g \in [0 .. k -> Nat] : Unrolls(g, k, 1, F)
  BY <1>5 DEF HasUnrolling
<1>7. g = Step(g)
  <2> SUFFICES ASSUME NEW m \in 0 .. k PROVE g[m] = Step(g)[m]
    BY <1>4, <1>6
  <2>1. m # 0 => m \in 1 .. k /\ g[m - 1] \in Nat
    BY <1>6
  <2>2. g[m] = IF m = 0 THEN 1 ELSE F[<<m, g[m - 1]>>]
    BY <1>6 DEF Unrolls
  <2>3. Step(g)[m] = IF m = 0 THEN 1 ELSE b * g[m - 1]
    BY <1>3
  <2>4. CASE m = 0
    BY <2>2, <2>3, <2>4
  <2>5. CASE m # 0
    <3>1. F[<<m, g[m - 1]>>] = b * g[m - 1]
      BY <1>1, <2>1, <2>5
    <3> QED BY <2>2, <2>3, <2>5, <3>1
  <2> QED BY <2>4, <2>5
<1>8. p = Step(p)
  BY <1>7 DEF p
<1>9. p[0] = 1 /\ \A m \in 1 .. k : p[m] = b * p[m - 1]
  <2> SUFFICES ASSUME NEW m \in 0 .. k PROVE p[m] = IF m = 0 THEN 1 ELSE b * p[m - 1]
    OBVIOUS
  <2> QED BY <1>3, <1>8
<1>10. {m \in 0 .. k : p[m] \in Nat} = 0 .. k
  <2> DEFINE S == {m \in 0 .. k : p[m] \in Nat}
  <2>1. 0 \in S /\ S \in SUBSET (0 .. k)
    BY <1>9
  <2>2. ASSUME NEW m \in 0 .. k - 1, m \in S PROVE m + 1 \in S
    <3>1. m + 1 \in 1 .. k /\ m + 1 \in 0 .. k /\ (m + 1) - 1 = m
      OBVIOUS
    <3> QED BY <1>9, <2>2, <3>1
  <2> HIDE DEF S
  <2>3. S = 0 .. k
    BY <2>1, <2>2, Ascent
  <2> QED BY <2>3 DEF S
<1>11. ArePowers(p, b, k)
  <2>1. \A m \in 0 .. k : p[m] \in Nat
    BY <1>10
  <2>2. p \in [0 .. k -> Nat]
    BY <1>4, <1>8, <2>1
  <2> QED BY <1>9, <2>2 DEF ArePowers
<1> QED BY <1>2, <1>11

LEMMA PowersAgree ==
  ASSUME NEW b \in Nat, NEW k \in Nat, NEW j \in Nat, j <= k,
         NEW g, ArePowers(g, b, k)
  PROVE  g[j] = Power(b, j)
<1>1. PICK f : ArePowers(f, b, j) /\ Power(b, j) = f[j]
  BY PowersUnrolled
<1> DEFINE S == {m \in 0 .. j : g[m] = f[m]}
<1>2. 0 \in S /\ S \in SUBSET (0 .. j)
  BY <1>1 DEF ArePowers
<1>3. ASSUME NEW m \in 0 .. j - 1, m \in S PROVE m + 1 \in S
  <2>1. m + 1 \in 1 .. j /\ m + 1 \in 1 .. k /\ m + 1 \in 0 .. j /\ (m + 1) - 1 = m
    OBVIOUS
  <2> QED BY <1>1, <1>3, <2>1 DEF ArePowers
<1>4. j \in S
  <2> HIDE DEF S
  <2> QED BY <1>2, <1>3, Ascent
<1> QED BY <1>1, <1>4

LEMMA PowerType ==
  ASSUME NEW b \in Nat, NEW k \in Nat
  PROVE  Power(b, k) \in Nat
<1>1. PICK g : ArePowers(g, b, k) /\ Power(b, k) = g[k]
  BY PowersUnrolled
<1> QED BY <1>1 DEF ArePowers

LEMMA PowerRecursion ==
  ASSUME NEW b \in Nat, NEW k \in Nat
  PROVE  Power(b, 0) = 1 /\ Power(b, k + 1) = b * Power(b, k)
<1>1. PICK f : ArePowers(f, b, 0) /\ Power(b, 0) = f[0]
  BY PowersUnrolled
<1>2. PICK g : ArePowers(g, b, k + 1) /\ Power(b, k + 1) = g[k + 1]
  BY PowersUnrolled
<1>3. g[k] = Power(b, k)
  BY <1>2, PowersAgree
<1>4. g[k + 1] = b * g[k]
  <2>1. k + 1 \in 1 .. k + 1 /\ (k + 1) - 1 = k
    OBVIOUS
  <2> QED BY <1>2, <2>1 DEF ArePowers
<1> QED BY <1>1, <1>2, <1>3, <1>4 DEF ArePowers

LEMMA PowerGrows ==
  ASSUME NEW b \in Nat \ {0, 1}, NEW k \in Nat
  PROVE  Power(b, k) \in Nat \ {0} /\ k < Power(b, k)
<1> DEFINE S == {m \in 0 .. k : m < Power(b, m)}
<1>1. 0 \in S /\ S \in SUBSET (0 .. k)
  BY PowerRecursion
<1>2. ASSUME NEW m \in 0 .. k - 1, m \in S PROVE m + 1 \in S
  <2>1. Power(b, m) \in Nat /\ m < Power(b, m)
    BY <1>2, PowerType
  <2>2. Power(b, m + 1) = b * Power(b, m)
    BY PowerRecursion
  <2>3. 2 * Power(b, m) <= b * Power(b, m)
    BY <2>1, MultipleMonotone
  <2>4. b * Power(b, m) \in Nat
    BY <2>1
  <2> QED BY <2>1, <2>2, <2>3, <2>4
<1>3. k \in S
  <2> HIDE DEF S
  <2> QED BY <1>1, <1>2, Ascent
<1> QED BY <1>3, PowerType

LEMMA PowersMonotone ==
  ASSUME NEW b \in Nat \ {0, 1}, NEW j \in Nat, NEW k \in Nat, j <= k
  PROVE  Power(b, j) <= Power(b, k)
<1> DEFINE S == {m \in 0 .. k - j : Power(b, j) <= Power(b, j + m)}
<1>1. 0 \in S /\ S \in SUBSET (0 .. k - j)
  BY PowerType
<1>2. ASSUME NEW m \in 0 .. k - j - 1, m \in S PROVE m + 1 \in S
  <2> DEFINE x == j + m
  <2>0. x \in Nat /\ Power(b, j) <= Power(b, x)
    BY <1>2
  <2>1. Power(b, x) \in Nat /\ Power(b, j) \in Nat
    <3> HIDE DEF x
    <3> QED BY <2>0, PowerType
  <2>2. Power(b, x + 1) = b * Power(b, x)
    BY <2>0, PowerRecursion
  <2>3. 1 * Power(b, x) <= b * Power(b, x)
    <3> HIDE DEF x
    <3> QED BY <2>1, MultipleMonotone
  <2>4. b * Power(b, x) \in Nat /\ x + 1 = j + (m + 1)
    <3>1. b * Power(b, x) \in Nat
      <4> HIDE DEF x
      <4> QED BY <2>1
    <3> QED BY <3>1
  <2>5. Power(b, j) <= Power(b, x + 1)
    <3> HIDE DEF x
    <3> QED BY <2>0, <2>1, <2>2, <2>3, <2>4
  <2>6. m + 1 \in 0 .. k - j
    OBVIOUS
  <2> QED BY <2>4, <2>5, <2>6
<1>3. k - j \in S
  <2> HIDE DEF S
  <2> QED BY <1>1, <1>2, Ascent
<1> QED BY <1>3

(* The digit that comes with one more power                                *)
LEMMA NextDigit ==
  ASSUME NEW b \in Nat \ {0, 1}, NEW k \in Nat, NEW x \in Nat
  PROVE  x % Power(b, k + 1) = (x % Power(b, k)) + ((x \div Power(b, k)) % b) * Power(b, k)
<1> DEFINE p == Power(b, k)
           q == x \div p
           low == x % p
           d == q % b
           top == q \div b
<1>1. p \in Nat \ {0} /\ Power(b, k + 1) = b * p /\ b * p \in Nat
  BY PowerGrows, PowerRecursion
<1> HIDE DEF p
<1>2. q \in Nat /\ low \in 0 .. p - 1 /\ q * p \in Nat /\ x = q * p + low
  BY <1>1, Division
<1> HIDE DEF q, low
<1>3. top \in Nat /\ d \in 0 .. b - 1 /\ q = top * b + d /\ top * b \in Nat
  BY <1>2, Division
<1> HIDE DEF top, d
<1>4. q * p = top * (b * p) + d * p /\ d * p \in Nat /\ top * (b * p) \in Nat
  <2>1. (top * b + d) * p = (top * b) * p + d * p
    BY <1>1, <1>3
  <2>2. (top * b) * p = top * (b * p)
    BY <1>1, <1>3
  <2> QED BY <1>1, <1>3, <2>1, <2>2
<1>5. d * p + low \in 0 .. (b * p) - 1
  <2>1. (d + 1) * p <= b * p
    BY <1>1, <1>3, MultipleMonotone
  <2>2. (d + 1) * p = d * p + p
    BY <1>1, <1>3
  <2> QED BY <1>1, <1>2, <1>4, <2>1, <2>2
<1>6. x = top * (b * p) + (d * p + low)
  <2> DEFINE u == top * (b * p)
             v == d * p
             y == q * p
  <2>1. u \in Nat /\ v \in Nat /\ low \in Nat /\ y = u + v /\ x = y + low
    BY <1>1, <1>2, <1>4
  <2> HIDE DEF u, v, y
  <2>2. x = u + (v + low)
    BY <2>1
  <2> QED BY <2>2 DEF u, v
<1>7. b * p \in Nat \ {0}
  BY <1>1, <1>5
<1>8. x % (b * p) = d * p + low
  <2> DEFINE y == d * p + low
             z == b * p
  <2>1. y \in 0 .. z - 1 /\ z \in Nat \ {0} /\ x = top * z + y
    BY <1>5, <1>6, <1>7
  <2> HIDE DEF y, z
  <2>2. x % z = y
    BY <1>3, <2>1, DivisionIsUnique
  <2> QED BY <2>2 DEF y, z
<1> QED BY <1>1, <1>2, <1>4, <1>8 DEF p, q, low, d
-----------------------------------------------------------------------------
(* Geometry                                                                *)

(* The number of slots does not wrap, and is a whole number of blocks.     *)
LEMMA SlotsAreBlocks ==
  ASSUME NEW t \in Types, NEW num_starts \in Nat, GoodSlots(num_starts, t)
  PROVE  \E blocks \in Nat :
           /\ num_starts + t.w - 1 = blocks * t.w
           /\ blocks = SlotsOf(num_starts, t) \div t.w
<1> DEFINE slots == num_starts + t.w - 1
<1>1. t.w \in Nat \ {0}
  BY DEF Types
<1>2. slots \in Nat /\ slots < U64
  BY <1>1 DEF GoodSlots
<1>3. SlotsOf(num_starts, t) = slots
  <2>1. slots % U64 = slots
    <3> HIDE DEF slots
    <3> QED BY <1>2, WidthAssumption
  <2> QED BY <2>1 DEF SlotsOf
<1>4. slots % t.w = 0
  BY <1>3 DEF GoodSlots
<1> HIDE DEF slots
<1>5. slots = (slots \div t.w) * t.w /\ slots \div t.w \in Nat
  <2>1. slots = (slots \div t.w) * t.w + (slots % t.w) /\ slots \div t.w \in Nat
    BY <1>1, <1>2, Division
  <2>2. (slots \div t.w) * t.w \in Nat
    BY <1>1, <2>1
  <2> QED BY <1>4, <2>1, <2>2
<1>6. slots = num_starts + t.w - 1
  BY DEF slots
<1> QED BY <1>3, <1>5, <1>6

(* Whatever a header declares, if decode accepts it then a query of any    *)
(* start slot finds the segments of its block, and those of the next block *)
(* if its row crosses into it: no lookup of a decoded filter indexes out   *)
(* of bounds.                                                              *)
THEOREM AcceptedQueriesInBounds ==
  \A t \in Types : \A num_starts, count \in Nat :
    GoodGeometry(num_starts, count, t) => QueriesInBounds(num_starts, count, t)
<1> SUFFICES ASSUME NEW t \in Types, NEW num_starts \in Nat, NEW count \in Nat,
                    GoodGeometry(num_starts, count, t),
                    NEW s \in 0 .. num_starts - 1
             PROVE  LET seg   == (s \div t.w) * t.r
                        maybe == IF s % t.w # 0 THEN t.r ELSE 0
                    IN  seg + maybe + t.r <= count
  BY DEF QueriesInBounds
<1> DEFINE w == t.w
           r == t.r
           block == s \div w
           bit == s % w
<1>1. w \in Nat \ {0} /\ r \in Nat \ {0} /\ s \in Nat
  BY DEF Types
<1>2. PICK blocks \in Nat :
        /\ num_starts + w - 1 = blocks * w
        /\ blocks = SlotsOf(num_starts, t) \div w
  BY SlotsAreBlocks DEF GoodGeometry
<1>3. count = blocks * r
  BY <1>2 DEF GoodGeometry, GoodCount
<1>4. block \in Nat /\ bit \in 0 .. w - 1 /\ s = block * w + bit
  BY <1>1, Division
<1> SUFFICES block * r + (IF bit # 0 THEN r ELSE 0) + r <= count
  OBVIOUS
<1> HIDE DEF w, r, block, bit
<1>5. block * w \in Nat /\ blocks * w \in Nat
  BY <1>1, <1>2, <1>4
<1>6. CASE bit = 0
  <2>1. (block + 1) * w = block * w + w
    BY <1>1, <1>4
  <2>2. (block + 1) * w <= blocks * w
    BY <1>1, <1>2, <1>4, <1>5, <1>6, <2>1
  <2>3. (block + 1) * w < (blocks + 1) * w
    <3>1. (blocks + 1) * w = blocks * w + w
      BY <1>1, <1>2
    <3> QED BY <1>1, <1>5, <2>1, <2>2, <3>1
  <2>4. block + 1 <= blocks
    BY <1>1, <1>2, <1>4, <2>3, MultipleOrder
  <2>5. (block + 1) * r <= blocks * r
    BY <1>1, <1>2, <1>4, <2>4, MultipleMonotone
  <2>6. (block + 1) * r = block * r + r /\ block * r \in Nat
    BY <1>1, <1>4
  <2> QED BY <1>1, <1>3, <1>6, <2>5, <2>6
<1>7. CASE bit # 0
  <2>1. (block + 1) * w = block * w + w
    BY <1>1, <1>4
  <2>2. (block + 1) * w < blocks * w
    BY <1>1, <1>2, <1>4, <1>5, <1>7, <2>1
  <2>3. block + 2 <= blocks
    BY <1>1, <1>2, <1>4, <2>2, MultipleOrder
  <2>4. (block + 2) * r <= blocks * r
    BY <1>1, <1>2, <1>4, <2>3, MultipleMonotone
  <2>5. (block + 2) * r = block * r + r + r /\ block * r \in Nat
    BY <1>1, <1>4
  <2> QED BY <1>1, <1>3, <1>7, <2>4, <2>5
<1> QED BY <1>6, <1>7

(* However many slots the overhead asks for, the table has that many, in   *)
(* whole blocks, and at least the two that the hashing needs.              *)
THEOREM SlotsAreWholeBlocks ==
  \A raw \in Nat, w \in Nat \ {0} :
    \E blocks \in Nat \ {0, 1} :
      RoundUpNumSlots(raw, w) = blocks * w /\ raw <= RoundUpNumSlots(raw, w)
<1> SUFFICES ASSUME NEW raw \in Nat, NEW w \in Nat \ {0}
             PROVE  \E blocks \in Nat \ {0, 1} :
                      /\ RoundUpNumSlots(raw, w) = blocks * w
                      /\ raw <= RoundUpNumSlots(raw, w)
  OBVIOUS
<1> DEFINE x == raw + w - 1
           q == DivCeil(raw, w)
<1>1. q \in Nat /\ raw <= q * w
  <2>1. x \in Nat
    OBVIOUS
  <2>2. q = x \div w
    BY DEF DivCeil
  <2> HIDE DEF x, q
  <2>3. q \in Nat /\ x % w \in 0 .. w - 1 /\ x = q * w + (x % w)
    BY <2>1, <2>2, Division
  <2>4. q * w \in Nat
    BY <2>3
  <2> QED BY <2>3, <2>4 DEF x
<1>2. RoundUpNumSlots(raw, w) =
        LET t == IF q * w = w THEN q * w + w ELSE q * w
        IN  IF t < 2 * w THEN 2 * w ELSE t
  BY DEF RoundUpNumSlots
<1> HIDE DEF q
<1>3. CASE q \in {0, 1}
  <2>1. q * w = 0 \/ q * w = w
    BY <1>3
  <2>2. RoundUpNumSlots(raw, w) = 2 * w
    BY <1>2, <2>1
  <2>3. raw <= 2 * w
    BY <1>1, <2>1
  <2> QED BY <2>2, <2>3
<1>4. CASE q \notin {0, 1}
  <2>1. 2 <= q /\ q \in Nat
    BY <1>1, <1>4
  <2>2. 2 * w <= q * w /\ q * w \in Nat
    BY <2>1, MultipleMonotone
  <2>3. RoundUpNumSlots(raw, w) = q * w
    BY <1>2, <2>2
  <2> QED BY <1>1, <1>4, <2>3
<1> QED BY <1>3, <1>4

-----------------------------------------------------------------------------
(* The size of a table                                                     *)

(* Some shift brings a number down to the bits of a mantissa, the least    *)
(* one leaves none of them unused.                                         *)
LEMMA ShiftExists ==
  ASSUME NEW x \in Nat
  PROVE  \E s \in 0 .. x :
           /\ x < Power(2, MantissaBits + s)
           /\ s > 0 => x >= Power(2, MantissaBits + s - 1)
<1> DEFINE S == {s \in 0 .. x : x < Power(2, MantissaBits + s)}
<1>1. MantissaBits \in Nat
  BY MantissaAssumption
<1>2. x \in S
  <2>1. MantissaBits + x \in Nat
    BY <1>1
  <2>2. MantissaBits + x < Power(2, MantissaBits + x) /\ Power(2, MantissaBits + x) \in Nat
    BY <2>1, PowerGrows
  <2> QED BY <1>1, <2>2
<1>3. PICK s \in S : \A y \in S : s <= y
  <2>1. S \in SUBSET Nat /\ S # {}
    BY <1>2
  <2> HIDE DEF S
  <2> QED BY <2>1, LeastNatural
<1>4. s > 0 => x >= Power(2, MantissaBits + s - 1)
  <2> SUFFICES ASSUME s > 0, ~(x >= Power(2, MantissaBits + s - 1)) PROVE FALSE
    OBVIOUS
  <2>1. s - 1 \in 0 .. x /\ MantissaBits + (s - 1) = MantissaBits + s - 1
    BY <1>1, <1>3
  <2>2. MantissaBits + s - 1 \in Nat
    BY <1>1, <1>3
  <2>3. Power(2, MantissaBits + s - 1) \in Nat
    BY <2>2, PowerType
  <2>4. s - 1 \in S
    BY <2>1, <2>3
  <2> QED BY <1>3, <2>4
<1> QED BY <1>3, <1>4

(* Eight bits of mantissa: half a unit in the last place is no more than   *)
(* one part in 256.                                                        *)
LEMMA UlpIsSmall ==
  ASSUME NEW s \in Nat \ {0}
  PROVE  128 * Power(2, s) <= Power(2, MantissaBits + s - 1)
<1>1. MantissaBits \in Nat /\ MantissaBits >= 8
  BY MantissaAssumption
<1>2. /\ Power(2, s + 1) = 2 * Power(2, s)
      /\ Power(2, s + 1 + 1) = 2 * Power(2, s + 1)
      /\ Power(2, s + 1 + 1 + 1) = 2 * Power(2, s + 1 + 1)
      /\ Power(2, s + 1 + 1 + 1 + 1) = 2 * Power(2, s + 1 + 1 + 1)
      /\ Power(2, s + 1 + 1 + 1 + 1 + 1) = 2 * Power(2, s + 1 + 1 + 1 + 1)
      /\ Power(2, s + 1 + 1 + 1 + 1 + 1 + 1) = 2 * Power(2, s + 1 + 1 + 1 + 1 + 1)
      /\ Power(2, s + 1 + 1 + 1 + 1 + 1 + 1 + 1) = 2 * Power(2, s + 1 + 1 + 1 + 1 + 1 + 1)
  BY PowerRecursion
<1>3. s + 1 + 1 + 1 + 1 + 1 + 1 + 1 = s + 7
  OBVIOUS
<1>4. Power(2, s + 7) = 128 * Power(2, s)
  <2>1. Power(2, s) \in Nat
    BY PowerType
  <2> QED BY <1>2, <1>3, <2>1
<1>5. s + 7 \in Nat /\ MantissaBits + s - 1 \in Nat /\ s + 7 <= MantissaBits + s - 1
  BY <1>1
<1>6. Power(2, s + 7) <= Power(2, MantissaBits + s - 1)
  BY <1>5, PowersMonotone
<1> QED BY <1>4, <1>6

LEMMA RoundedIsClose ==
  ASSUME NEW x \in Nat
  PROVE  /\ Rounded(x) \in Nat
         /\ 256 * Rounded(x) <= 257 * x
         /\ 255 * x <= 256 * Rounded(x)
<1> DEFINE P(s) == /\ x < Power(2, MantissaBits + s)
                   /\ s > 0 => x >= Power(2, MantissaBits + s - 1)
           shift == CHOOSE s \in 0 .. x : P(s)
           ulp == Power(2, shift)
           q == x \div ulp
           low == x % ulp
           up == 2 * low > ulp \/ (2 * low = ulp /\ q % 2 = 1)
<1>1. Rounded(x) = (IF up THEN q + 1 ELSE q) * ulp
  BY DEF Rounded
<1>2. shift \in 0 .. x /\ P(shift)
  BY ShiftExists
<1> HIDE DEF shift
<1>3. ulp \in Nat \ {0}
  BY <1>2, PowerGrows
<1>4. shift = 0 => ulp = 1
  BY PowerRecursion
<1>5. shift > 0 => 128 * ulp <= x
  <2> SUFFICES ASSUME shift > 0 PROVE 128 * ulp <= x
    OBVIOUS
  <2>1. shift \in Nat \ {0}
    BY <1>2
  <2> DEFINE big == Power(2, MantissaBits + shift - 1)
  <2>2. 128 * ulp <= big /\ big <= x
    BY <1>2, <2>1, UlpIsSmall
  <2>3. MantissaBits + shift - 1 \in Nat
    BY <2>1, MantissaAssumption
  <2>4. big \in Nat
    BY <2>3, PowerType
  <2> HIDE DEF big
  <2> QED BY <1>3, <2>2, <2>4
<1> HIDE DEF ulp
<1>6. q \in Nat /\ low \in 0 .. ulp - 1 /\ q * ulp \in Nat /\ x = q * ulp + low
  BY <1>3, Division
<1>7. (q + 1) * ulp = q * ulp + ulp
  <2> HIDE DEF q
  <2> QED BY <1>3, <1>6
<1> DEFINE y == q * ulp
<1> HIDE DEF q, low
<1>8. y \in Nat /\ x = y + low /\ (q + 1) * ulp = y + ulp
  BY <1>6, <1>7
<1>9. \/ Rounded(x) = y + ulp /\ 2 * low >= ulp
      \/ Rounded(x) = y /\ 2 * low <= ulp
  <2>1. CASE up
    <3>1. Rounded(x) = y + ulp
      BY <1>1, <1>8, <2>1
    <3>2. 2 * low >= ulp
      <4> HIDE DEF y
      <4> QED BY <1>3, <1>6, <2>1
    <3> QED BY <3>1, <3>2
  <2>2. CASE ~up
    <3>1. Rounded(x) = y
      BY <1>1, <2>2
    <3>2. 2 * low <= ulp
      <4> HIDE DEF y
      <4> QED BY <1>3, <1>6, <2>2
    <3> QED BY <3>1, <3>2
  <2> QED BY <2>1, <2>2
<1> HIDE DEF y, up
<1>10. CASE shift = 0
  <2>1. ulp = 1 /\ low = 0
    BY <1>4, <1>6, <1>10
  <2> QED BY <1>8, <1>9, <2>1
<1>11. CASE shift > 0
  BY <1>3, <1>5, <1>6, <1>8, <1>9, <1>11
<1> QED BY <1>2, <1>10, <1>11

(* What the overhead asks for is no fewer slots than there are keys, and   *)
(* hardly more than the exact product.                                     *)
LEMMA RawBounds ==
  ASSUME NEW t \in Types, t.w <= 128, NEW keys \in Nat
  PROVE  /\ Raw(keys, t) \in Nat
         /\ keys <= Raw(keys, t)
         /\ 64 * (Raw(keys, t) * (4 * t.w)) <= 65 * (keys * (4 * t.w + 16 + t.r))
<1> DEFINE w == t.w
           a == 4 * w + 16 + t.r
           m == Rounded(keys)
           p == Rounded(m * a)
           raw == p \div (4 * w)
           ka == keys * a
           ma == m * a
           kw == keys * (4 * w)
           rw == raw * (4 * w)
<1>1. w \in Nat \ {0} /\ w <= 128 /\ t.r \in Nat \ {0}
  BY DEF Types
<1>2. a \in Nat /\ 4 * w + 17 <= a
  BY <1>1
<1>3. Raw(keys, t) = raw
  BY DEF Raw
<1> HIDE DEF w, a
<1>4. m \in Nat /\ 256 * m <= 257 * keys /\ 255 * keys <= 256 * m
  BY RoundedIsClose
<1> HIDE DEF m
<1>5. ma \in Nat /\ ka \in Nat /\ 256 * ma <= 257 * ka /\ 255 * ka <= 256 * ma
  <2>1. (256 * m) * a <= (257 * keys) * a /\ (255 * keys) * a <= (256 * m) * a
    BY <1>2, <1>4, MultipleMonotone
  <2>2. /\ (256 * m) * a = 256 * (m * a) /\ (257 * keys) * a = 257 * (keys * a)
        /\ (255 * keys) * a = 255 * (keys * a) /\ m * a \in Nat /\ keys * a \in Nat
    BY <1>2, <1>4
  <2> QED BY <2>1, <2>2
<1>6. p \in Nat /\ 256 * p <= 257 * ma /\ 255 * ma <= 256 * p
  <2> HIDE DEF ma
  <2>1. p = Rounded(ma)
    BY DEF ma
  <2> QED BY <1>5, <2>1, RoundedIsClose
<1> HIDE DEF p, ma
<1>7. raw \in Nat /\ rw \in Nat /\ rw <= p
  <2>1. 4 * w \in Nat \ {0}
    BY <1>1
  <2> DEFINE v == 4 * w
  <2> HIDE DEF v
  <2>2. v \in Nat \ {0}
    BY <2>1 DEF v
  <2>3. /\ p \div v \in Nat /\ (p \div v) * v \in Nat
        /\ p % v \in 0 .. v - 1 /\ p = (p \div v) * v + (p % v)
    BY <1>6, <2>2, Division
  <2>4. p \div v \in Nat /\ (p \div v) * v \in Nat /\ (p \div v) * v <= p
    BY <1>6, <2>2, <2>3
  <2> QED BY <2>4 DEF v
<1>8. 64 * rw <= 65 * ka
  <2> HIDE DEF rw, ka
  <2> QED BY <1>5, <1>6, <1>7
<1>9. kw \in Nat /\ 65025 * ka >= 65536 * kw
  <2>1. 65536 * (4 * w) <= 65025 * a
    BY <1>1, <1>2
  <2>2. (65536 * (4 * w)) * keys <= (65025 * a) * keys
    <3> DEFINE x == 65536 * (4 * w)
               y == 65025 * a
    <3>1. x \in Nat /\ y \in Nat /\ x <= y
      BY <1>1, <1>2, <2>1
    <3> HIDE DEF x, y
    <3>2. x * keys <= y * keys
      BY <3>1, MultipleMonotone
    <3> QED BY <3>2 DEF x, y
  <2>3. (65536 * (4 * w)) * keys = 65536 * kw /\ kw \in Nat
    BY <1>1
  <2>4. (65025 * a) * keys = 65025 * ka
    BY <1>2
  <2> QED BY <2>2, <2>3, <2>4
<1>10. kw <= p
  <2> HIDE DEF kw, ka
  <2> QED BY <1>5, <1>6, <1>9
<1>11. keys <= raw
  <2> SUFFICES ASSUME raw < keys PROVE FALSE
    BY <1>7
  <2> DEFINE v == 4 * w
  <2>1. v \in Nat \ {0} /\ p \in Nat
    BY <1>1, <1>6
  <2> HIDE DEF v
  <2>2. /\ p \div v \in Nat /\ (p \div v) * v \in Nat
        /\ p % v \in 0 .. v - 1 /\ p = (p \div v) * v + (p % v)
    BY <2>1, Division
  <2> DEFINE u == p \div v
  <2>3. u + 1 <= keys /\ u \in Nat
    BY <1>7, <2>2 DEF v
  <2> HIDE DEF u
  <2>4. (u + 1) * v <= keys * v
    BY <2>1, <2>3, MultipleMonotone
  <2>5. (u + 1) * v = u * v + v
    BY <2>1, <2>3
  <2>6. p < u * v + v /\ u * v \in Nat
    BY <2>1, <2>2 DEF u
  <2>7. keys * v <= p /\ keys * v \in Nat
    BY <1>9, <1>10 DEF v
  <2> QED BY <1>6, <2>1, <2>4, <2>5, <2>6, <2>7
<1> QED BY <1>3, <1>7, <1>8, <1>11 DEF w, a

(* Whole blocks are rounded up to by less than two.                        *)
LEMMA RoundingUpIsClose ==
  ASSUME NEW raw \in Nat, NEW w \in Nat \ {0}
  PROVE  RoundUpNumSlots(raw, w) <= raw + 2 * w
<1> DEFINE x == raw + w - 1
           q == x \div w
           y == q * w
<1>1. x \in Nat
  OBVIOUS
<1>2. q \in Nat /\ x % w \in 0 .. w - 1 /\ y \in Nat /\ x = y + (x % w)
  <2> HIDE DEF x
  <2> QED BY <1>1, Division
<1>3. RoundUpNumSlots(raw, w) =
        LET s == IF y = w THEN y + w ELSE y
        IN  IF s < 2 * w THEN 2 * w ELSE s
  BY DEF RoundUpNumSlots, DivCeil
<1> HIDE DEF q, y
<1>4. y <= raw + w
  BY <1>1, <1>2
<1> QED BY <1>2, <1>3, <1>4

(* A table of whole blocks, two or more, that memory has room for has a    *)
(* geometry that decode accepts.                                           *)
LEMMA WholeBlocksAreGood ==
  ASSUME NEW t \in Types, NEW blocks \in Nat \ {0, 1}, UsizeMax < U64,
         blocks * t.w <= UsizeMax,
         HeaderLen + (blocks * t.r) * t.elem + ChecksumLen <= UsizeMax
  PROVE  GoodGeometry(blocks * t.w - t.w + 1, blocks * t.r, t)
<1> DEFINE w == t.w
           r == t.r
           e == t.elem
           slots == blocks * w
           num_starts == slots - w + 1
           count == blocks * r
           len == count * e
<1>1. w \in Nat \ {0} /\ r \in Nat \ {0} /\ e \in Nat \ {0}
  BY DEF Types
<1>2. /\ HeaderLen \in Nat /\ ChecksumLen \in Nat /\ UsizeMax \in Nat /\ U64 \in Nat
      /\ UsizeMax < U64
  BY LengthAssumption, WidthAssumption
<1> HIDE DEF w, r, e
<1>3. slots \in Nat /\ 2 * w <= slots /\ count \in Nat
  <2>1. 2 * w <= slots
    BY <1>1, MultipleMonotone
  <2> QED BY <1>1, <2>1
<1>4. slots <= UsizeMax /\ HeaderLen + len + ChecksumLen <= UsizeMax
  BY DEF w, r, e
<1>5. slots \div w = blocks /\ slots % w = 0
  <2>1. slots = blocks * w + 0 /\ 0 \in 0 .. w - 1
    BY <1>1, <1>3
  <2> HIDE DEF slots
  <2>2. (blocks * w + 0) \div w = blocks /\ (blocks * w + 0) % w = 0
    BY <1>1, <2>1, DivisionIsUnique
  <2> QED BY <2>1, <2>2
<1>6. len \in Nat /\ count <= len
  <2> HIDE DEF count
  <2>1. 1 * count <= e * count
    BY <1>1, <1>3, MultipleMonotone
  <2>2. e * count = count * e /\ count * e \in Nat
    BY <1>1, <1>3
  <2> QED BY <1>3, <2>1, <2>2
<1> HIDE DEF slots, count, len
<1>7. num_starts + w - 1 = slots /\ num_starts # 0 /\ num_starts \in Nat
  BY <1>1, <1>3
<1> HIDE DEF num_starts
<1>8. slots % U64 = slots /\ len % (UsizeMax + 1) = len
  BY <1>2, <1>3, <1>4, <1>6
<1>9. SlotsOf(num_starts, t) = slots
  BY <1>7, <1>8 DEF SlotsOf, w
<1>10. PayloadLen(count, t) = len
  BY <1>8 DEF PayloadLen, len, e
<1>11. GoodSlots(num_starts, t)
  <2>1. num_starts + t.w - 1 < U64
    BY <1>2, <1>3, <1>4, <1>7 DEF w
  <2> QED BY <1>3, <1>4, <1>5, <1>7, <1>9, <2>1 DEF GoodSlots, w
<1>12. GoodCount(num_starts, count, t)
  <2>1. (SlotsOf(num_starts, t) \div t.w) * t.r = count
    BY <1>5, <1>9 DEF count, w, r
  <2>2. count <= UsizeMax /\ count < U64
    BY <1>2, <1>3, <1>4, <1>6
  <2> QED BY <2>1, <2>2 DEF GoodCount
<1>13. count * t.elem <= UsizeMax
  <2>1. len <= UsizeMax
    BY <1>2, <1>4, <1>6
  <2> QED BY <2>1 DEF len, e
<1>14. GoodGeometry(num_starts, count, t)
  BY <1>4, <1>10, <1>11, <1>12, <1>13 DEF GoodGeometry
<1> QED BY <1>14 DEF num_starts, count, slots, w, r

LEMMA SizeFits ==
  ASSUME NEW t \in TableTypes, NEW keys \in 0 .. MaxKeys
  PROVE  LET slots == num_slots_for(keys, t)
         IN  /\ keys <= slots
             /\ slots * 4 * t.w
                  <= (keys * (4 * t.w + 16 + t.r) * 65) \div 64 + 2 * t.w * 4 * t.w
             /\ slots % t.w = 0
             /\ GoodGeometry(slots - t.w + 1, (slots \div t.w) * t.r, t)
<1> DEFINE w == t.w
           raw == Raw(keys, t)
           slots == num_slots_for(keys, t)
           a == 4 * w + 16 + t.r
<1>1. t \in Types /\ w <= 128 /\ w \in Nat \ {0} /\ t.r \in Nat \ {0} /\ keys \in Nat
  BY TableTypesAssumption, KeysAssumption DEF Types
<1>2. raw \in Nat /\ keys <= raw /\ 64 * (raw * (4 * w)) <= 65 * (keys * a)
  BY <1>1, RawBounds
<1>3. slots = RoundUpNumSlots(raw, w)
  BY DEF num_slots_for
<1> HIDE DEF raw, slots
<1>4. PICK blocks \in Nat \ {0, 1} : slots = blocks * w /\ raw <= slots
  <2> HIDE DEF w
  <2> QED BY <1>1, <1>2, <1>3, SlotsAreWholeBlocks
<1>5. slots <= raw + 2 * w /\ slots \in Nat
  <2> HIDE DEF w
  <2>1. slots <= raw + 2 * w
    BY <1>1, <1>2, <1>3, RoundingUpIsClose
  <2>2. blocks * w \in Nat
    BY <1>1, <1>4
  <2> QED BY <1>4, <2>1, <2>2
<1>6. slots \div w = blocks /\ slots % w = 0
  <2> HIDE DEF w
  <2>1. blocks * w + 0 = slots /\ 0 \in 0 .. w - 1
    BY <1>1, <1>4, <1>5
  <2>2. (blocks * w + 0) \div w = blocks /\ (blocks * w + 0) % w = 0
    BY <1>1, <2>1, DivisionIsUnique
  <2> QED BY <2>1, <2>2
<1>7. GoodGeometry(slots - w + 1, (slots \div w) * t.r, t)
  <2>1. /\ UsizeMax < U64 /\ slots <= UsizeMax
        /\ HeaderLen + (slots \div t.w) * t.r * t.elem + ChecksumLen <= UsizeMax
    BY RoomAssumption DEF slots
  <2>2. blocks * t.w <= UsizeMax
    BY <1>4, <2>1
  <2>3. HeaderLen + (blocks * t.r) * t.elem + ChecksumLen <= UsizeMax
    BY <1>6, <2>1
  <2>4. GoodGeometry(blocks * t.w - t.w + 1, blocks * t.r, t)
    BY <1>1, <2>1, <2>2, <2>3, WholeBlocksAreGood
  <2> QED BY <1>4, <1>6, <2>4
<1>8. slots * 4 * w <= (keys * a * 65) \div 64 + 2 * w * 4 * w
  <2> HIDE DEF w
  <2> DEFINE v == 4 * w
             ka == keys * a
             rv == raw * v
             ww == (2 * w) * v
  <2>1. v \in Nat /\ a \in Nat
    BY <1>1 DEF w
  <2> HIDE DEF v, a
  <2>2. ka \in Nat /\ rv \in Nat /\ ww \in Nat /\ 64 * rv <= 65 * ka
    BY <1>1, <1>2, <2>1 DEF v
  <2>3. slots * v <= (raw + 2 * w) * v /\ (raw + 2 * w) * v = rv + ww
    BY <1>1, <1>2, <1>5, <2>1, MultipleMonotone
  <2>4. slots * v = slots * 4 * w /\ ww = 2 * w * 4 * w
    BY <1>1, <1>5 DEF v
  <2> HIDE DEF ka, rv, ww
  <2>5. rv <= (ka * 65) \div 64
    BY <2>2
  <2>6. slots * v \in Nat
    BY <1>5, <2>1
  <2>7. slots * v <= (ka * 65) \div 64 + ww
    BY <2>2, <2>3, <2>5, <2>6
  <2> QED BY <2>4, <2>7 DEF ka
<1>9. keys <= slots
  BY <1>1, <1>2, <1>4, <1>5
<1> QED BY <1>6, <1>7, <1>8, <1>9 DEF slots

SizeInv ==
  /\ type \in TableTypes
  /\ n \in 0 .. MaxKeys
  /\ num_slots = num_slots_for(n, type)

LEMMA SizeInvariant == SizeSpec => []SizeInv
<1>1. SizeInit => SizeInv
  BY KeysAssumption DEF SizeInit, SizeInv
<1>2. SizeInv /\ [Rebuild]_sizeVars => SizeInv'
  <2> SUFFICES ASSUME SizeInv, [Rebuild]_sizeVars PROVE SizeInv'
    OBVIOUS
  <2>1. CASE Rebuild
    <3>1. n' \in 0 .. MaxKeys
      BY <2>1, KeysAssumption DEF SizeInv, Rebuild
    <3>2. type' = type /\ num_slots' = num_slots_for(n', type')
      BY <2>1 DEF Rebuild
    <3> QED BY <3>1, <3>2 DEF SizeInv
  <2>2. CASE UNCHANGED sizeVars
    BY <2>2 DEF SizeInv, sizeVars
  <2> QED BY <2>1, <2>2
<1> QED BY <1>1, <1>2, PTL DEF SizeSpec

(* Every table has a slot for each of its keys and no more than two blocks *)
(* and a 64th beside the overhead, and its geometry is one that decode     *)
(* accepts: for floats of any precision from eight bits on, however many   *)
(* keys there are and through every rounding of the product.               *)
THEOREM TablesFit == SizeSpec => []TableFits
<1>1. SizeInv => TableFits
  <2> SUFFICES ASSUME SizeInv PROVE TableFits
    OBVIOUS
  <2> QED BY SizeFits DEF SizeInv, TableFits
<1> QED BY <1>1, SizeInvariant, PTL
-----------------------------------------------------------------------------
(* Bytes and numbers                                                       *)

Word64 == 0 .. U64 - 1

LEMMA Machine ==
  /\ Base \in Nat \ {0, 1} /\ WordLen \in Nat \ {0} /\ WordBits \in Nat
  /\ U64 \in Nat \ {0} /\ UsizeMax < U64 /\ U64 = Power(Base, WordLen) /\ U64 = Power(2, WordBits)
  /\ HeaderLen = 4 + 3 * WordLen /\ ChecksumLen = WordLen /\ UsizeMax \in Nat
  /\ FnvOffset \in Word64 /\ FnvPrime \in Nat /\ FnvPrime % 2 = 1
BY MachineAssumption, WidthAssumption DEF Word64

(* g[m] is the number that the first m bytes encode.                       *)
AreValues(g, bytes) ==
  /\ g \in [0 .. Len(bytes) -> Nat]
  /\ g[0] = 0
  /\ \A m \in 1 .. Len(bytes) : g[m] = g[m - 1] + bytes[m] * Power(Base, m - 1)

LEMMA ValuesUnrolled ==
  ASSUME NEW bytes \in Seq(Byte)
  PROVE  \E g : AreValues(g, bytes) /\ from_le_bytes(bytes) = g[Len(bytes)]
<1> DEFINE N == Len(bytes)
           Body(i, v) == v + bytes[i] * Power(Base, i - 1)
           F == [x \in (1 .. N) \X Nat |-> Body(x[1], x[2])]
           Step(h) == [p \in 0 .. N |-> IF p = 0 THEN 0 ELSE Body(p, h[p - 1])]
           f == CHOOSE h : h = Step(h)
<1>0. N \in Nat
  OBVIOUS
<1>1. 0 \in Nat /\ \A m \in 1 .. N : \A v \in Nat : Body(m, v) \in Nat
  <2> SUFFICES ASSUME NEW m \in 1 .. N, NEW v \in Nat
               PROVE  v + bytes[m] * Power(Base, m - 1) \in Nat
    OBVIOUS
  <2>1. bytes[m] \in Nat
    BY Machine DEF Byte
  <2>2. Base \in Nat /\ m - 1 \in Nat
    BY Machine
  <2>3. Power(Base, m - 1) \in Nat
    BY <2>2, PowerType
  <2> QED BY <2>1, <2>3
<1>2. from_le_bytes(bytes) = f[Len(bytes)]
  BY DEF from_le_bytes
<1> HIDE DEF N, Body
<1>3. /\ \A h, m : m \in 0 .. N => Step(h)[m] = IF m = 0 THEN 0 ELSE Body(m, h[m - 1])
      /\ \A h : Step(h) = [m \in 0 .. N |-> Step(h)[m]]
  OBVIOUS
<1>4. F \in [(1 .. N) \X Nat -> Nat]
      /\ \A m \in 1 .. N : \A v \in Nat : F[<<m, v>>] = Body(m, v)
  BY <1>1
<1> HIDE DEF F, Step, f
<1>5. HasUnrolling(N, Nat, 0, F)
  BY <1>0, <1>1, <1>4, RecursionExists
<1>6. PICK g \in [0 .. N -> Nat] : Unrolls(g, N, 0, F)
  BY <1>5 DEF HasUnrolling
<1>7. g = Step(g)
  <2> SUFFICES ASSUME NEW m \in 0 .. N PROVE g[m] = Step(g)[m]
    BY <1>3, <1>6
  <2>1. m # 0 => m \in 1 .. N /\ m - 1 \in 0 .. N
    BY <1>0
  <2>2. g[m] = IF m = 0 THEN 0 ELSE F[<<m, g[m - 1]>>]
    BY <1>6 DEF Unrolls
  <2>3. Step(g)[m] = IF m = 0 THEN 0 ELSE Body(m, g[m - 1])
    BY <1>3
  <2>4. CASE m = 0
    BY <2>2, <2>3, <2>4
  <2>5. CASE m # 0
    <3>1. m \in 1 .. N /\ g[m - 1] \in Nat
      BY <1>6, <2>1, <2>5
    <3> QED BY <1>4, <2>2, <2>3, <2>5, <3>1
  <2> QED BY <2>4, <2>5
<1>8. f = Step(f)
  BY <1>7 DEF f
<1>9. f[0] = 0 /\ \A m \in 1 .. N : f[m] = Body(m, f[m - 1])
  <2> SUFFICES ASSUME NEW m \in 0 .. N
               PROVE  f[m] = IF m = 0 THEN 0 ELSE Body(m, f[m - 1])
    BY <1>0
  <2> QED BY <1>3, <1>8
<1>10. {m \in 0 .. N : f[m] \in Nat} = 0 .. N
  <2> DEFINE S == {m \in 0 .. N : f[m] \in Nat}
  <2>1. 0 \in S /\ S \in SUBSET (0 .. N)
    BY <1>0, <1>1, <1>9
  <2>2. ASSUME NEW m \in 0 .. N - 1, m \in S PROVE m + 1 \in S
    <3>1. m + 1 \in 1 .. N /\ m + 1 \in 0 .. N /\ (m + 1) - 1 = m
      BY <1>0
    <3>2. f[m + 1] = Body(m + 1, f[m])
      BY <1>9, <3>1
    <3> QED BY <1>1, <2>2, <3>1, <3>2
  <2> HIDE DEF S
  <2>3. S = 0 .. N
    BY <1>0, <2>1, <2>2, Ascent
  <2> QED BY <2>3 DEF S
<1>11. AreValues(f, bytes)
  <2>1. \A m \in 0 .. N : f[m] \in Nat
    BY <1>10
  <2>2. f \in [0 .. N -> Nat]
    BY <1>3, <1>8, <2>1
  <2> QED BY <1>9, <2>2 DEF AreValues, N, Body
<1> QED BY <1>2, <1>11

(* g[i] are the i lowest bits of the exclusive or of a and b.              *)
AreLowBits(g, a, b) ==
  /\ g \in [0 .. WordBits -> Nat]
  /\ g[0] = 0
  /\ \A i \in 1 .. WordBits :
       g[i] = g[i - 1] + ((Bit(a, i - 1) + Bit(b, i - 1)) % 2) * Power(2, i - 1)

LEMMA BitType ==
  ASSUME NEW a \in Nat, NEW i \in Nat
  PROVE  Bit(a, i) \in {0, 1}
<1>1. Power(2, i) \in Nat \ {0}
  BY PowerGrows
<1> DEFINE q == a \div Power(2, i)
<1>2. q \in Nat
  BY <1>1, Division
<1> HIDE DEF q
<1>3. q % 2 \in {0, 1}
  BY <1>2
<1> QED BY <1>3 DEF Bit, q

LEMMA XorUnrolled ==
  ASSUME NEW a \in Word64, NEW b \in Byte
  PROVE  \E g : AreLowBits(g, a, b) /\ Xor[a][b] = g[WordBits]
<1> DEFINE N == WordBits
           Body(i, v) == v + ((Bit(a, i - 1) + Bit(b, i - 1)) % 2) * Power(2, i - 1)
           F == [x \in (1 .. N) \X Nat |-> Body(x[1], x[2])]
           Step(h) == [p \in 0 .. N |-> IF p = 0 THEN 0 ELSE Body(p, h[p - 1])]
           f == CHOOSE h : h = Step(h)
<1>0. N \in Nat
  BY Machine
<1>1. 0 \in Nat /\ \A m \in 1 .. N : \A v \in Nat : Body(m, v) \in Nat
  <2>1. a \in Nat /\ b \in Nat
    BY Machine DEF Word64, Byte
  <2> SUFFICES ASSUME NEW m \in 1 .. N, NEW v \in Nat
               PROVE  v + ((Bit(a, m - 1) + Bit(b, m - 1)) % 2) * Power(2, m - 1) \in Nat
    OBVIOUS
  <2>2. m - 1 \in Nat
    BY <2>1
  <2>3. Power(2, m - 1) \in Nat /\ Bit(a, m - 1) \in {0, 1} /\ Bit(b, m - 1) \in {0, 1}
    BY <2>1, <2>2, PowerType, BitType
  <2>4. (Bit(a, m - 1) + Bit(b, m - 1)) % 2 \in {0, 1}
    BY <2>3
  <2> QED BY <2>3, <2>4
<1>2. Xor[a][b] = f[WordBits]
  BY DEF Xor, Word64
<1> HIDE DEF N, Body
<1>3. /\ \A h, m : m \in 0 .. N => Step(h)[m] = IF m = 0 THEN 0 ELSE Body(m, h[m - 1])
      /\ \A h : Step(h) = [m \in 0 .. N |-> Step(h)[m]]
  OBVIOUS
<1>4. F \in [(1 .. N) \X Nat -> Nat]
      /\ \A m \in 1 .. N : \A v \in Nat : F[<<m, v>>] = Body(m, v)
  BY <1>1
<1> HIDE DEF F, Step, f
<1>5. HasUnrolling(N, Nat, 0, F)
  BY <1>0, <1>1, <1>4, RecursionExists
<1>6. PICK g \in [0 .. N -> Nat] : Unrolls(g, N, 0, F)
  BY <1>5 DEF HasUnrolling
<1>7. g = Step(g)
  <2> SUFFICES ASSUME NEW m \in 0 .. N PROVE g[m] = Step(g)[m]
    BY <1>3, <1>6
  <2>1. m # 0 => m \in 1 .. N /\ m - 1 \in 0 .. N
    BY <1>0
  <2>2. g[m] = IF m = 0 THEN 0 ELSE F[<<m, g[m - 1]>>]
    BY <1>6 DEF Unrolls
  <2>3. Step(g)[m] = IF m = 0 THEN 0 ELSE Body(m, g[m - 1])
    BY <1>3
  <2>4. CASE m = 0
    BY <2>2, <2>3, <2>4
  <2>5. CASE m # 0
    <3>1. m \in 1 .. N /\ g[m - 1] \in Nat
      BY <1>6, <2>1, <2>5
    <3> QED BY <1>4, <2>2, <2>3, <2>5, <3>1
  <2> QED BY <2>4, <2>5
<1>8. f = Step(f)
  BY <1>7 DEF f
<1>9. f[0] = 0 /\ \A m \in 1 .. N : f[m] = Body(m, f[m - 1])
  <2> SUFFICES ASSUME NEW m \in 0 .. N
               PROVE  f[m] = IF m = 0 THEN 0 ELSE Body(m, f[m - 1])
    BY <1>0
  <2> QED BY <1>3, <1>8
<1>10. {m \in 0 .. N : f[m] \in Nat} = 0 .. N
  <2> DEFINE S == {m \in 0 .. N : f[m] \in Nat}
  <2>1. 0 \in S /\ S \in SUBSET (0 .. N)
    BY <1>0, <1>1, <1>9
  <2>2. ASSUME NEW m \in 0 .. N - 1, m \in S PROVE m + 1 \in S
    <3>1. m + 1 \in 1 .. N /\ m + 1 \in 0 .. N /\ (m + 1) - 1 = m
      BY <1>0
    <3>2. f[m + 1] = Body(m + 1, f[m])
      BY <1>9, <3>1
    <3> QED BY <1>1, <2>2, <3>1, <3>2
  <2> HIDE DEF S
  <2>3. S = 0 .. N
    BY <1>0, <2>1, <2>2, Ascent
  <2> QED BY <2>3 DEF S
<1>11. AreLowBits(f, a, b)
  <2>1. \A m \in 0 .. N : f[m] \in Nat
    BY <1>10
  <2>2. f \in [0 .. N -> Nat]
    BY <1>3, <1>8, <2>1
  <2> QED BY <1>9, <2>2 DEF AreLowBits, N, Body
<1> QED BY <1>2, <1>11

LEMMA Word64Type ==
  ASSUME NEW a \in Word64
  PROVE  a \in Nat /\ a < U64
BY Machine DEF Word64

LEMMA ByteType ==
  ASSUME NEW b \in Byte
  PROVE  b \in Nat /\ b < Base /\ b \in Word64
<1>1. b \in Nat /\ b < Base
  BY Machine DEF Byte
<1>2. Base <= U64
  <2>1. Power(Base, 0 + 1) = Base * Power(Base, 0) /\ Power(Base, 0) = 1
    BY Machine, PowerRecursion
  <2>2. Power(Base, 1) = Base
    BY <2>1, Machine
  <2>3. Power(Base, 1) <= Power(Base, WordLen)
    <3>1. 1 <= WordLen /\ WordLen \in Nat /\ Base \in Nat \ {0, 1}
      BY Machine
    <3> QED BY <3>1, PowersMonotone
  <2> QED BY <2>2, <2>3, Machine
<1> QED BY <1>1, <1>2, Machine DEF Word64

LEMMA FromLeType ==
  ASSUME NEW bytes \in Seq(Byte)
  PROVE  from_le_bytes(bytes) \in Nat
<1>1. PICK g : AreValues(g, bytes) /\ from_le_bytes(bytes) = g[Len(bytes)]
  BY ValuesUnrolled
<1> QED BY <1>1 DEF AreValues

LEMMA ToLeType ==
  ASSUME NEW x \in Nat, NEW len \in Nat
  PROVE  /\ to_le_bytes(x, len) \in Seq(Byte)
         /\ Len(to_le_bytes(x, len)) = len
         /\ \A m \in 1 .. len : to_le_bytes(x, len)[m] = (x \div Power(Base, m - 1)) % Base
<1>1. ASSUME NEW m \in 1 .. len PROVE (x \div Power(Base, m - 1)) % Base \in Byte
  <2>1. Power(Base, m - 1) \in Nat \ {0}
    <3>1. Base \in Nat \ {0, 1} /\ m - 1 \in Nat
      BY Machine
    <3> QED BY <3>1, PowerGrows
  <2>2. x \div Power(Base, m - 1) \in Nat
    BY <2>1, Division
  <2> DEFINE q == x \div Power(Base, m - 1)
  <2> HIDE DEF q
  <2>3. q % Base \in 0 .. Base - 1
    BY <2>2, Machine, Division DEF q
  <2> QED BY <2>3 DEF q, Byte
<1> QED BY <1>1 DEF to_le_bytes

(* from_le_bytes undoes to_le_bytes, of a number that fits.                *)
LEMMA FromToLe ==
  ASSUME NEW len \in Nat, NEW x \in Nat, x < Power(Base, len)
  PROVE  from_le_bytes(to_le_bytes(x, len)) = x
<1> DEFINE bytes == to_le_bytes(x, len)
<1>1. /\ bytes \in Seq(Byte) /\ Len(bytes) = len
      /\ \A m \in 1 .. len : bytes[m] = (x \div Power(Base, m - 1)) % Base
  BY ToLeType
<1> HIDE DEF bytes
<1>2. PICK g : AreValues(g, bytes) /\ from_le_bytes(bytes) = g[len]
  BY <1>1, ValuesUnrolled
<1> DEFINE S == {m \in 0 .. len : g[m] = x % Power(Base, m)}
<1>3. 0 \in S /\ S \in SUBSET (0 .. len)
  <2>1. Power(Base, 0) = 1 /\ x % 1 = 0
    BY Machine, PowerRecursion
  <2> QED BY <1>2, <2>1 DEF AreValues
<1>4. ASSUME NEW m \in 0 .. len - 1, m \in S PROVE m + 1 \in S
  <2>1. m + 1 \in 1 .. len /\ (m + 1) - 1 = m /\ m \in Nat
    OBVIOUS
  <2>2. g[m + 1] = g[m] + bytes[m + 1] * Power(Base, m)
    BY <1>1, <1>2, <2>1 DEF AreValues
  <2>3. bytes[m + 1] = (x \div Power(Base, m)) % Base
    BY <1>1, <2>1
  <2>4. x % Power(Base, m + 1)
          = (x % Power(Base, m)) + ((x \div Power(Base, m)) % Base) * Power(Base, m)
    BY <2>1, Machine, NextDigit
  <2> QED BY <1>4, <2>2, <2>3, <2>4
<1>5. g[len] = x % Power(Base, len)
  <2> HIDE DEF S
  <2>1. len \in S
    BY <1>3, <1>4, Ascent
  <2> QED BY <2>1 DEF S
<1>6. x % Power(Base, len) = x
  <2> DEFINE p == Power(Base, len)
  <2>1. p \in Nat \ {0} /\ x < p
    BY Machine, PowerGrows
  <2> HIDE DEF p
  <2>2. x % p = x
    BY <2>1
  <2> QED BY <2>2 DEF p
<1> QED BY <1>2, <1>5, <1>6 DEF bytes

(* t is s with another value at place p.                                   *)
ChangedAt(s, t, p) ==
  /\ Len(t) = Len(s)
  /\ p \in 1 .. Len(s)
  /\ t[p] # s[p]
  /\ \A m \in 1 .. Len(s) : m # p => t[m] = s[m]

(* Numbers that differ in one byte are different.                          *)
LEMMA FromLeChanged ==
  ASSUME NEW s \in Seq(Byte), NEW t \in Seq(Byte), NEW p, ChangedAt(s, t, p)
  PROVE  from_le_bytes(s) # from_le_bytes(t)
<1> DEFINE N == Len(s)
<1>1. N \in Nat /\ Len(t) = N /\ p \in 1 .. N
  BY DEF ChangedAt
<1>2. PICK f : AreValues(f, s) /\ from_le_bytes(s) = f[N]
  BY ValuesUnrolled
<1>3. PICK g : AreValues(g, t) /\ from_le_bytes(t) = g[N]
  BY <1>1, ValuesUnrolled
<1> HIDE DEF N
<1>4. \A m \in 0 .. N : f[m] \in Nat /\ g[m] \in Nat
  BY <1>1, <1>2, <1>3 DEF AreValues, N
<1>5. ASSUME NEW m \in 1 .. N
      PROVE  /\ f[m] = f[m - 1] + s[m] * Power(Base, m - 1)
             /\ g[m] = g[m - 1] + t[m] * Power(Base, m - 1)
             /\ s[m] \in Nat /\ t[m] \in Nat
             /\ Power(Base, m - 1) \in Nat \ {0}
  <2>1. m - 1 \in Nat /\ m \in 1 .. Len(s) /\ m \in 1 .. Len(t)
    BY <1>1 DEF N
  <2>2. s[m] \in Nat /\ t[m] \in Nat
    BY <2>1, ByteType
  <2>3. Power(Base, m - 1) \in Nat \ {0}
    <3>1. Base \in Nat \ {0, 1}
      BY Machine
    <3> QED BY <2>1, <3>1, PowerGrows
  <2> QED BY <1>2, <1>3, <2>1, <2>2, <2>3 DEF AreValues
<1> DEFINE S == {m \in 0 .. N : f[m] = g[m] <=> m < p}
<1>6. 0 \in S /\ S \in SUBSET (0 .. N)
  BY <1>1, <1>2, <1>3 DEF AreValues
<1>7. ASSUME NEW m \in 0 .. N - 1, m \in S PROVE m + 1 \in S
  <2> DEFINE u == Power(Base, m)
             c == s[m + 1]
             d == t[m + 1]
  <2>1. m + 1 \in 1 .. N /\ (m + 1) - 1 = m /\ m \in Nat
    BY <1>1
  <2>2. /\ f[m + 1] = f[m] + c * u /\ g[m + 1] = g[m] + d * u
        /\ c \in Nat /\ d \in Nat /\ u \in Nat \ {0} /\ f[m] \in Nat /\ g[m] \in Nat
    <3> DEFINE k == m + 1
    <3>1. k \in 1 .. N /\ k - 1 = m /\ m \in 0 .. N
      BY <1>1, <2>1
    <3>2. f[m] \in Nat /\ g[m] \in Nat
      BY <1>4, <3>1
    <3> HIDE DEF k
    <3>3. /\ f[k] = f[m] + s[k] * Power(Base, m) /\ g[k] = g[m] + t[k] * Power(Base, m)
          /\ s[k] \in Nat /\ t[k] \in Nat /\ Power(Base, m) \in Nat \ {0}
      BY <1>5, <3>1
    <3> QED BY <3>2, <3>3 DEF k
  <2>3. (c = d <=> m + 1 # p) /\ (f[m] = g[m] <=> m < p)
    BY <1>7, <2>1 DEF ChangedAt, N
  <2> HIDE DEF u, c, d
  <2>4. CASE m + 1 # p
    <3>1. c * u = d * u /\ c * u \in Nat
      BY <2>2, <2>3, <2>4
    <3>2. f[m + 1] = g[m + 1] <=> m + 1 < p
      BY <1>1, <2>1, <2>2, <2>3, <2>4, <3>1
    <3> QED BY <2>1, <3>2
  <2>5. CASE m + 1 = p
    <3>1. f[m] = g[m] /\ c # d
      BY <1>1, <2>1, <2>3, <2>5
    <3>2. c * u # d * u /\ c * u \in Nat /\ d * u \in Nat
      <4>1. c < d \/ d < c
        BY <2>2, <3>1
      <4>2. c < d => (c + 1) * u <= d * u
        BY <2>2, MultipleMonotone
      <4>3. d < c => (d + 1) * u <= c * u
        BY <2>2, MultipleMonotone
      <4>4. /\ (c + 1) * u = c * u + u /\ (d + 1) * u = d * u + u
            /\ c * u \in Nat /\ d * u \in Nat
        BY <2>2
      <4> QED BY <2>2, <4>1, <4>2, <4>3, <4>4
    <3>3. f[m + 1] # g[m + 1]
      BY <2>2, <3>1, <3>2
    <3> QED BY <2>1, <2>5, <3>3
  <2> QED BY <2>4, <2>5
<1>8. N \in S
  <2> HIDE DEF S
  <2>1. \A m \in 0 .. N - 1 : m \in S => m + 1 \in S
    BY <1>7
  <2>2. S = 0 .. N
    BY <1>1, <1>6, <2>1, Ascent
  <2> QED BY <1>1, <2>2
<1>9. f[N] # g[N]
  BY <1>1, <1>8
<1> QED BY <1>2, <1>3, <1>9

-----------------------------------------------------------------------------
(* The exclusive or                                                        *)

LEMMA LowBitsBounded ==
  ASSUME NEW a \in Nat, NEW b \in Nat, NEW g, AreLowBits(g, a, b)
  PROVE  \A i \in 0 .. WordBits : g[i] \in 0 .. Power(2, i) - 1
<1>1. WordBits \in Nat
  BY Machine
<1> DEFINE S == {i \in 0 .. WordBits : g[i] \in 0 .. Power(2, i) - 1}
<1>2. 0 \in S /\ S \in SUBSET (0 .. WordBits)
  <2>1. Power(2, 0) = 1 /\ g[0] = 0
    BY PowerRecursion DEF AreLowBits
  <2> QED BY <1>1, <2>1
<1>3. ASSUME NEW i \in 0 .. WordBits - 1, i \in S PROVE i + 1 \in S
  <2> DEFINE u == Power(2, i)
             d == (Bit(a, i) + Bit(b, i)) % 2
  <2>1. i \in Nat /\ i + 1 \in 1 .. WordBits /\ (i + 1) - 1 = i
    BY <1>1
  <2>2. Bit(a, i) \in {0, 1} /\ Bit(b, i) \in {0, 1}
    BY <2>1, BitType
  <2>3. d \in {0, 1}
    BY <2>2
  <2>4. g[i + 1] = g[i] + d * u
    BY <2>1 DEF AreLowBits
  <2>5. u \in Nat /\ Power(2, i + 1) = 2 * u /\ g[i] \in 0 .. u - 1
    BY <1>3, <2>1, PowerType, PowerRecursion
  <2> HIDE DEF d, u
  <2>6. g[i + 1] \in 0 .. 2 * u - 1
    BY <2>3, <2>4, <2>5
  <2> QED BY <2>1, <2>5, <2>6
<1>4. S = 0 .. WordBits
  <2> HIDE DEF S
  <2> QED BY <1>1, <1>2, <1>3, Ascent
<1> QED BY <1>4

LEMMA XorType ==
  ASSUME NEW a \in Word64, NEW b \in Byte
  PROVE  Xor[a][b] \in Word64
<1>1. PICK g : AreLowBits(g, a, b) /\ Xor[a][b] = g[WordBits]
  BY XorUnrolled
<1>2. a \in Nat /\ b \in Nat /\ WordBits \in Nat /\ U64 = Power(2, WordBits)
  BY Machine, Word64Type, ByteType
<1>3. g[WordBits] \in 0 .. Power(2, WordBits) - 1
  BY <1>1, <1>2, LowBitsBounded
<1> QED BY <1>1, <1>2, <1>3 DEF Word64

(* Words whose exclusive or with the same byte, or whose exclusive or with *)
(* different bytes, is the same have the same bits.  Stated of low bits:   *)
(* if those of a and b are those of c and d, and one of a = c and b = d    *)
(* holds bit by bit, the other does.                                       *)
LEMMA SumOfBits ==
  ASSUME NEW x \in {0, 1}, NEW y \in {0, 1}, NEW z \in {0, 1},
         (x + z) % 2 = (y + z) % 2 \/ (z + x) % 2 = (z + y) % 2
  PROVE  x = y
OBVIOUS

LEMMA OneDigit ==
  ASSUME NEW u \in Nat, NEW x \in 0 .. u - 1, NEW y \in 0 .. u - 1,
         NEW d \in {0, 1}, NEW e \in {0, 1}, x + d * u = y + e * u
  PROVE  d = e /\ x = y
<1>1. CASE d = e
  BY <1>1
<1>2. CASE d = 0 /\ e = 1
  BY <1>2
<1>3. CASE d = 1 /\ e = 0
  BY <1>3
<1> QED BY <1>1, <1>2, <1>3

LEMMA LowBitsAgree ==
  ASSUME NEW a \in Nat, NEW b \in Nat, NEW c \in Nat, NEW d \in Nat,
         NEW f, AreLowBits(f, a, b), NEW g, AreLowBits(g, c, d),
         f[WordBits] = g[WordBits]
  PROVE  \A i \in 0 .. WordBits - 1 :
           (Bit(a, i) + Bit(b, i)) % 2 = (Bit(c, i) + Bit(d, i)) % 2
<1>1. WordBits \in Nat
  BY Machine
<1> DEFINE D(i) == (Bit(a, i) + Bit(b, i)) % 2
           E(i) == (Bit(c, i) + Bit(d, i)) % 2
<1>2. ASSUME NEW i \in 0 .. WordBits - 1
      PROVE  /\ D(i) \in {0, 1} /\ E(i) \in {0, 1}
             /\ Power(2, i) \in Nat
             /\ f[i] \in 0 .. Power(2, i) - 1 /\ g[i] \in 0 .. Power(2, i) - 1
             /\ f[i + 1] = f[i] + D(i) * Power(2, i)
             /\ g[i + 1] = g[i] + E(i) * Power(2, i)
  <2>1. i \in Nat /\ i \in 0 .. WordBits /\ i + 1 \in 1 .. WordBits /\ (i + 1) - 1 = i
    BY <1>1
  <2>2. /\ Bit(a, i) \in {0, 1} /\ Bit(b, i) \in {0, 1}
        /\ Bit(c, i) \in {0, 1} /\ Bit(d, i) \in {0, 1}
    BY <2>1, BitType
  <2>3. D(i) \in {0, 1} /\ E(i) \in {0, 1}
    BY <2>2
  <2>4. Power(2, i) \in Nat
    BY <2>1, PowerType
  <2>5. f[i] \in 0 .. Power(2, i) - 1 /\ g[i] \in 0 .. Power(2, i) - 1
    BY <2>1, LowBitsBounded
  <2> DEFINE k == i + 1
  <2>6. k \in 1 .. WordBits /\ k - 1 = i
    BY <2>1
  <2> HIDE DEF k
  <2>7. f[k] = f[i] + D(i) * Power(2, i) /\ g[k] = g[i] + E(i) * Power(2, i)
    BY <2>6 DEF AreLowBits
  <2> QED BY <2>3, <2>4, <2>5, <2>7 DEF k
<1> HIDE DEF D, E
<1> DEFINE S == {j \in 0 .. WordBits :
                   f[WordBits - j] = g[WordBits - j]
                     /\ \A i \in WordBits - j .. WordBits - 1 : D(i) = E(i)}
<1>3. 0 \in S /\ S \in SUBSET (0 .. WordBits)
  BY <1>1
<1>4. ASSUME NEW j \in 0 .. WordBits - 1, j \in S PROVE j + 1 \in S
  <2> DEFINE i == WordBits - (j + 1)
             u == Power(2, i)
  <2>1. i \in 0 .. WordBits - 1 /\ i + 1 = WordBits - j
    BY <1>1
  <2>2. f[i + 1] = g[i + 1] /\ \A k \in i + 1 .. WordBits - 1 : D(k) = E(k)
    BY <1>4, <2>1
  <2> HIDE DEF i
  <2>3. /\ D(i) \in {0, 1} /\ E(i) \in {0, 1} /\ u \in Nat
        /\ f[i] \in 0 .. u - 1 /\ g[i] \in 0 .. u - 1
        /\ f[i + 1] = f[i] + D(i) * u
        /\ g[i + 1] = g[i] + E(i) * u
    BY <1>2, <2>1
  <2> HIDE DEF u
  <2>4. D(i) = E(i) /\ f[i] = g[i]
    <3> DEFINE x == f[i]
               y == g[i]
    <3>1. x + D(i) * u = y + E(i) * u /\ x \in 0 .. u - 1 /\ y \in 0 .. u - 1
      BY <2>2, <2>3
    <3> HIDE DEF x, y
    <3>2. D(i) = E(i) /\ x = y
      BY <2>3, <3>1, OneDigit
    <3> QED BY <3>2 DEF x, y
  <2>5. \A k \in i .. WordBits - 1 : D(k) = E(k)
    <3> SUFFICES ASSUME NEW k \in i .. WordBits - 1 PROVE D(k) = E(k)
      OBVIOUS
    <3>1. k = i \/ k \in i + 1 .. WordBits - 1
      BY <1>1, <2>1
    <3> QED BY <2>2, <2>4, <3>1
  <2> QED BY <1>1, <2>4, <2>5 DEF i
<1>5. WordBits \in S
  <2> HIDE DEF S
  <2> QED BY <1>1, <1>3, <1>4, Ascent
<1>6. \A i \in 0 .. WordBits - 1 : D(i) = E(i)
  BY <1>1, <1>5
<1> QED BY <1>6 DEF D, E

(* A number that fits a word is its bits.                                  *)
LEMMA WordIsItsBits ==
  ASSUME NEW x \in Word64, NEW y \in Word64,
         \A i \in 0 .. WordBits - 1 : Bit(x, i) = Bit(y, i)
  PROVE  x = y
<1>1. /\ x \in Nat /\ y \in Nat /\ x < U64 /\ y < U64
      /\ WordBits \in Nat /\ U64 = Power(2, WordBits) /\ U64 \in Nat \ {0}
  BY Machine, Word64Type
<1> DEFINE S == {i \in 0 .. WordBits : x % Power(2, i) = y % Power(2, i)}
<1>2. 0 \in S /\ S \in SUBSET (0 .. WordBits)
  <2>1. Power(2, 0) = 1 /\ x % 1 = 0 /\ y % 1 = 0
    BY <1>1, PowerRecursion
  <2> QED BY <1>1, <2>1
<1>3. ASSUME NEW i \in 0 .. WordBits - 1, i \in S PROVE i + 1 \in S
  <2>1. i \in Nat /\ i + 1 \in 0 .. WordBits
    BY <1>1
  <2>2. /\ x % Power(2, i + 1) = (x % Power(2, i)) + Bit(x, i) * Power(2, i)
        /\ y % Power(2, i + 1) = (y % Power(2, i)) + Bit(y, i) * Power(2, i)
    <3>1. 2 \in Nat \ {0, 1}
      OBVIOUS
    <3>2. x % Power(2, i + 1) = (x % Power(2, i)) + ((x \div Power(2, i)) % 2) * Power(2, i)
      BY <1>1, <2>1, <3>1, NextDigit
    <3>3. y % Power(2, i + 1) = (y % Power(2, i)) + ((y \div Power(2, i)) % 2) * Power(2, i)
      BY <1>1, <2>1, <3>1, NextDigit
    <3> QED BY <3>2, <3>3 DEF Bit
  <2> QED BY <1>3, <2>1, <2>2
<1>4. WordBits \in S
  <2>1. WordBits \in Nat
    BY <1>1
  <2> HIDE DEF S
  <2>2. S = 0 .. WordBits
    BY <1>2, <1>3, <2>1, Ascent
  <2> QED BY <2>1, <2>2
<1>5. x % U64 = y % U64
  BY <1>1, <1>4
<1>6. x % U64 = x /\ y % U64 = y
  BY <1>1
<1> QED BY <1>5, <1>6

LEMMA XorInjective ==
  ASSUME NEW a \in Word64, NEW c \in Word64, NEW b \in Byte, NEW d \in Byte,
         Xor[a][b] = Xor[c][d], a = c \/ b = d
  PROVE  a = c /\ b = d
<1>1. /\ a \in Nat /\ c \in Nat /\ b \in Nat /\ d \in Nat
      /\ b \in Word64 /\ d \in Word64 /\ WordBits \in Nat
  BY Machine, Word64Type, ByteType
<1>2. PICK f : AreLowBits(f, a, b) /\ Xor[a][b] = f[WordBits]
  BY XorUnrolled
<1>3. PICK g : AreLowBits(g, c, d) /\ Xor[c][d] = g[WordBits]
  BY XorUnrolled
<1>4. \A i \in 0 .. WordBits - 1 :
        (Bit(a, i) + Bit(b, i)) % 2 = (Bit(c, i) + Bit(d, i)) % 2
  <2>1. f[WordBits] = g[WordBits]
    BY <1>2, <1>3
  <2> QED BY <1>1, <1>2, <1>3, <2>1, LowBitsAgree
<1>5. ASSUME NEW i \in 0 .. WordBits - 1
      PROVE  /\ Bit(a, i) \in {0, 1} /\ Bit(b, i) \in {0, 1}
             /\ Bit(c, i) \in {0, 1} /\ Bit(d, i) \in {0, 1}
  BY <1>1, BitType
<1>6. CASE a = c
  <2>1. \A i \in 0 .. WordBits - 1 : Bit(b, i) = Bit(d, i)
    BY <1>4, <1>5, <1>6, SumOfBits
  <2> QED BY <1>1, <1>6, <2>1, WordIsItsBits
<1>7. CASE b = d
  <2>1. \A i \in 0 .. WordBits - 1 : Bit(a, i) = Bit(c, i)
    BY <1>4, <1>5, <1>7, SumOfBits
  <2> QED BY <1>1, <1>7, <2>1, WordIsItsBits
<1> QED BY <1>6, <1>7

-----------------------------------------------------------------------------
(* Multiplication by an odd factor                                         *)

(* An odd factor of a multiple of a power of two leaves it in the other.   *)
LEMMA OddFactor ==
  ASSUME NEW odd \in Nat, odd % 2 = 1, NEW k \in Nat
  PROVE  \A e \in Nat : (e * odd) % Power(2, k) = 0 => e % Power(2, k) = 0
<1> DEFINE S == {m \in 0 .. k :
                   \A e \in Nat : (e * odd) % Power(2, m) = 0 => e % Power(2, m) = 0}
<1>1. 0 \in S /\ S \in SUBSET (0 .. k)
  <2>1. Power(2, 0) = 1
    BY PowerRecursion
  <2>2. \A e \in Nat : e % 1 = 0
    OBVIOUS
  <2> QED BY <2>1, <2>2
<1>2. ASSUME NEW m \in 0 .. k - 1, m \in S PROVE m + 1 \in S
  <2> DEFINE u == Power(2, m)
  <2>1. m + 1 \in 0 .. k /\ u \in Nat \ {0} /\ Power(2, m + 1) = 2 * u
    BY PowerGrows, PowerRecursion
  <2>2. \A e \in Nat : (e * odd) % u = 0 => e % u = 0
    BY <1>2
  <2> HIDE DEF u
  <2> SUFFICES ASSUME NEW e \in Nat, (e * odd) % (2 * u) = 0 PROVE e % (2 * u) = 0
    BY <2>1
  <2> DEFINE v == 2 * u
             y == e * odd
             q == y \div v
  <2>3. v \in Nat \ {0} /\ y \in Nat
    BY <2>1
  <2>4. q \in Nat /\ y = q * v + (y % v) /\ q * v \in Nat
    <3> HIDE DEF v, y
    <3> QED BY <2>3, Division
  <2> HIDE DEF q
  <2>5. y = 2 * (q * u) /\ q * u \in Nat
    BY <2>1, <2>4
  <2> DEFINE half == e \div 2
             h == odd \div 2
  <2>6. odd = 2 * h + 1 /\ h \in Nat
    OBVIOUS
  <2>7. e = 2 * half + (e % 2) /\ half \in Nat /\ e % 2 \in {0, 1}
    OBVIOUS
  <2> HIDE DEF half, h
  <2>8. e % 2 = 0
    <3> SUFFICES ASSUME e % 2 = 1 PROVE FALSE
      BY <2>7
    <3>1. e * odd = 2 * (e * h) + e /\ e * h \in Nat
      BY <2>6
    <3> DEFINE x == e * h
               z == q * u
    <3>2. 2 * z = 2 * x + 2 * half + 1 /\ x \in Nat /\ z \in Nat
      BY <2>5, <2>7, <3>1
    <3> HIDE DEF x, z
    <3> QED BY <2>7, <3>2
  <2>9. e = 2 * half
    BY <2>7, <2>8
  <2>10. half * odd = q * u
    <3>1. e * odd = 2 * (half * odd) /\ half * odd \in Nat
      BY <2>7, <2>9
    <3> QED BY <2>5, <3>1
  <2>11. (half * odd) % u = 0
    <3>1. q * u + 0 = half * odd /\ 0 \in 0 .. u - 1
      BY <2>1, <2>5, <2>10
    <3>2. (q * u + 0) % u = 0
      BY <2>1, <2>4, <3>1, DivisionIsUnique
    <3> QED BY <3>1, <3>2
  <2>12. half % u = 0
    BY <2>2, <2>7, <2>11
  <2> DEFINE p == half \div u
  <2>13. p \in Nat /\ half = p * u + 0 /\ p * u \in Nat
    BY <2>1, <2>7, <2>12, Division
  <2> HIDE DEF p
  <2>14. e = p * v + 0 /\ 0 \in 0 .. v - 1
    BY <2>1, <2>9, <2>13
  <2>15. (p * v + 0) % v = 0
    <3> HIDE DEF v
    <3> QED BY <2>3, <2>13, <2>14, DivisionIsUnique
  <2> QED BY <2>14, <2>15
<1>3. k \in S
  <2> HIDE DEF S
  <2> QED BY <1>1, <1>2, Ascent
<1> QED BY <1>3

(* Multiplying by the prime of FNV-1a loses nothing.                       *)
LEMMA PrimeInjective ==
  ASSUME NEW x \in Word64, NEW y \in Word64,
         (x * FnvPrime) % U64 = (y * FnvPrime) % U64
  PROVE  x = y
<1>1. ASSUME NEW lo \in Word64, NEW hi \in Word64, lo <= hi,
             (lo * FnvPrime) % U64 = (hi * FnvPrime) % U64
      PROVE  lo = hi
  <2> DEFINE e == hi - lo
             a == lo * FnvPrime
             b == hi * FnvPrime
  <2>1. e \in Nat /\ lo \in Nat /\ hi \in Nat /\ hi = lo + e /\ e < U64
    <3>1. lo \in Nat /\ lo < U64
      BY Word64Type
    <3>2. hi \in Nat /\ hi < U64 /\ U64 \in Nat
      BY Word64Type, Machine
    <3> QED BY <1>1, <3>1, <3>2
  <2> HIDE DEF e
  <2>2. FnvPrime \in Nat /\ U64 \in Nat \ {0}
    BY Machine
  <2>3. b = a + e * FnvPrime /\ a \in Nat /\ b \in Nat /\ e * FnvPrime \in Nat
    BY <2>1, <2>2
  <2> DEFINE d == e * FnvPrime
             p == a \div U64
             q == b \div U64
  <2> HIDE DEF a, b
  <2>4. /\ p \in Nat /\ p * U64 \in Nat /\ a = p * U64 + (a % U64)
        /\ q \in Nat /\ q * U64 \in Nat /\ b = q * U64 + (b % U64)
        /\ a % U64 = b % U64 /\ a % U64 \in Nat
    <3>1. a % U64 = b % U64
      BY <1>1 DEF a, b
    <3>2. a % U64 \in 0 .. U64 - 1
      BY <2>2, <2>3, Division
    <3>3. p \in Nat /\ p * U64 \in Nat /\ a = p * U64 + (a % U64)
      BY <2>2, <2>3, Division DEF p
    <3>4. q \in Nat /\ q * U64 \in Nat /\ b = q * U64 + (b % U64)
      BY <2>2, <2>3, Division DEF q
    <3> QED BY <3>1, <3>2, <3>3, <3>4
  <2> HIDE DEF d, p, q
  <2>5. d = q * U64 - p * U64 /\ d \in Nat
    BY <2>3, <2>4 DEF d
  <2>6. p <= q
    <3> SUFFICES ASSUME q < p PROVE FALSE
      BY <2>4
    <3>1. (q + 1) * U64 <= p * U64 /\ (q + 1) * U64 = q * U64 + U64
      BY <2>2, <2>4, MultipleMonotone
    <3> QED BY <2>2, <2>4, <2>5, <3>1
  <2>7. d = (q - p) * U64 + 0 /\ q - p \in Nat
    BY <2>2, <2>4, <2>5, <2>6
  <2>8. d % U64 = 0
    <3> DEFINE g == q - p
    <3>1. g \in Nat /\ d = g * U64 + 0 /\ 0 \in 0 .. U64 - 1
      BY <2>2, <2>7
    <3> HIDE DEF g
    <3>2. (g * U64 + 0) % U64 = 0
      BY <2>2, <3>1, DivisionIsUnique
    <3> QED BY <3>1, <3>2
  <2>9. e % U64 = 0
    <3>1. FnvPrime % 2 = 1 /\ WordBits \in Nat /\ U64 = Power(2, WordBits)
      BY Machine
    <3>2. (e * FnvPrime) % Power(2, WordBits) = 0
      BY <2>8, <3>1 DEF d
    <3> QED BY <2>1, <2>2, <3>1, <3>2, OddFactor
  <2>10. e = 0
    BY <2>1, <2>2, <2>9
  <2> QED BY <2>1, <2>10
<1>2. x <= y \/ y <= x
  BY Word64Type
<1> QED BY <1>1, <1>2
-----------------------------------------------------------------------------
(* The checksum                                                            *)

(* g[m] is the hash of the first m bytes.                                  *)
AreHashes(g, bytes) ==
  /\ g \in [0 .. Len(bytes) -> Word64]
  /\ g[0] = FnvOffset
  /\ \A m \in 1 .. Len(bytes) : g[m] = (Xor[g[m - 1]][bytes[m]] * FnvPrime) % U64

LEMMA HashUnrolled ==
  ASSUME NEW bytes \in Seq(Byte)
  PROVE  \E g : AreHashes(g, bytes) /\ fnv1a(bytes) = g[Len(bytes)]
<1> DEFINE N == Len(bytes)
           Body(i, v) == (Xor[v][bytes[i]] * FnvPrime) % U64
           F == [x \in (1 .. N) \X Word64 |-> Body(x[1], x[2])]
           Step(h) == [p \in 0 .. N |-> IF p = 0 THEN FnvOffset ELSE Body(p, h[p - 1])]
           f == CHOOSE h : h = Step(h)
<1>0. N \in Nat
  OBVIOUS
<1>1. FnvOffset \in Word64 /\ \A m \in 1 .. N : \A v \in Word64 : Body(m, v) \in Word64
  <2> SUFFICES ASSUME NEW m \in 1 .. N, NEW v \in Word64
               PROVE  (Xor[v][bytes[m]] * FnvPrime) % U64 \in Word64
    BY Machine
  <2>1. bytes[m] \in Byte
    OBVIOUS
  <2>2. Xor[v][bytes[m]] \in Nat
    BY <2>1, XorType, Word64Type
  <2> DEFINE y == Xor[v][bytes[m]] * FnvPrime
  <2>3. y \in Nat /\ U64 \in Nat \ {0}
    BY <2>2, Machine
  <2> HIDE DEF y
  <2>4. y % U64 \in Word64
    BY <2>3 DEF Word64
  <2> QED BY <2>4 DEF y
<1>2. fnv1a(bytes) = f[Len(bytes)]
  BY DEF fnv1a
<1> HIDE DEF N, Body
<1>3. /\ \A h, m : m \in 0 .. N => Step(h)[m] = IF m = 0 THEN FnvOffset ELSE Body(m, h[m - 1])
      /\ \A h : Step(h) = [m \in 0 .. N |-> Step(h)[m]]
  OBVIOUS
<1>4. F \in [(1 .. N) \X Word64 -> Word64]
      /\ \A m \in 1 .. N : \A v \in Word64 : F[<<m, v>>] = Body(m, v)
  BY <1>1
<1> HIDE DEF F, Step, f
<1>5. HasUnrolling(N, Word64, FnvOffset, F)
  BY <1>0, <1>1, <1>4, RecursionExists
<1>6. PICK g \in [0 .. N -> Word64] : Unrolls(g, N, FnvOffset, F)
  BY <1>5 DEF HasUnrolling
<1>7. g = Step(g)
  <2> SUFFICES ASSUME NEW m \in 0 .. N PROVE g[m] = Step(g)[m]
    BY <1>3, <1>6
  <2>1. m # 0 => m \in 1 .. N /\ m - 1 \in 0 .. N
    BY <1>0
  <2>2. g[m] = IF m = 0 THEN FnvOffset ELSE F[<<m, g[m - 1]>>]
    BY <1>6 DEF Unrolls
  <2>3. Step(g)[m] = IF m = 0 THEN FnvOffset ELSE Body(m, g[m - 1])
    BY <1>3
  <2>4. CASE m = 0
    BY <2>2, <2>3, <2>4
  <2>5. CASE m # 0
    <3>1. m \in 1 .. N /\ g[m - 1] \in Word64
      BY <1>6, <2>1, <2>5
    <3> QED BY <1>4, <2>2, <2>3, <2>5, <3>1
  <2> QED BY <2>4, <2>5
<1>8. f = Step(f)
  BY <1>7 DEF f
<1>9. f[0] = FnvOffset /\ \A m \in 1 .. N : f[m] = Body(m, f[m - 1])
  <2> SUFFICES ASSUME NEW m \in 0 .. N
               PROVE  f[m] = IF m = 0 THEN FnvOffset ELSE Body(m, f[m - 1])
    BY <1>0
  <2> QED BY <1>3, <1>8
<1>10. {m \in 0 .. N : f[m] \in Word64} = 0 .. N
  <2> DEFINE S == {m \in 0 .. N : f[m] \in Word64}
  <2>1. 0 \in S /\ S \in SUBSET (0 .. N)
    BY <1>0, <1>1, <1>9
  <2>2. ASSUME NEW m \in 0 .. N - 1, m \in S PROVE m + 1 \in S
    <3>1. m + 1 \in 1 .. N /\ m + 1 \in 0 .. N /\ (m + 1) - 1 = m
      BY <1>0
    <3>2. f[m + 1] = Body(m + 1, f[m])
      BY <1>9, <3>1
    <3> QED BY <1>1, <2>2, <3>1, <3>2
  <2> HIDE DEF S
  <2>3. S = 0 .. N
    BY <1>0, <2>1, <2>2, Ascent
  <2> QED BY <2>3 DEF S
<1>11. AreHashes(f, bytes)
  <2>1. \A m \in 0 .. N : f[m] \in Word64
    BY <1>10
  <2>2. f \in [0 .. N -> Word64]
    BY <1>3, <1>8, <2>1
  <2> QED BY <1>9, <2>2 DEF AreHashes, N, Body
<1> QED BY <1>2, <1>11

LEMMA HashType ==
  ASSUME NEW bytes \in Seq(Byte)
  PROVE  fnv1a(bytes) \in Word64
<1>1. PICK g : AreHashes(g, bytes) /\ fnv1a(bytes) = g[Len(bytes)]
  BY HashUnrolled
<1> QED BY <1>1 DEF AreHashes

(* The checksum sees every change of one byte: the hashes differ from that *)
(* byte on, because no later step brings them together again.              *)
LEMMA HashChanged ==
  ASSUME NEW s \in Seq(Byte), NEW t \in Seq(Byte), NEW p, ChangedAt(s, t, p)
  PROVE  fnv1a(s) # fnv1a(t)
<1> DEFINE N == Len(s)
<1>1. N \in Nat /\ Len(t) = N /\ p \in 1 .. N
  BY DEF ChangedAt
<1>2. PICK f : AreHashes(f, s) /\ fnv1a(s) = f[N]
  BY HashUnrolled
<1>3. PICK g : AreHashes(g, t) /\ fnv1a(t) = g[N]
  BY <1>1, HashUnrolled
<1> HIDE DEF N
<1>4. ASSUME NEW k \in 1 .. N
      PROVE  /\ f[k] = (Xor[f[k - 1]][s[k]] * FnvPrime) % U64
             /\ g[k] = (Xor[g[k - 1]][t[k]] * FnvPrime) % U64
             /\ f[k - 1] \in Word64 /\ g[k - 1] \in Word64
             /\ s[k] \in Byte /\ t[k] \in Byte
  <2>1. k \in 1 .. Len(s) /\ k \in 1 .. Len(t)
    BY <1>1 DEF N
  <2>2. k - 1 \in 0 .. Len(s) /\ k - 1 \in 0 .. Len(t)
    BY <1>1, <2>1 DEF N
  <2>3. s[k] \in Byte /\ t[k] \in Byte
    BY <2>1
  <2> QED BY <1>2, <1>3, <2>1, <2>2, <2>3 DEF AreHashes
<1> DEFINE S == {m \in 0 .. N : f[m] = g[m] <=> m < p}
<1>5. 0 \in S /\ S \in SUBSET (0 .. N)
  BY <1>1, <1>2, <1>3 DEF AreHashes
<1>6. ASSUME NEW m \in 0 .. N - 1, m \in S PROVE m + 1 \in S
  <2> DEFINE k == m + 1
  <2>1. k \in 1 .. N /\ k \in 0 .. N /\ k - 1 = m /\ m < k
    BY <1>1
  <2>2. f[m] = g[m] <=> m < p
    BY <1>6
  <2> HIDE DEF k
  <2> DEFINE c == s[k]
             d == t[k]
             x == Xor[f[m]][c]
             y == Xor[g[m]][d]
  <2>3. /\ f[k] = (x * FnvPrime) % U64 /\ g[k] = (y * FnvPrime) % U64
        /\ f[m] \in Word64 /\ g[m] \in Word64 /\ c \in Byte /\ d \in Byte
    BY <1>4, <2>1
  <2>4. x \in Word64 /\ y \in Word64
    BY <2>3, XorType
  <2>5. f[k] = g[k] => x = y
    <3> HIDE DEF x, y
    <3> QED BY <2>3, <2>4, PrimeInjective
  <2>6. c = d <=> k # p
    BY <1>1, <2>1 DEF ChangedAt, N
  <2>7. CASE k < p
    <3>1. f[m] = g[m] /\ c = d
      BY <1>1, <2>1, <2>2, <2>6, <2>7
    <3>2. f[k] = g[k]
      BY <2>3, <3>1
    <3> QED BY <2>1, <2>7, <3>2 DEF k
  <2>8. CASE ~(k < p)
    <3>1. f[k] # g[k]
      <4> SUFFICES ASSUME f[k] = g[k] PROVE FALSE
        OBVIOUS
      <4>1. x = y
        BY <2>5
      <4>2. CASE k = p
        <5>1. f[m] = g[m] /\ c # d
          BY <1>1, <2>1, <2>2, <2>6, <4>2
        <5> QED BY <2>3, <4>1, <5>1, XorInjective
      <4>3. CASE k # p
        <5>1. f[m] # g[m] /\ c = d
          BY <1>1, <2>1, <2>2, <2>6, <2>8, <4>3
        <5> QED BY <2>3, <4>1, <5>1, XorInjective
      <4> QED BY <4>2, <4>3
    <3> QED BY <2>1, <2>8, <3>1 DEF k
  <2> QED BY <2>7, <2>8
<1>7. N \in S
  <2> HIDE DEF S
  <2>1. \A m \in 0 .. N - 1 : m \in S => m + 1 \in S
    BY <1>6
  <2>2. S = 0 .. N
    BY <1>1, <1>5, <2>1, Ascent
  <2> QED BY <1>1, <2>2
<1>8. f[N] # g[N]
  BY <1>1, <1>7
<1> QED BY <1>2, <1>3, <1>8

-----------------------------------------------------------------------------
(* The layout of a buffer                                                  *)

LEMMA SameSequence ==
  ASSUME NEW A, NEW s \in Seq(A), NEW t \in Seq(A), Len(s) = Len(t),
         \A m \in 1 .. Len(s) : s[m] = t[m]
  PROVE  s = t
OBVIOUS

LEMMA PartOfSequence ==
  ASSUME NEW A, NEW s \in Seq(A), NEW at \in Nat, NEW len \in Nat, at + len <= Len(s)
  PROVE  /\ SubSeq(s, at + 1, at + len) \in Seq(A)
         /\ Len(SubSeq(s, at + 1, at + len)) = len
         /\ \A m \in 1 .. len : SubSeq(s, at + 1, at + len)[m] = s[at + m]
OBVIOUS

(* j is s followed by t.                                                   *)
Joins(j, s, t) ==
  /\ j \in Seq(Byte)
  /\ Len(j) = Len(s) + Len(t)
  /\ \A m \in 1 .. Len(s) : j[m] = s[m]
  /\ \A m \in 1 .. Len(t) : j[Len(s) + m] = t[m]

LEMMA JoinedSequence ==
  ASSUME NEW s \in Seq(Byte), NEW t \in Seq(Byte)
  PROVE  Joins(s \o t, s, t)
BY DEF Joins

(* What finish appends the checksum to is there, and so is the checksum.   *)
LEMMA Finished ==
  ASSUME NEW buf \in Seq(Byte)
  PROVE  /\ finish(buf) \in Seq(Byte)
         /\ Len(finish(buf)) = Len(buf) + ChecksumLen
         /\ \A m \in 1 .. Len(buf) : finish(buf)[m] = buf[m]
         /\ SubSeq(finish(buf), 1, Len(buf)) = buf
         /\ Checksum(finish(buf)) = fnv1a(buf)
<1> DEFINE N == Len(buf)
           h == fnv1a(buf)
           w == to_le_bytes(h, WordLen)
           b == finish(buf)
<1>1. N \in Nat /\ ChecksumLen = WordLen /\ WordLen \in Nat \ {0}
  BY Machine
<1>2. h \in Nat /\ h < Power(Base, WordLen)
  <2>1. h \in Word64
    BY HashType
  <2> QED BY <2>1, Word64Type, Machine
<1>3. w \in Seq(Byte) /\ Len(w) = WordLen
  BY <1>1, <1>2, ToLeType
<1>4. b = buf \o w
  BY DEF finish
<1> HIDE DEF b, w, h
<1>5. /\ b \in Seq(Byte) /\ Len(b) = N + WordLen
      /\ \A m \in 1 .. N : b[m] = buf[m]
      /\ \A m \in 1 .. WordLen : b[N + m] = w[m]
  <2>1. Joins(b, buf, w)
    BY <1>3, <1>4, JoinedSequence
  <2> QED BY <1>3, <2>1 DEF Joins, N
<1> HIDE DEF N
<1>6. SubSeq(b, 1, N) = buf
  <2> DEFINE s == SubSeq(b, 0 + 1, 0 + N)
  <2>1. s \in Seq(Byte) /\ Len(s) = N /\ \A m \in 1 .. N : s[m] = b[0 + m]
    BY <1>1, <1>5, PartOfSequence
  <2>2. s = SubSeq(b, 1, N)
    BY <1>1
  <2> HIDE DEF s
  <2>3. \A m \in 1 .. N : s[m] = buf[m]
    BY <1>1, <1>5, <2>1
  <2>4. s = buf
    BY <2>1, <2>3, SameSequence DEF N
  <2> QED BY <2>2, <2>4
<1>7. SubSeq(b, N + 1, N + WordLen) = w
  <2> DEFINE s == SubSeq(b, N + 1, N + WordLen)
  <2>1. s \in Seq(Byte) /\ Len(s) = WordLen /\ \A m \in 1 .. WordLen : s[m] = b[N + m]
    BY <1>1, <1>5, PartOfSequence
  <2> HIDE DEF s
  <2>2. \A m \in 1 .. WordLen : s[m] = w[m]
    BY <1>5, <2>1
  <2>3. s = w
    BY <1>3, <2>1, <2>2, SameSequence
  <2> QED BY <2>3 DEF s
<1>8. Checksum(b) = from_le_bytes(w)
  <2>1. Len(b) - ChecksumLen + 1 = N + 1 /\ (N + 1) + WordLen - 1 = N + WordLen
    BY <1>1, <1>5
  <2> QED BY <1>7, <2>1 DEF Checksum, Word
<1>9. from_le_bytes(w) = h
  BY <1>1, <1>2, FromToLe DEF w
<1> QED BY <1>1, <1>5, <1>6, <1>8, <1>9 DEF b, N, h

(* A word is read where its bytes are.                                     *)
LEMMA WordRead ==
  ASSUME NEW bytes \in Seq(Byte), NEW at \in Nat \ {0}, at + WordLen - 1 <= Len(bytes),
         NEW x \in Word64,
         \A m \in 1 .. WordLen : bytes[(at - 1) + m] = to_le_bytes(x, WordLen)[m]
  PROVE  Word(bytes, at) = x
<1> DEFINE w == to_le_bytes(x, WordLen)
           s == SubSeq(bytes, (at - 1) + 1, (at - 1) + WordLen)
<1>1. x \in Nat /\ x < Power(Base, WordLen) /\ WordLen \in Nat
  BY Machine, Word64Type
<1>2. w \in Seq(Byte) /\ Len(w) = WordLen
  BY <1>1, ToLeType
<1>3. s \in Seq(Byte) /\ Len(s) = WordLen /\ \A m \in 1 .. WordLen : s[m] = bytes[(at - 1) + m]
  BY <1>1, PartOfSequence
<1>4. Word(bytes, at) = from_le_bytes(s)
  <2>1. (at - 1) + 1 = at /\ (at - 1) + WordLen = at + WordLen - 1
    BY <1>1
  <2> QED BY <2>1 DEF Word
<1> HIDE DEF s
<1>5. \A m \in 1 .. WordLen : s[m] = w[m]
  BY <1>3
<1> HIDE DEF w
<1>6. s = w
  BY <1>2, <1>3, <1>5, SameSequence
<1>7. from_le_bytes(w) = x
  BY <1>1, FromToLe DEF w
<1> QED BY <1>4, <1>6, <1>7

LEMMA WordType ==
  ASSUME NEW bytes \in Seq(Byte), NEW at \in Nat \ {0}, at + WordLen - 1 <= Len(bytes)
  PROVE  Word(bytes, at) \in Nat
<1> DEFINE s == SubSeq(bytes, (at - 1) + 1, (at - 1) + WordLen)
<1>1. WordLen \in Nat
  BY Machine
<1>2. s \in Seq(Byte)
  BY <1>1, PartOfSequence
<1>3. Word(bytes, at) = from_le_bytes(s)
  <2>1. (at - 1) + 1 = at /\ (at - 1) + WordLen = at + WordLen - 1
    BY <1>1
  <2> QED BY <2>1 DEF Word
<1> QED BY <1>2, <1>3, FromLeType

(* The fields of a header are where decode looks for them, in whatever     *)
(* buffer begins with it.                                                  *)
BeginsWith(bytes, header) ==
  /\ Len(bytes) >= HeaderLen
  /\ \A m \in 1 .. HeaderLen : bytes[m] = header[m]

LEMMA HeaderWritten ==
  ASSUME NEW family \in Byte, NEW r \in Byte,
         NEW seed \in Word64, NEW num_starts \in Word64, NEW count \in Word64
  PROVE  LET h == write_header(family, r, seed, num_starts, count)
         IN  /\ h \in Seq(Byte) /\ Len(h) = HeaderLen
             /\ h[1] = Magic /\ h[2] = family /\ h[3] = r /\ h[4] = 0
             /\ \A m \in 1 .. WordLen :
                  /\ h[4 + m] = to_le_bytes(seed, WordLen)[m]
                  /\ h[(4 + WordLen) + m] = to_le_bytes(num_starts, WordLen)[m]
                  /\ h[(4 + 2 * WordLen) + m] = to_le_bytes(count, WordLen)[m]
<1> DEFINE a == <<Magic, family, r, 0>>
           u == to_le_bytes(seed, WordLen)
           v == to_le_bytes(num_starts, WordLen)
           w == to_le_bytes(count, WordLen)
           h == write_header(family, r, seed, num_starts, count)
<1>1. WordLen \in Nat /\ HeaderLen = 4 + 3 * WordLen
  BY Machine
<1>2. a \in Seq(Byte) /\ Len(a) = 4 /\ a[1] = Magic /\ a[2] = family /\ a[3] = r /\ a[4] = 0
  <2>1. Magic \in Byte /\ 0 \in Byte
    BY Machine DEF Magic, Byte
  <2> QED BY <2>1
<1>3. seed \in Nat /\ num_starts \in Nat /\ count \in Nat
  BY Word64Type
<1>4. /\ u \in Seq(Byte) /\ Len(u) = WordLen /\ v \in Seq(Byte) /\ Len(v) = WordLen
      /\ w \in Seq(Byte) /\ Len(w) = WordLen
  BY <1>1, <1>3, ToLeType
<1>5. h = ((a \o u) \o v) \o w
  BY DEF write_header
<1> HIDE DEF a, u, v, w, h
<1> DEFINE x == a \o u
           y == x \o v
<1>6. /\ x \in Seq(Byte) /\ Len(x) = 4 + WordLen
      /\ \A m \in 1 .. 4 : x[m] = a[m]
      /\ \A m \in 1 .. WordLen : x[4 + m] = u[m]
  <2>1. Joins(a \o u, a, u)
    BY <1>2, <1>4, JoinedSequence
  <2>2. Joins(x, a, u)
    BY <2>1
  <2> HIDE DEF x
  <2> QED BY <1>2, <1>4, <2>2 DEF Joins
<1> HIDE DEF x
<1>7. /\ y \in Seq(Byte) /\ Len(y) = 4 + WordLen + WordLen
      /\ \A m \in 1 .. 4 + WordLen : y[m] = x[m]
      /\ \A m \in 1 .. WordLen : y[(4 + WordLen) + m] = v[m]
  <2>1. Joins(x \o v, x, v)
    BY <1>4, <1>6, JoinedSequence
  <2>2. Joins(y, x, v)
    BY <2>1
  <2> HIDE DEF y
  <2> QED BY <1>4, <1>6, <2>2 DEF Joins
<1> HIDE DEF y
<1>8. 4 + WordLen + WordLen = 4 + 2 * WordLen
  BY <1>1
<1>9. /\ h \in Seq(Byte) /\ Len(h) = (4 + 2 * WordLen) + WordLen
      /\ \A m \in 1 .. 4 + 2 * WordLen : h[m] = y[m]
      /\ \A m \in 1 .. WordLen : h[(4 + 2 * WordLen) + m] = w[m]
  <2>1. h = y \o w
    BY <1>5 DEF x, y
  <2>2. Joins(h, y, w)
    BY <1>4, <1>7, <2>1, JoinedSequence
  <2>3. Len(y) = 4 + 2 * WordLen /\ Len(w) = WordLen
    BY <1>4, <1>7, <1>8
  <2> QED BY <2>2, <2>3 DEF Joins
<1>10. Len(h) = HeaderLen
  BY <1>1, <1>9
<1>11. \A m \in 1 .. 4 : h[m] = a[m]
  BY <1>1, <1>6, <1>7, <1>9
<1>12. \A m \in 1 .. WordLen : h[4 + m] = u[m]
  <2> SUFFICES ASSUME NEW m \in 1 .. WordLen PROVE h[4 + m] = u[m]
    OBVIOUS
  <2>1. 4 + m \in 1 .. 4 + WordLen /\ 4 + m \in 1 .. 4 + 2 * WordLen
    BY <1>1
  <2> QED BY <1>6, <1>7, <1>9, <2>1
<1>13. \A m \in 1 .. WordLen : h[(4 + WordLen) + m] = v[m]
  <2> SUFFICES ASSUME NEW m \in 1 .. WordLen PROVE h[(4 + WordLen) + m] = v[m]
    OBVIOUS
  <2>1. (4 + WordLen) + m \in 1 .. 4 + 2 * WordLen
    BY <1>1
  <2> QED BY <1>7, <1>9, <2>1
<1>14. h[1] = Magic /\ h[2] = family /\ h[3] = r /\ h[4] = 0
  BY <1>2, <1>11
<1> QED BY <1>9, <1>10, <1>12, <1>13, <1>14 DEF h, u, v, w

LEMMA HeaderType ==
  ASSUME NEW family \in Byte, NEW r \in Byte,
         NEW seed \in Word64, NEW num_starts \in Word64, NEW count \in Word64
  PROVE  /\ write_header(family, r, seed, num_starts, count) \in Seq(Byte)
         /\ Len(write_header(family, r, seed, num_starts, count)) = HeaderLen
BY HeaderWritten

LEMMA HeaderRead ==
  ASSUME NEW family \in Byte, NEW r \in Byte,
         NEW seed \in Word64, NEW num_starts \in Word64, NEW count \in Word64,
         NEW bytes \in Seq(Byte),
         BeginsWith(bytes, write_header(family, r, seed, num_starts, count))
  PROVE  /\ bytes[1] = Magic /\ Family(bytes) = family /\ Width(bytes) = r
         /\ Reserved(bytes) = 0
         /\ Seed(bytes) = seed /\ NumStarts(bytes) = num_starts
         /\ SegmentCount(bytes) = count
<1> DEFINE h == write_header(family, r, seed, num_starts, count)
<1>1. WordLen \in Nat /\ HeaderLen = 4 + 3 * WordLen
  BY Machine
<1>2. /\ h[1] = Magic /\ h[2] = family /\ h[3] = r /\ h[4] = 0
      /\ \A m \in 1 .. WordLen :
           /\ h[4 + m] = to_le_bytes(seed, WordLen)[m]
           /\ h[(4 + WordLen) + m] = to_le_bytes(num_starts, WordLen)[m]
           /\ h[(4 + 2 * WordLen) + m] = to_le_bytes(count, WordLen)[m]
  BY HeaderWritten
<1>3. Len(bytes) >= HeaderLen /\ \A m \in 1 .. HeaderLen : bytes[m] = h[m]
  BY DEF BeginsWith
<1> HIDE DEF h
<1>4. bytes[1] = Magic /\ bytes[2] = family /\ bytes[3] = r /\ bytes[4] = 0
  BY <1>1, <1>2, <1>3
<1>5. Len(bytes) \in Nat
  OBVIOUS
<1>6. ASSUME NEW k \in {0, 1, 2}, NEW x \in Word64,
             \A m \in 1 .. WordLen : h[(4 + k * WordLen) + m] = to_le_bytes(x, WordLen)[m]
      PROVE  Word(bytes, 5 + k * WordLen) = x
  <2> DEFINE at == 5 + k * WordLen
  <2>1. at \in Nat \ {0} /\ at + WordLen - 1 <= Len(bytes) /\ at - 1 = 4 + k * WordLen
          /\ at + WordLen - 1 <= HeaderLen
    BY <1>1, <1>3, <1>5
  <2> HIDE DEF at
  <2>2. ASSUME NEW m \in 1 .. WordLen
        PROVE  bytes[(at - 1) + m] = to_le_bytes(x, WordLen)[m]
    <3>1. (at - 1) + m \in 1 .. HeaderLen
      BY <1>1, <2>1
    <3>2. bytes[(at - 1) + m] = h[(at - 1) + m]
      BY <1>3, <3>1
    <3>3. h[(at - 1) + m] = to_le_bytes(x, WordLen)[m]
      BY <1>6, <2>1
    <3> QED BY <3>2, <3>3
  <2>3. Word(bytes, at) = x
    BY <2>1, <2>2, WordRead
  <2> QED BY <2>3 DEF at
<1>7. 4 + 0 * WordLen = 4 /\ 4 + 1 * WordLen = 4 + WordLen /\ 5 + 0 * WordLen = 5
        /\ 5 + 1 * WordLen = 5 + WordLen
  BY <1>1
<1>8. Seed(bytes) = seed
  <2>1. \A m \in 1 .. WordLen : h[(4 + 0 * WordLen) + m] = to_le_bytes(seed, WordLen)[m]
    BY <1>2, <1>7
  <2>2. Word(bytes, 5 + 0 * WordLen) = seed
    BY <1>6, <2>1
  <2> QED BY <1>7, <2>2 DEF Seed
<1>9. NumStarts(bytes) = num_starts
  <2>1. \A m \in 1 .. WordLen : h[(4 + 1 * WordLen) + m] = to_le_bytes(num_starts, WordLen)[m]
    BY <1>2, <1>7
  <2>2. Word(bytes, 5 + 1 * WordLen) = num_starts
    BY <1>6, <2>1
  <2> QED BY <1>7, <2>2 DEF NumStarts
<1>10. SegmentCount(bytes) = count
  <2>1. Word(bytes, 5 + 2 * WordLen) = count
    BY <1>2, <1>6
  <2> QED BY <2>1 DEF SegmentCount
<1> QED BY <1>4, <1>8, <1>9, <1>10 DEF Family, Width, Reserved

-----------------------------------------------------------------------------
(* What builders return, and the buffer it is serialized into              *)

SeedOf(f) == IF f.type.family = 1 THEN f.ordinal_seed ELSE f.raw_seed

HeaderOf(f) ==
  write_header(f.type.family, f.type.r, SeedOf(f), f.num_starts, Len(f.segs))

PayloadBytes(f) == Len(f.segs) * f.type.elem

LEMMA BuiltFits ==
  ASSUME NEW f \in Built
  PROVE  /\ f.type \in Types /\ f.type \in Families
         /\ f.type.family \in {0, 1} /\ f.type.family \in Byte /\ f.type.r \in Byte
         /\ f.type.elem \in Nat \ {0}
         /\ f.segs \in Seq(Nat) /\ Len(f.segs) \in Nat
         /\ SeedOf(f) \in Word64 /\ f.num_starts \in Word64 /\ Len(f.segs) \in Word64
         /\ PayloadBytes(f) \in Nat
         /\ HeaderLen + PayloadBytes(f) + ChecksumLen <= UsizeMax
<1>1. /\ f \in [type : Families, num_starts : Nat, segs : Seq(Nat),
                raw_seed : 0 .. U64 - 1, ordinal_seed : 0 .. U64 - 1]
      /\ f.num_starts + f.type.w - 1 <= UsizeMax
      /\ HeaderLen + Len(f.segs) * f.type.elem + ChecksumLen <= UsizeMax
  BY BuiltAssumption
<1>2. f.type \in Types /\ f.type \in Families /\ f.type.r \in Byte
  BY <1>1, FamiliesAssumption
<1>3. /\ f.type.family \in {0, 1} /\ f.type.elem \in Nat \ {0} /\ f.type.w \in Nat \ {0}
  BY <1>2 DEF Types
<1>4. {0, 1} \subseteq Byte
  BY Machine DEF Byte
<1>5. /\ WordLen \in Nat /\ HeaderLen = 4 + 3 * WordLen /\ ChecksumLen = WordLen
      /\ UsizeMax \in Nat /\ U64 \in Nat /\ UsizeMax < U64
  BY Machine
<1>6. SeedOf(f) \in Word64
  BY <1>1 DEF SeedOf, Word64
<1> DEFINE count == Len(f.segs)
           e == f.type.elem
           len == count * e
<1>7. count \in Nat /\ f.num_starts \in Nat /\ f.segs \in Seq(Nat)
  BY <1>1
<1>8. f.num_starts \in Word64
  BY <1>1, <1>3, <1>5, <1>7 DEF Word64
<1>9. HeaderLen + len + ChecksumLen <= UsizeMax
  BY <1>1
<1>10. PayloadBytes(f) = len
  BY DEF PayloadBytes
<1>11. e \in Nat \ {0}
  BY <1>3
<1> HIDE DEF count, e
<1>12. len \in Nat /\ count <= len
  <2>1. 1 * count <= e * count
    BY <1>7, <1>11, MultipleMonotone
  <2>2. e * count = count * e /\ count * e \in Nat
    BY <1>7, <1>11
  <2> QED BY <1>7, <2>1, <2>2
<1> HIDE DEF len
<1>13. count \in Word64
  BY <1>5, <1>7, <1>9, <1>12 DEF Word64
<1> QED BY <1>2, <1>3, <1>4, <1>6, <1>7, <1>8, <1>9, <1>10, <1>12, <1>13 DEF count

LEMMA BuiltGeometry ==
  ASSUME NEW f \in Built
  PROVE  /\ GoodGeometry(f.num_starts, Len(f.segs), f.type)
         /\ TotalLen(Len(f.segs), f.type) = HeaderLen + PayloadBytes(f) + ChecksumLen
         /\ PayloadLen(Len(f.segs), f.type) = PayloadBytes(f)
<1> DEFINE t == f.type
           w == t.w
<1>1. /\ UsizeMax \in Nat /\ UsizeMax < U64 /\ HeaderLen \in Nat /\ ChecksumLen \in Nat
  BY Machine
<1>2. /\ t \in Types /\ w \in Nat \ {0} /\ t.r \in Nat \ {0}
      /\ f.num_starts \in Nat /\ Len(f.segs) \in Nat
      /\ PayloadBytes(f) \in Nat /\ HeaderLen + PayloadBytes(f) + ChecksumLen <= UsizeMax
  <2>1. t \in Types /\ f.num_starts \in Nat
    BY BuiltFits, Word64Type
  <2> QED BY <2>1, BuiltFits DEF Types
<1>3. PICK blocks \in 2 .. Len(f.segs) :
        f.num_starts + w - 1 = blocks * w /\ Len(f.segs) = blocks * t.r
  BY BuiltAssumption
<1>4. f.num_starts + w - 1 <= UsizeMax
  BY BuiltAssumption
<1>5. blocks \in Nat \ {0, 1}
  BY <1>2
<1>6. HeaderLen + (blocks * t.r) * t.elem + ChecksumLen <= UsizeMax
  BY <1>2, <1>3 DEF PayloadBytes
<1> DEFINE slots == blocks * w
<1>7. slots \in Nat
  <2> HIDE DEF w
  <2> QED BY <1>2, <1>5
<1>8. f.num_starts = slots - w + 1
  <2> HIDE DEF w
  <2>1. f.num_starts + w - 1 = slots
    BY <1>3
  <2> HIDE DEF slots
  <2> QED BY <1>2, <1>7, <2>1
<1>9. GoodGeometry(f.num_starts, Len(f.segs), t)
  <2>1. blocks * t.w <= UsizeMax
    BY <1>3, <1>4
  <2>2. GoodGeometry(blocks * t.w - t.w + 1, blocks * t.r, t)
    BY <1>1, <1>2, <1>5, <1>6, <2>1, WholeBlocksAreGood
  <2> QED BY <1>3, <1>8, <2>2
<1> DEFINE len == PayloadBytes(f)
<1>10. PayloadLen(Len(f.segs), t) = len % (UsizeMax + 1)
  BY DEF PayloadLen, PayloadBytes
<1> HIDE DEF len
<1>11. len \in Nat /\ HeaderLen + len + ChecksumLen <= UsizeMax
  BY <1>2 DEF len
<1>12. len % (UsizeMax + 1) = len
  BY <1>1, <1>11
<1>13. TotalLen(Len(f.segs), t) = HeaderLen + len + ChecksumLen
  <2> DEFINE all == HeaderLen + len + ChecksumLen
  <2>1. TotalLen(Len(f.segs), t) = all % (UsizeMax + 1)
    BY <1>10, <1>12 DEF TotalLen
  <2>2. all \in Nat /\ all <= UsizeMax
    BY <1>1, <1>11
  <2> HIDE DEF all
  <2>3. all % (UsizeMax + 1) = all
    BY <1>1, <2>2
  <2> QED BY <2>1, <2>3 DEF all
<1> QED BY <1>9, <1>10, <1>12, <1>13 DEF len

(* Byte m of segment p                                                     *)
LEMMA PayloadWritten ==
  ASSUME NEW f \in Built
  PROVE  /\ payload(f) \in Seq(Byte) /\ Len(payload(f)) = PayloadBytes(f)
         /\ \A p \in 1 .. Len(f.segs) : \A m \in 1 .. f.type.elem :
              /\ (p - 1) * f.type.elem + m \in 1 .. PayloadBytes(f)
              /\ payload(f)[(p - 1) * f.type.elem + m]
                   = to_le_bytes(f.segs[p], f.type.elem)[m]
<1> DEFINE e == f.type.elem
           count == Len(f.segs)
           len == PayloadBytes(f)
           pay == payload(f)
           At(i) == to_le_bytes(f.segs[(i - 1) \div e + 1], e)[((i - 1) % e) + 1]
<1>1. e \in Nat \ {0} /\ count \in Nat /\ len \in Nat /\ f.segs \in Seq(Nat)
  BY BuiltFits
<1>2. len = count * e /\ pay = [i \in 1 .. len |-> At(i)]
  BY DEF payload, PayloadBytes
<1> HIDE DEF e, len, pay
<1>3. ASSUME NEW i \in 1 .. len PROVE At(i) \in Byte
  <2> DEFINE q == (i - 1) \div e
             d == (i - 1) % e
  <2>1. i - 1 \in Nat
    BY <1>1
  <2>2. q \in Nat /\ d \in 0 .. e - 1 /\ q * e \in Nat /\ i - 1 = q * e + d
    BY <1>1, <2>1, Division
  <2> HIDE DEF q, d
  <2>3. q < count
    <3>1. q * e < count * e
      BY <1>1, <1>2, <2>2
    <3> QED BY <1>1, <2>2, <3>1, MultipleOrder DEF count
  <2>4. f.segs[q + 1] \in Nat
    BY <1>1, <2>2, <2>3
  <2> DEFINE b == to_le_bytes(f.segs[q + 1], e)
  <2>5. b \in Seq(Byte) /\ Len(b) = e
    BY <1>1, <2>4, ToLeType
  <2>6. d + 1 \in 1 .. e
    BY <1>1, <2>2
  <2> HIDE DEF b
  <2>7. b[d + 1] \in Byte
    BY <2>5, <2>6
  <2> QED BY <2>7 DEF b, q, d
<1>4. pay \in Seq(Byte) /\ Len(pay) = len
  <2> HIDE DEF At
  <2> QED BY <1>1, <1>2, <1>3
<1>5. ASSUME NEW p \in 1 .. count, NEW m \in 1 .. e
      PROVE  /\ (p - 1) * e + m \in 1 .. len
             /\ pay[(p - 1) * e + m] = to_le_bytes(f.segs[p], e)[m]
  <2> DEFINE k == p - 1
             d == m - 1
             i == k * e + m
  <2>1. k \in Nat /\ d \in 0 .. e - 1 /\ k + 1 = p /\ d + 1 = m /\ k + 1 <= count
    BY <1>1
  <2> HIDE DEF k, d
  <2>2. k * e \in Nat /\ (k + 1) * e = k * e + e /\ (k + 1) * e <= count * e
    <3>1. k * e \in Nat /\ (k + 1) * e = k * e + e
      BY <1>1, <2>1
    <3>2. k + 1 \in Nat /\ k + 1 <= count /\ count \in Nat /\ e \in Nat
      BY <1>1, <2>1
    <3>3. (k + 1) * e <= count * e
      <4> HIDE DEF count
      <4> QED BY <3>2, MultipleMonotone
    <3> QED BY <3>1, <3>3
  <2>3. i \in 1 .. len /\ i - 1 = k * e + d
    <3> DEFINE x == k * e
               z == (k + 1) * e
    <3>1. x \in Nat /\ z = x + e /\ z <= len /\ i = x + m
      BY <1>2, <2>2
    <3> HIDE DEF x, z, i
    <3>2. i \in 1 .. len /\ i - 1 = x + d
      BY <1>1, <2>1, <3>1
    <3> QED BY <3>2 DEF x
  <2>4. (k * e + d) \div e = k /\ (k * e + d) % e = d
    BY <1>1, <2>1, DivisionIsUnique
  <2> HIDE DEF i
  <2>5. pay[i] = At(i)
    BY <1>2, <2>3
  <2>6. At(i) = to_le_bytes(f.segs[p], e)[m]
    BY <2>1, <2>3, <2>4
  <2> QED BY <2>3, <2>5, <2>6 DEF i, k
<1> QED BY <1>4, <1>5 DEF e, len, pay

LEMMA BytesWritten ==
  ASSUME NEW f \in Built
  PROVE  LET b    == to_bytes(f)
             body == SubSeq(b, 1, Len(b) - ChecksumLen)
         IN  /\ b \in Seq(Byte)
             /\ Len(b) = HeaderLen + PayloadBytes(f) + ChecksumLen
             /\ BeginsWith(b, HeaderOf(f))
             /\ \A m \in 1 .. PayloadBytes(f) : b[HeaderLen + m] = payload(f)[m]
             /\ Checksum(b) = fnv1a(body)
<1> DEFINE h == HeaderOf(f)
           pay == payload(f)
           len == PayloadBytes(f)
           buf == h \o pay
           b == to_bytes(f)
<1>1. HeaderLen \in Nat /\ ChecksumLen \in Nat
  BY Machine
<1>2. h \in Seq(Byte) /\ Len(h) = HeaderLen
  <2>1. /\ f.type.family \in Byte /\ f.type.r \in Byte
        /\ SeedOf(f) \in Word64 /\ f.num_starts \in Word64 /\ Len(f.segs) \in Word64
    BY BuiltFits
  <2> QED BY <2>1, HeaderType DEF HeaderOf
<1>3. pay \in Seq(Byte) /\ Len(pay) = len /\ len \in Nat
  BY PayloadWritten, BuiltFits
<1>4. b = finish(buf)
  BY DEF to_bytes, HeaderOf, SeedOf
<1> HIDE DEF h, pay, len, b
<1>5. Joins(buf, h, pay)
  BY <1>2, <1>3, JoinedSequence
<1> HIDE DEF buf
<1>6. buf \in Seq(Byte) /\ Len(buf) = HeaderLen + len
  BY <1>2, <1>3, <1>5 DEF Joins
<1>7. /\ b \in Seq(Byte) /\ Len(b) = Len(buf) + ChecksumLen
      /\ \A m \in 1 .. Len(buf) : b[m] = buf[m]
      /\ SubSeq(b, 1, Len(buf)) = buf /\ Checksum(b) = fnv1a(buf)
  BY <1>4, <1>6, Finished
<1>8. Len(b) - ChecksumLen = Len(buf)
  BY <1>1, <1>3, <1>6, <1>7
<1>9. \A m \in 1 .. HeaderLen : b[m] = h[m]
  <2> SUFFICES ASSUME NEW m \in 1 .. HeaderLen PROVE b[m] = h[m]
    OBVIOUS
  <2>1. m \in 1 .. Len(buf)
    BY <1>1, <1>3, <1>6
  <2> QED BY <1>2, <1>5, <1>7, <2>1 DEF Joins
<1>10. \A m \in 1 .. len : b[HeaderLen + m] = pay[m]
  <2> SUFFICES ASSUME NEW m \in 1 .. len PROVE b[HeaderLen + m] = pay[m]
    OBVIOUS
  <2>1. HeaderLen + m \in 1 .. Len(buf)
    BY <1>1, <1>3, <1>6
  <2>2. buf[HeaderLen + m] = pay[m]
    BY <1>2, <1>3, <1>5 DEF Joins
  <2> QED BY <1>7, <2>1, <2>2
<1>11. BeginsWith(b, h)
  <2>1. Len(b) >= HeaderLen
    BY <1>1, <1>3, <1>6, <1>7
  <2> QED BY <1>9, <2>1 DEF BeginsWith
<1>12. Len(b) = HeaderLen + len + ChecksumLen
  BY <1>1, <1>3, <1>6, <1>7
<1>13. Checksum(b) = fnv1a(SubSeq(b, 1, Len(b) - ChecksumLen))
  BY <1>7, <1>8
<1> QED BY <1>7, <1>10, <1>11, <1>12, <1>13 DEF b, h, pay, len

-----------------------------------------------------------------------------
(* What decode makes of it                                                 *)

LEMMA VerdictOk ==
  ASSUME NEW bytes, NEW t, Verdict(bytes, t) = "ok"
  PROVE  /\ ~(Len(bytes) < HeaderLen + ChecksumLen)
         /\ fnv1a(SubSeq(bytes, 1, Len(bytes) - ChecksumLen)) = Checksum(bytes)
         /\ Family(bytes) = t.family /\ Width(bytes) = t.r
         /\ GoodGeometry(NumStarts(bytes), SegmentCount(bytes), t)
         /\ TotalLen(SegmentCount(bytes), t) = Len(bytes)
BY DEF Verdict

LEMMA HeaderOfBuiltRead ==
  ASSUME NEW f \in Built, NEW bytes \in Seq(Byte), BeginsWith(bytes, HeaderOf(f))
  PROVE  /\ bytes[1] = Magic /\ Family(bytes) = f.type.family /\ Width(bytes) = f.type.r
         /\ Reserved(bytes) = 0
         /\ Seed(bytes) = SeedOf(f) /\ NumStarts(bytes) = f.num_starts
         /\ SegmentCount(bytes) = Len(f.segs)
<1>1. /\ f.type.family \in Byte /\ f.type.r \in Byte
      /\ SeedOf(f) \in Word64 /\ f.num_starts \in Word64 /\ Len(f.segs) \in Word64
  BY BuiltFits
<1> QED BY <1>1, HeaderRead DEF HeaderOf

LEMMA EncodedVerdict ==
  ASSUME NEW f \in Built, NEW t \in Families
  PROVE  IF t = f.type THEN Verdict(to_bytes(f), t) = "ok"
         ELSE Verdict(to_bytes(f), t) \in {"WrongFamily", "WrongResultWidth"}
<1> DEFINE b == to_bytes(f)
           v == Verdict(b, t)
<1>1. /\ b \in Seq(Byte) /\ Len(b) = HeaderLen + PayloadBytes(f) + ChecksumLen
      /\ BeginsWith(b, HeaderOf(f))
      /\ Checksum(b) = fnv1a(SubSeq(b, 1, Len(b) - ChecksumLen))
  BY BytesWritten
<1> HIDE DEF b
<1>2. /\ b[1] = Magic /\ Family(b) = f.type.family /\ Width(b) = f.type.r
      /\ Reserved(b) = 0
      /\ Seed(b) = SeedOf(f) /\ NumStarts(b) = f.num_starts
      /\ SegmentCount(b) = Len(f.segs)
  BY <1>1, HeaderOfBuiltRead
<1>3. ~(Len(b) < HeaderLen + ChecksumLen)
  <2>1. HeaderLen \in Nat /\ ChecksumLen \in Nat /\ PayloadBytes(f) \in Nat
    BY Machine, BuiltFits
  <2> QED BY <1>1, <2>1
<1>4. v = IF Family(b) # t.family THEN "WrongFamily"
          ELSE IF Width(b) # t.r THEN "WrongResultWidth"
          ELSE IF ~GoodGeometry(NumStarts(b), SegmentCount(b), t) THEN "BadGeometry"
          ELSE IF TotalLen(SegmentCount(b), t) # Len(b) THEN "LengthMismatch"
          ELSE IF t.family = 1 /\ Seed(b) \notin DOMAIN RawSeed THEN "BadSeed"
          ELSE "ok"
  BY <1>1, <1>2, <1>3 DEF Verdict
<1> HIDE DEF v
<1>5. CASE t = f.type
  <2>1. Family(b) = t.family /\ Width(b) = t.r
    BY <1>2, <1>5
  <2>2. GoodGeometry(NumStarts(b), SegmentCount(b), t) /\ TotalLen(SegmentCount(b), t) = Len(b)
    BY <1>1, <1>2, <1>5, BuiltGeometry
  <2>3. t.family = 1 => Seed(b) \in DOMAIN RawSeed
    BY <1>2, <1>5, BuiltAssumption DEF SeedOf
  <2>4. v = "ok"
    BY <1>4, <2>1, <2>2, <2>3
  <2> QED BY <1>5, <2>4 DEF v, b
<1>6. CASE t # f.type
  <2>1. f.type \in Families
    BY BuiltFits
  <2>2. f.type.family # t.family \/ f.type.r # t.r
    BY <1>6, <2>1, FamiliesAssumption
  <2>3. v \in {"WrongFamily", "WrongResultWidth"}
    BY <1>2, <1>4, <2>2
  <2> QED BY <1>6, <2>3 DEF v, b
<1> QED BY <1>5, <1>6

(* The segments are those that were written.                               *)
LEMMA SegmentsRead ==
  ASSUME NEW f \in Built
  PROVE  Decoded(to_bytes(f), f.type).segs = f.segs
<1> DEFINE b == to_bytes(f)
           e == f.type.elem
           count == Len(f.segs)
           len == PayloadBytes(f)
           segments == SubSeq(b, HeaderLen + 1, HeaderLen + len)
           Chunk(p) == SubSeq(segments, (p - 1) * e + 1, p * e)
<1>1. /\ b \in Seq(Byte) /\ Len(b) = HeaderLen + len + ChecksumLen
      /\ BeginsWith(b, HeaderOf(f))
      /\ \A m \in 1 .. len : b[HeaderLen + m] = payload(f)[m]
  BY BytesWritten
<1>2. SegmentCount(b) = count
  BY <1>1, HeaderOfBuiltRead
<1>3. /\ e \in Nat \ {0} /\ count \in Nat /\ len \in Nat /\ f.segs \in Seq(Nat)
      /\ len = count * e
  BY BuiltFits DEF PayloadBytes
<1>4. PayloadLen(SegmentCount(b), f.type) = len
  BY <1>2, BuiltGeometry
<1>5. Decoded(b, f.type).segs = [p \in 1 .. Len(segments) \div e |-> from_le_bytes(Chunk(p))]
  BY <1>4 DEF Decoded
<1>6. HeaderLen \in Nat /\ ChecksumLen \in Nat
  BY Machine
<1> HIDE DEF b, len
<1>7. /\ segments \in Seq(Byte) /\ Len(segments) = len
      /\ \A m \in 1 .. len : segments[m] = payload(f)[m]
  <2>1. HeaderLen + len <= Len(b)
    BY <1>1, <1>3, <1>6
  <2>2. b \in Seq(Byte) /\ HeaderLen \in Nat /\ len \in Nat
    BY <1>1, <1>3, <1>6
  <2>3. /\ segments \in Seq(Byte) /\ Len(segments) = len
        /\ \A m \in 1 .. len : segments[m] = b[HeaderLen + m]
    BY <2>1, <2>2, PartOfSequence
  <2> QED BY <1>1, <2>3
<1> HIDE DEF segments, e, count
<1>8. Len(segments) \div e = count
  <2>1. len = count * e + 0 /\ 0 \in 0 .. e - 1
    BY <1>3
  <2>2. (count * e + 0) \div e = count
    BY <1>3, <2>1, DivisionIsUnique
  <2> QED BY <1>7, <2>1, <2>2
<1>9. ASSUME NEW p \in 1 .. count PROVE from_le_bytes(Chunk(p)) = f.segs[p]
  <2> DEFINE k == (p - 1) * e
             s == SubSeq(segments, k + 1, k + e)
             w == to_le_bytes(f.segs[p], e)
  <2>1. k \in Nat /\ k + e = p * e /\ k + e <= len
    <3>1. p - 1 \in Nat /\ p \in Nat /\ p <= count
      BY <1>3
    <3>2. (p - 1) * e \in Nat /\ (p - 1) * e + e = p * e
      BY <1>3, <3>1
    <3>3. p * e <= count * e
      BY <1>3, <3>1, MultipleMonotone
    <3> QED BY <1>3, <3>2, <3>3
  <2>2. f.segs[p] \in Nat /\ f.segs[p] < Power(Base, e)
    <3>1. p \in DOMAIN f.segs
      BY <1>3 DEF count
    <3>2. \A i \in DOMAIN f.segs : f.segs[i] < Power(Base, f.type.elem)
      BY BuiltAssumption
    <3> QED BY <1>3, <3>1, <3>2 DEF e
  <2>3. w \in Seq(Byte) /\ Len(w) = e
    BY <1>3, <2>2, ToLeType
  <2>4. \A m \in 1 .. e : k + m \in 1 .. len /\ payload(f)[k + m] = w[m]
    BY PayloadWritten DEF e, count, len
  <2>5. Chunk(p) = s
    BY <2>1
  <2> HIDE DEF k
  <2>6. s \in Seq(Byte) /\ Len(s) = e /\ \A m \in 1 .. e : s[m] = segments[k + m]
    BY <1>3, <1>7, <2>1, PartOfSequence
  <2>7. \A m \in 1 .. e : s[m] = w[m]
    BY <1>7, <2>4, <2>6
  <2> HIDE DEF s, w
  <2>8. s = w
    BY <2>3, <2>6, <2>7, SameSequence
  <2>9. from_le_bytes(w) = f.segs[p]
    BY <1>3, <2>2, FromToLe DEF w
  <2> QED BY <2>5, <2>8, <2>9
<1>10. Decoded(b, f.type).segs = [p \in 1 .. count |-> f.segs[p]]
  <2> HIDE DEF Chunk
  <2>1. Decoded(b, f.type).segs = [p \in 1 .. count |-> from_le_bytes(Chunk(p))]
    BY <1>5, <1>8 DEF Chunk, segments, e
  <2> QED BY <1>9, <2>1
<1>11. f.segs = [p \in 1 .. count |-> f.segs[p]]
  BY <1>3 DEF count
<1> QED BY <1>10, <1>11 DEF b

LEMMA DecodedIsBuilt ==
  ASSUME NEW f \in Built
  PROVE  Decoded(to_bytes(f), f.type) = f
<1> DEFINE b == to_bytes(f)
           d == Decoded(b, f.type)
<1>1. b \in Seq(Byte) /\ BeginsWith(b, HeaderOf(f))
  BY BytesWritten
<1>2. Seed(b) = SeedOf(f) /\ NumStarts(b) = f.num_starts
  BY <1>1, HeaderOfBuiltRead
<1>3. d.segs = f.segs
  BY SegmentsRead
<1>4. /\ f \in [type : Families, num_starts : Nat, segs : Seq(Nat),
                raw_seed : 0 .. U64 - 1, ordinal_seed : 0 .. U64 - 1]
      /\ f.type.family = 1 => f.raw_seed = RawSeed[f.ordinal_seed]
      /\ f.type.family = 0 => f.ordinal_seed = 0
  BY BuiltAssumption
<1>5. f.type.family \in {0, 1}
  BY BuiltFits
<1>6. d.type = f.type /\ d.num_starts = NumStarts(b)
  BY DEF Decoded
<1>7. /\ d.raw_seed = (IF f.type.family = 1 THEN RawSeed[Seed(b)] ELSE Seed(b))
      /\ d.ordinal_seed = (IF f.type.family = 1 THEN Seed(b) ELSE 0)
  BY DEF Decoded
<1>8. d = [type |-> d.type, num_starts |-> d.num_starts, raw_seed |-> d.raw_seed,
           ordinal_seed |-> d.ordinal_seed, segs |-> d.segs]
  BY DEF Decoded
<1> HIDE DEF d, b
<1>9. d.raw_seed = f.raw_seed /\ d.ordinal_seed = f.ordinal_seed
  BY <1>2, <1>4, <1>5, <1>7 DEF SeedOf
<1>10. f = [type |-> f.type, num_starts |-> f.num_starts, raw_seed |-> f.raw_seed,
            ordinal_seed |-> f.ordinal_seed, segs |-> f.segs]
  BY <1>4
<1> QED BY <1>2, <1>3, <1>6, <1>8, <1>9, <1>10 DEF d, b

-----------------------------------------------------------------------------
(* Damage                                                                  *)

Body(bytes)    == SubSeq(bytes, 1, Len(bytes) - ChecksumLen)
Trailer(bytes) == SubSeq(bytes, Len(bytes) - ChecksumLen + 1, Len(bytes))

LEMMA BodyAndTrailer ==
  ASSUME NEW bytes \in Seq(Byte), NEW N \in Nat, Len(bytes) = N + ChecksumLen
  PROVE  /\ Body(bytes) \in Seq(Byte) /\ Len(Body(bytes)) = N
         /\ \A m \in 1 .. N : Body(bytes)[m] = bytes[m]
         /\ Trailer(bytes) \in Seq(Byte) /\ Len(Trailer(bytes)) = ChecksumLen
         /\ \A m \in 1 .. ChecksumLen : Trailer(bytes)[m] = bytes[N + m]
         /\ Checksum(bytes) = from_le_bytes(Trailer(bytes))
<1> DEFINE s == SubSeq(bytes, 0 + 1, 0 + N)
           t == SubSeq(bytes, N + 1, N + ChecksumLen)
<1>1. ChecksumLen \in Nat /\ ChecksumLen = WordLen
  BY Machine
<1>2. s \in Seq(Byte) /\ Len(s) = N /\ \A m \in 1 .. N : s[m] = bytes[0 + m]
  <2>1. 0 \in Nat /\ 0 + N <= Len(bytes)
    BY <1>1
  <2> QED BY <2>1, PartOfSequence
<1>3. /\ t \in Seq(Byte) /\ Len(t) = ChecksumLen
      /\ \A m \in 1 .. ChecksumLen : t[m] = bytes[N + m]
  BY <1>1, PartOfSequence
<1>4. Len(bytes) - ChecksumLen = N
  BY <1>1
<1>5. Body(bytes) = s
  BY <1>4 DEF Body
<1>6. Trailer(bytes) = t
  BY <1>4 DEF Trailer
<1>7. Checksum(bytes) = from_le_bytes(t)
  <2>1. (N + 1) + WordLen - 1 = N + ChecksumLen
    BY <1>1
  <2> QED BY <1>4, <2>1 DEF Checksum, Word
<1> HIDE DEF s, t
<1>8. \A m \in 1 .. N : s[m] = bytes[m]
  BY <1>2
<1> QED BY <1>2, <1>3, <1>5, <1>6, <1>7, <1>8

(* A changed byte of the body changes the hash, one of the trailer changes *)
(* the number it is compared with.                                         *)
LEMMA ChangedIsRejected ==
  ASSUME NEW f \in Built, NEW t, NEW bytes \in Seq(Byte), NEW p,
         ChangedAt(to_bytes(f), bytes, p)
  PROVE  Verdict(bytes, t) # "ok"
<1> SUFFICES ASSUME Verdict(bytes, t) = "ok" PROVE FALSE
  OBVIOUS
<1> DEFINE b == to_bytes(f)
           N == HeaderLen + PayloadBytes(f)
<1>1. N \in Nat /\ ChecksumLen \in Nat
  <2>1. HeaderLen \in Nat /\ ChecksumLen \in Nat
    BY Machine
  <2> QED BY <2>1, BuiltFits
<1>2. b \in Seq(Byte) /\ Len(b) = N + ChecksumLen /\ Checksum(b) = fnv1a(Body(b))
  BY BytesWritten DEF Body
<1>3. ChangedAt(b, bytes, p)
  OBVIOUS
<1> HIDE DEF b, N
<1>4. /\ p \in 1 .. N + ChecksumLen /\ Len(bytes) = N + ChecksumLen /\ bytes[p] # b[p]
      /\ \A m \in 1 .. N + ChecksumLen : m # p => bytes[m] = b[m]
  BY <1>2, <1>3 DEF ChangedAt
<1>5. fnv1a(Body(bytes)) = Checksum(bytes)
  BY VerdictOk DEF Body
<1> DEFINE s == Body(b)
           z == Body(bytes)
           u == Trailer(b)
           v == Trailer(bytes)
<1>6. /\ s \in Seq(Byte) /\ Len(s) = N /\ \A m \in 1 .. N : s[m] = b[m]
      /\ u \in Seq(Byte) /\ Len(u) = ChecksumLen
      /\ \A m \in 1 .. ChecksumLen : u[m] = b[N + m]
      /\ Checksum(b) = from_le_bytes(u)
  BY <1>1, <1>2, BodyAndTrailer
<1>7. /\ z \in Seq(Byte) /\ Len(z) = N /\ \A m \in 1 .. N : z[m] = bytes[m]
      /\ v \in Seq(Byte) /\ Len(v) = ChecksumLen
      /\ \A m \in 1 .. ChecksumLen : v[m] = bytes[N + m]
      /\ Checksum(bytes) = from_le_bytes(v)
  BY <1>1, <1>4, BodyAndTrailer
<1>8. fnv1a(s) = from_le_bytes(u) /\ fnv1a(z) = from_le_bytes(v)
  BY <1>2, <1>5, <1>6, <1>7
<1> HIDE DEF s, z, u, v
<1>9. CASE p \in 1 .. N
  <2>1. ChangedAt(s, z, p)
    <3>1. ASSUME NEW m \in 1 .. N PROVE (z[m] = s[m]) <=> (bytes[m] = b[m])
      BY <1>6, <1>7
    <3>2. 1 .. N \subseteq 1 .. N + ChecksumLen
      BY <1>1
    <3>3. z[p] # s[p] /\ \A m \in 1 .. N : m # p => z[m] = s[m]
      BY <1>4, <1>9, <3>1, <3>2
    <3> QED BY <1>6, <1>7, <1>9, <3>3 DEF ChangedAt
  <2>2. u = v
    <3>1. ASSUME NEW m \in 1 .. ChecksumLen PROVE u[m] = v[m]
      <4>1. N + m \in 1 .. N + ChecksumLen /\ N + m # p
        BY <1>1, <1>9
      <4> QED BY <1>4, <1>6, <1>7, <4>1
    <3> QED BY <1>6, <1>7, <3>1, SameSequence
  <2>3. fnv1a(s) # fnv1a(z)
    BY <1>6, <1>7, <2>1, HashChanged
  <2> QED BY <1>8, <2>2, <2>3
<1>10. CASE p \notin 1 .. N
  <2> DEFINE q == p - N
  <2>1. q \in 1 .. ChecksumLen /\ p = N + q
    BY <1>1, <1>4, <1>10
  <2>2. s = z
    <3>1. ASSUME NEW m \in 1 .. N PROVE s[m] = z[m]
      <4>1. m \in 1 .. N + ChecksumLen /\ m # p
        BY <1>1, <1>10
      <4> QED BY <1>4, <1>6, <1>7, <4>1
    <3> QED BY <1>6, <1>7, <3>1, SameSequence
  <2> HIDE DEF q
  <2>3. ChangedAt(u, v, q)
    <3>1. v[q] # u[q]
      BY <1>4, <1>6, <1>7, <2>1
    <3>2. ASSUME NEW m \in 1 .. ChecksumLen, m # q PROVE v[m] = u[m]
      <4>1. N + m \in 1 .. N + ChecksumLen /\ N + m # p
        BY <1>1, <2>1, <3>2
      <4> QED BY <1>4, <1>6, <1>7, <4>1
    <3> QED BY <1>6, <1>7, <2>1, <3>1, <3>2 DEF ChangedAt
  <2>4. from_le_bytes(u) # from_le_bytes(v)
    BY <1>6, <1>7, <2>3, FromLeChanged
  <2> QED BY <1>8, <2>2, <2>4
<1> QED BY <1>9, <1>10

(* The declared length is that of the buffer that was written: another     *)
(* buffer with its header is not accepted, even if its checksum fits.      *)
LEMMA ResizedIsRejected ==
  ASSUME NEW f \in Built, NEW t \in Families, NEW bytes \in Seq(Byte),
         Len(bytes) # Len(to_bytes(f)),
         \A m \in 1 .. Len(bytes) : m <= Len(to_bytes(f)) => bytes[m] = to_bytes(f)[m]
  PROVE  Verdict(bytes, t) # "ok"
<1> SUFFICES ASSUME Verdict(bytes, t) = "ok" PROVE FALSE
  OBVIOUS
<1> DEFINE b == to_bytes(f)
           h == HeaderOf(f)
<1>1. HeaderLen \in Nat /\ ChecksumLen \in Nat /\ PayloadBytes(f) \in Nat
  BY Machine, BuiltFits
<1>2. /\ b \in Seq(Byte) /\ Len(b) = HeaderLen + PayloadBytes(f) + ChecksumLen
      /\ BeginsWith(b, h)
  BY BytesWritten
<1>3. /\ Len(bytes) # Len(b)
      /\ \A m \in 1 .. Len(bytes) : m <= Len(b) => bytes[m] = b[m]
  OBVIOUS
<1>4. BeginsWith(bytes, HeaderOf(f)) <=> BeginsWith(bytes, h)
  OBVIOUS
<1> HIDE DEF b, h
<1>5. BeginsWith(bytes, h)
  <2>1. Len(bytes) \in Nat /\ Len(bytes) >= HeaderLen /\ Len(b) \in Nat /\ Len(b) >= HeaderLen
    BY <1>1, <1>2, VerdictOk
  <2>2. ASSUME NEW m \in 1 .. HeaderLen PROVE bytes[m] = h[m]
    <3>1. m \in 1 .. Len(bytes) /\ m <= Len(b)
      BY <1>1, <2>1
    <3>2. bytes[m] = b[m]
      BY <1>3, <3>1
    <3>3. b[m] = h[m]
      BY <1>2 DEF BeginsWith
    <3> QED BY <3>2, <3>3
  <2> QED BY <2>1, <2>2 DEF BeginsWith
<1>6. /\ Family(bytes) = f.type.family /\ Width(bytes) = f.type.r
      /\ SegmentCount(bytes) = Len(f.segs)
  BY <1>4, <1>5, HeaderOfBuiltRead
<1>7. /\ Family(bytes) = t.family /\ Width(bytes) = t.r
      /\ TotalLen(SegmentCount(bytes), t) = Len(bytes)
  BY VerdictOk
<1>8. t = f.type
  <2>1. f.type \in Families
    BY BuiltFits
  <2> QED BY <1>6, <1>7, <2>1, FamiliesAssumption
<1>9. TotalLen(Len(f.segs), f.type) = Len(b)
  BY <1>2, BuiltGeometry
<1> QED BY <1>3, <1>6, <1>7, <1>8, <1>9

-----------------------------------------------------------------------------
(* The envelope's promises                                                 *)

(* Nothing that decode has computed wrapped, so the filter has the         *)
(* segments that its header declares.                                      *)
LEMMA AcceptedGeometry ==
  ASSUME NEW bytes \in Seq(Byte), NEW t \in Families, Verdict(bytes, t) = "ok"
  PROVE  LET f == Decoded(bytes, t)
         IN  /\ f.type = t
             /\ f.num_starts > t.w
             /\ QueriesInBounds(f.num_starts, Len(f.segs), t)
<1> DEFINE starts == NumStarts(bytes)
           count == SegmentCount(bytes)
           e == t.elem
           w == t.w
           len == PayloadLen(count, t)
           segments == SubSeq(bytes, HeaderLen + 1, HeaderLen + len)
           Chunk(p) == SubSeq(segments, (p - 1) * t.elem + 1, p * t.elem)
           f == Decoded(bytes, t)
<1>1. /\ HeaderLen \in Nat /\ HeaderLen = 4 + 3 * WordLen /\ WordLen \in Nat \ {0}
      /\ ChecksumLen \in Nat /\ UsizeMax \in Nat /\ U64 \in Nat \ {0}
  BY Machine
<1>2. /\ Len(bytes) \in Nat /\ Len(bytes) >= HeaderLen + ChecksumLen
      /\ GoodGeometry(starts, count, t) /\ TotalLen(count, t) = Len(bytes)
  <2>1. ~(Len(bytes) < HeaderLen + ChecksumLen)
    BY VerdictOk
  <2>2. Len(bytes) \in Nat
    OBVIOUS
  <2>3. Len(bytes) >= HeaderLen + ChecksumLen
    BY <1>1, <2>1, <2>2
  <2> QED BY <2>2, <2>3, VerdictOk
<1>3. t \in Types /\ w \in Nat \ {0} /\ e \in Nat \ {0}
  BY FamiliesAssumption DEF Types
<1>4. starts \in Nat
  <2>1. 5 + WordLen \in Nat \ {0} /\ (5 + WordLen) + WordLen - 1 <= Len(bytes)
    BY <1>1, <1>2
  <2> QED BY <2>1, WordType DEF NumStarts
<1>5. count \in Nat
  <2>1. 5 + 2 * WordLen \in Nat \ {0} /\ (5 + 2 * WordLen) + WordLen - 1 <= Len(bytes)
    BY <1>1, <1>2
  <2> QED BY <2>1, WordType DEF SegmentCount
<1>6. f.type = t /\ f.num_starts = starts
  BY DEF Decoded
<1>7. f.segs = [p \in 1 .. Len(segments) \div e |-> from_le_bytes(Chunk(p))]
  BY DEF Decoded
<1>8. /\ count * e <= UsizeMax /\ HeaderLen + len + ChecksumLen <= UsizeMax
      /\ starts + w - 1 < U64 /\ SlotsOf(starts, t) >= 2 * w
      /\ SlotsOf(starts, t) = (starts + w - 1) % U64
  BY <1>2 DEF GoodGeometry, GoodSlots, SlotsOf
<1>9. len = (count * e) % (UsizeMax + 1)
  BY DEF PayloadLen
<1>10. TotalLen(count, t) = (HeaderLen + len + ChecksumLen) % (UsizeMax + 1)
  BY DEF TotalLen
<1>11. QueriesInBounds(starts, count, t)
  BY <1>2, <1>3, <1>4, <1>5, AcceptedQueriesInBounds
<1> HIDE DEF starts, count, e, w, len, Chunk, f
<1>12. starts > w
  <2> DEFINE x == starts + w - 1
  <2>1. x \in Nat /\ x < U64
    BY <1>3, <1>4, <1>8
  <2>2. SlotsOf(starts, t) = x % U64
    BY <1>8
  <2> HIDE DEF x
  <2>3. SlotsOf(starts, t) = x
    BY <1>1, <2>1, <2>2
  <2> QED BY <1>3, <1>4, <1>8, <2>3 DEF x
<1>13. len = count * e /\ len \in Nat
  <2> DEFINE x == count * e
  <2>1. x \in Nat /\ x <= UsizeMax /\ len = x % (UsizeMax + 1)
    BY <1>3, <1>5, <1>8, <1>9
  <2> HIDE DEF x
  <2>2. len = x
    BY <1>1, <2>1
  <2> QED BY <2>1, <2>2 DEF x
<1>14. Len(bytes) = HeaderLen + len + ChecksumLen
  <2> DEFINE x == HeaderLen + len + ChecksumLen
  <2>1. len \in Nat /\ HeaderLen \in Nat /\ ChecksumLen \in Nat
    BY <1>1, <1>13
  <2>2. Len(bytes) = x % (UsizeMax + 1) /\ x <= UsizeMax
    BY <1>2, <1>8, <1>10
  <2>3. x \in Nat
    BY <2>1
  <2> HIDE DEF x
  <2>4. Len(bytes) = x
    BY <1>1, <2>2, <2>3
  <2> QED BY <2>4 DEF x
<1>15. Len(segments) = len
  <2>1. HeaderLen \in Nat /\ len \in Nat /\ HeaderLen + len <= Len(bytes)
    BY <1>1, <1>13, <1>14
  <2> QED BY <2>1, PartOfSequence
<1> HIDE DEF segments
<1>16. Len(segments) \div e = count
  <2>1. len = count * e + 0 /\ 0 \in 0 .. e - 1
    BY <1>3, <1>5, <1>13
  <2>2. (count * e + 0) \div e = count
    BY <1>3, <1>5, <2>1, DivisionIsUnique
  <2> QED BY <1>15, <2>1, <2>2
<1>17. Len(f.segs) = count
  <2>1. f.segs = [p \in 1 .. count |-> from_le_bytes(Chunk(p))]
    BY <1>7, <1>16
  <2> QED BY <1>5, <2>1
<1> QED BY <1>6, <1>11, <1>12, <1>17 DEF f, w, starts

(* What from_bytes returns                                                 *)
Outcome(bytes, t) ==
  IF Verdict(bytes, t) = "ok"
  THEN [verdict |-> Verdict(bytes, t), filter |-> Decoded(bytes, t)]
  ELSE [verdict |-> Verdict(bytes, t)]

IsChanged(b, bytes) == \E p : ChangedAt(b, bytes, p)

IsResized(b, bytes) ==
  /\ Len(bytes) # Len(b)
  /\ \A m \in 1 .. Len(bytes) : m <= Len(b) => bytes[m] = b[m]

(* How the buffer relates to the filter, and the result to the buffer      *)
FormatInv ==
  /\ target \in Families
  /\ stored \in Seq(Byte)
  /\ history \in {"empty", "encoded", "damaged", "foreign"}
  /\ history \in {"encoded", "damaged"} => filter \in Built
  /\ history = "encoded" => stored = to_bytes(filter)
  /\ history = "damaged" => \/ IsChanged(to_bytes(filter), stored)
                            \/ IsResized(to_bytes(filter), stored)
  /\ history = "empty" => result = Nothing
  /\ result # Nothing => result = Outcome(stored, target)

LEMMA FormatInvInit == Init => FormatInv
<1> SUFFICES ASSUME Init PROVE FormatInv
  OBVIOUS
<1>1. <<>> \in Seq(Byte)
  OBVIOUS
<1> QED BY <1>1 DEF Init, FormatInv

LEMMA DamageKept ==
  ASSUME FormatInv, Damage
  PROVE  /\ stored' \in Seq(Byte)
         /\ IsChanged(to_bytes(filter), stored') \/ IsResized(to_bytes(filter), stored')
<1> DEFINE b == to_bytes(filter)
<1>1. stored = b /\ b \in Seq(Byte)
  BY DEF FormatInv, Damage
<1>2. \/ \E p \in 1 .. Len(b), v \in Byte : v # b[p] /\ stored' = [b EXCEPT ![p] = v]
      \/ \E p \in 0 .. Len(b) - 1 : stored' = SubSeq(b, 1, p)
      \/ \E v \in Byte : stored' = Append(b, v)
  BY <1>1 DEF Damage
<1> HIDE DEF b
<1>3. CASE \E p \in 1 .. Len(b), v \in Byte : v # b[p] /\ stored' = [b EXCEPT ![p] = v]
  <2>1. PICK p \in 1 .. Len(b), v \in Byte : v # b[p] /\ stored' = [b EXCEPT ![p] = v]
    BY <1>3
  <2>2. stored' \in Seq(Byte) /\ Len(stored') = Len(b)
    BY <1>1, <2>1
  <2>3. stored'[p] = v /\ \A m \in 1 .. Len(b) : m # p => stored'[m] = b[m]
    BY <1>1, <2>1
  <2>4. ChangedAt(b, stored', p)
    BY <2>1, <2>2, <2>3 DEF ChangedAt
  <2> QED BY <2>2, <2>4 DEF IsChanged, b
<1>4. CASE \E p \in 0 .. Len(b) - 1 : stored' = SubSeq(b, 1, p)
  <2>1. PICK p \in 0 .. Len(b) - 1 : stored' = SubSeq(b, 1, p)
    BY <1>4
  <2>2. p \in Nat /\ 0 \in Nat /\ 0 + p <= Len(b) /\ p < Len(b) /\ Len(b) \in Nat
    BY <1>1, <2>1
  <2>3. /\ SubSeq(b, 0 + 1, 0 + p) \in Seq(Byte) /\ Len(SubSeq(b, 0 + 1, 0 + p)) = p
        /\ \A m \in 1 .. p : SubSeq(b, 0 + 1, 0 + p)[m] = b[0 + m]
    BY <1>1, <2>2, PartOfSequence
  <2>4. SubSeq(b, 0 + 1, 0 + p) = stored'
    BY <2>1, <2>2
  <2>5. stored' \in Seq(Byte) /\ Len(stored') = p /\ \A m \in 1 .. p : stored'[m] = b[m]
    BY <2>3, <2>4
  <2>6. IsResized(b, stored')
    BY <2>2, <2>5 DEF IsResized
  <2> QED BY <2>5, <2>6 DEF b
<1>5. CASE \E v \in Byte : stored' = Append(b, v)
  <2>1. PICK v \in Byte : stored' = Append(b, v)
    BY <1>5
  <2>2. /\ stored' \in Seq(Byte) /\ Len(stored') = Len(b) + 1 /\ Len(b) \in Nat
        /\ \A m \in 1 .. Len(b) : stored'[m] = b[m]
    BY <1>1, <2>1
  <2>3. IsResized(b, stored')
    BY <2>2 DEF IsResized
  <2> QED BY <2>2, <2>3 DEF b
<1> QED BY <1>2, <1>3, <1>4, <1>5

LEMMA FormatInvStep == FormatInv /\ [Next]_vars => FormatInv'
<1> SUFFICES ASSUME FormatInv, [Next]_vars PROVE FormatInv'
  OBVIOUS
<1>1. CASE Serialize
  <2>1. filter' \in Built /\ stored' = to_bytes(filter') /\ history' = "encoded"
    BY <1>1 DEF Serialize
  <2>2. stored' \in Seq(Byte)
    BY <2>1, BytesWritten
  <2>3. target' = target /\ result' = Nothing
    BY <1>1 DEF Serialize, FormatInv
  <2> QED BY <2>1, <2>2, <2>3 DEF FormatInv
<1>2. CASE Damage
  <2>1. /\ stored' \in Seq(Byte)
        /\ IsChanged(to_bytes(filter), stored') \/ IsResized(to_bytes(filter), stored')
    BY <1>2, DamageKept
  <2>2. /\ history = "encoded" /\ history' = "damaged" /\ result = Nothing
        /\ filter' = filter /\ target' = target /\ result' = result
    BY <1>2 DEF Damage
  <2> QED BY <2>1, <2>2 DEF FormatInv
<1>3. CASE Receive
  <2>1. PICK h \in Foreign.headers, len \in Foreign.payloads :
          stored' = finish(h \o [p \in 1 .. len |-> 0])
    BY <1>3 DEF Receive
  <2>2. h \in Seq(Byte) /\ len \in Nat
    BY ForeignAssumption
  <2> DEFINE z == [p \in 1 .. len |-> 0]
  <2>3. z \in Seq(Byte)
    <3>1. 0 \in Byte
      BY Machine DEF Byte
    <3> QED BY <2>2, <3>1
  <2>4. Joins(h \o z, h, z)
    BY <2>2, <2>3, JoinedSequence
  <2>5. h \o z \in Seq(Byte)
    BY <2>4 DEF Joins
  <2>6. stored' = finish(h \o z)
    BY <2>1
  <2> HIDE DEF z
  <2>7. stored' \in Seq(Byte)
    BY <2>5, <2>6, Finished
  <2>8. history' = "foreign" /\ target' = target /\ result' = Nothing
    BY <1>3 DEF Receive, FormatInv
  <2> QED BY <2>7, <2>8 DEF FormatInv
<1>4. CASE FromBytes
  <2>1. /\ history # "empty" /\ result' = Outcome(stored, target)
        /\ filter' = filter /\ stored' = stored /\ history' = history /\ target' = target
    BY <1>4 DEF FromBytes, Outcome
  <2> QED BY <2>1 DEF FormatInv
<1>5. CASE UNCHANGED vars
  BY <1>5 DEF FormatInv, vars
<1> QED BY <1>1, <1>2, <1>3, <1>4, <1>5 DEF Next

LEMMA FormatInvariant == Spec => []FormatInv
BY FormatInvInit, FormatInvStep, PTL DEF Spec

(* Whatever filter a builder returns, of whatever type, is read back with  *)
(* every field and every segment as it was, and by no other type.          *)
THEOREM WrittenIsReadBack == Spec => []RoundTrip
<1>1. FormatInv => RoundTrip
  <2> SUFFICES ASSUME FormatInv, history = "encoded", result # Nothing
               PROVE  IF target = filter.type
                      THEN result = [verdict |-> "ok", filter |-> filter]
                      ELSE result.verdict \in {"WrongFamily", "WrongResultWidth"}
    BY DEF RoundTrip
  <2>1. filter \in Built /\ target \in Families /\ result = Outcome(to_bytes(filter), target)
    BY DEF FormatInv
  <2>2. IF target = filter.type THEN Verdict(to_bytes(filter), target) = "ok"
        ELSE Verdict(to_bytes(filter), target) \in {"WrongFamily", "WrongResultWidth"}
    BY <2>1, EncodedVerdict
  <2>3. CASE target = filter.type
    <3>1. Decoded(to_bytes(filter), target) = filter
      BY <2>1, <2>3, DecodedIsBuilt
    <3> QED BY <2>1, <2>2, <2>3, <3>1 DEF Outcome
  <2>4. CASE target # filter.type
    <3> DEFINE v == Verdict(to_bytes(filter), target)
    <3>1. v \in {"WrongFamily", "WrongResultWidth"} /\ v # "ok"
      BY <2>2, <2>4
    <3>2. result = [verdict |-> v]
      BY <2>1, <3>1 DEF Outcome
    <3> HIDE DEF v
    <3>3. result.verdict = v
      BY <3>2
    <3> QED BY <2>4, <3>1, <3>3
  <2> QED BY <2>3, <2>4
<1> QED BY <1>1, FormatInvariant, PTL

LEMMA VerdictReported ==
  ASSUME FormatInv, result # Nothing
  PROVE  /\ result.verdict = Verdict(stored, target)
         /\ result.verdict = "ok" => result.filter = Decoded(stored, target)
<1>1. result = Outcome(stored, target)
  BY DEF FormatInv
<1> QED BY <1>1 DEF Outcome

(* No change of one byte, no truncation and no byte too many goes          *)
(* unnoticed, wherever it is and whatever the filter, for every odd prime  *)
(* and every width of the word.                                            *)
THEOREM DamageIsSeen == Spec => []DamageIsDetected
<1>1. FormatInv => DamageIsDetected
  <2> SUFFICES ASSUME FormatInv, history = "damaged", result # Nothing
               PROVE  result.verdict # "ok"
    BY DEF DamageIsDetected
  <2>1. /\ filter \in Built /\ target \in Families /\ stored \in Seq(Byte)
        /\ IsChanged(to_bytes(filter), stored) \/ IsResized(to_bytes(filter), stored)
    BY DEF FormatInv
  <2>2. Verdict(stored, target) # "ok"
    <3>1. CASE IsChanged(to_bytes(filter), stored)
      <4>1. PICK p : ChangedAt(to_bytes(filter), stored, p)
        BY <3>1 DEF IsChanged
      <4> QED BY <2>1, <4>1, ChangedIsRejected
    <3>2. CASE IsResized(to_bytes(filter), stored)
      BY <2>1, <3>2, ResizedIsRejected DEF IsResized
    <3> QED BY <2>1, <3>1, <3>2
  <2> QED BY <2>2, VerdictReported
<1> QED BY <1>1, FormatInvariant, PTL

(* Whatever bytes are read, whoever made them: a filter that is accepted   *)
(* is of the type asked for, has more than one block and has every segment *)
(* that a query may read.                                                  *)
THEOREM AcceptedFiltersAreSound == Spec => []AcceptedIsSound
<1>1. FormatInv => AcceptedIsSound
  <2> SUFFICES ASSUME FormatInv, result # Nothing, result.verdict = "ok"
               PROVE  LET f == result.filter
                      IN  /\ f.type = target
                          /\ f.num_starts > target.w
                          /\ QueriesInBounds(f.num_starts, Len(f.segs), target)
    BY DEF AcceptedIsSound
  <2>1. Verdict(stored, target) = "ok" /\ result.filter = Decoded(stored, target)
    BY VerdictReported
  <2>2. stored \in Seq(Byte) /\ target \in Families
    BY DEF FormatInv
  <2> QED BY <2>1, <2>2, AcceptedGeometry
<1> QED BY <1>1, FormatInvariant, PTL
=============================================================================
