------------------------------ MODULE Numbers -------------------------------
(***************************************************************************)
(* Facts about quotients and remainders that counters, rings and program   *)
(* counters of any size rest on; the least of some numbers, and recursion  *)
(* over them.                                                              *)
(***************************************************************************)
EXTENDS Integers, FiniteSetTheorems, WellFoundedInduction, TLAPS

LEMMA Division ==
  ASSUME NEW a \in Nat, NEW b \in Nat \ {0}
  PROVE  /\ a \div b \in Nat /\ a % b \in 0..b - 1
         /\ a = b * (a \div b) + (a % b)
OBVIOUS

LEMMA DivisionOfInt ==
  ASSUME NEW a \in Int, NEW b \in Nat \ {0}
  PROVE  /\ a \div b \in Int /\ a % b \in 0..b - 1
         /\ a = b * (a \div b) + (a % b)
OBVIOUS

(***************************************************************************)
(* A remainder is the only one.                                            *)
(***************************************************************************)
LEMMA Remainder ==
  ASSUME NEW b \in Nat \ {0}, NEW q \in Int, NEW r \in 0..b - 1,
         NEW x \in Int, x = b * q + r
  PROVE  x % b = r
<1> DEFINE p == x \div b
           s == x % b
<1>1. p \in Int /\ s \in 0..b - 1 /\ x = b * p + s
  BY DivisionOfInt
<1> SUFFICES s = r
  OBVIOUS
<1> HIDE DEF p, s
<1>2. b * (p - q) = r - s
  BY <1>1
<1>3. CASE p - q >= 1
  <2>1. b * (p - q) >= b
    BY <1>1, <1>3
  <2> QED BY <1>1, <1>2, <2>1
<1>4. CASE p - q <= -1
  <2>1. b * (p - q) <= 0 - b
    BY <1>1, <1>4
  <2> QED BY <1>1, <1>2, <2>1
<1>5. CASE p - q = 0
  BY <1>1, <1>2, <1>5
<1> QED BY <1>1, <1>3, <1>4, <1>5

LEMMA WithinTurn ==
  ASSUME NEW b \in Nat \ {0}, NEW r \in 0..b - 1
  PROVE  r % b = r
<1>1. b * 0 = 0 /\ 0 \in Int /\ r \in Int
  OBVIOUS
<1>2. r = b * 0 + r
  BY <1>1
<1> QED BY <1>1, <1>2, Remainder

LEMMA Quotient ==
  ASSUME NEW b \in Nat \ {0}, NEW q \in Int, NEW r \in 0..b - 1,
         NEW x \in Int, x = b * q + r
  PROVE  x \div b = q
<1> DEFINE p == x \div b
           s == x % b
<1>1. p \in Int /\ s = r /\ x = b * p + s
  BY DivisionOfInt, Remainder
<1> SUFFICES p = q
  OBVIOUS
<1> HIDE DEF p, s
<1>2. b * (p - q) = 0
  BY <1>1
<1>3. CASE p - q >= 1
  <2>1. b * (p - q) >= b
    BY <1>1, <1>3
  <2> QED BY <1>2, <2>1
<1>4. CASE p - q <= -1
  <2>1. b * (p - q) <= 0 - b
    BY <1>1, <1>4
  <2> QED BY <1>2, <2>1
<1> QED BY <1>1, <1>3, <1>4

LEMMA Multiple ==
  ASSUME NEW a \in Nat, NEW b \in Nat \ {0}, a % b = 0
  PROVE  \E m \in Nat : a = b * m
<1> DEFINE m == a \div b
           r == a % b
<1>1. m \in Nat /\ r = 0 /\ a = b * m + r
  BY Division
<1> HIDE DEF m, r
<1>2. a = b * m
  BY <1>1
<1> QED BY <1>1, <1>2

LEMMA NextRemainder ==
  ASSUME NEW b \in Nat \ {0}, NEW a \in Nat
  PROVE  (a + 1) % b = IF a % b = b - 1 THEN 0 ELSE (a % b) + 1
<1> DEFINE q == a \div b
           r == a % b
<1>1. q \in Nat /\ r \in 0..b - 1 /\ a = b * q + r
  BY Division
<1> HIDE DEF q, r
<1>2. CASE r = b - 1
  <2>1. a + 1 = b * (q + 1) + 0 /\ q + 1 \in Int /\ 0 \in 0..b - 1 /\ a + 1 \in Nat
    BY <1>1, <1>2
  <2>2. (a + 1) % b = 0
    BY <2>1, Remainder
  <2> QED BY <1>2, <2>2 DEF r
<1>3. CASE r # b - 1
  <2> DEFINE n == r + 1
             x == a + 1
  <2>1. x = b * q + n /\ q \in Int /\ n \in 0..b - 1 /\ x \in Nat
    BY <1>1, <1>3
  <2> HIDE DEF n, x
  <2>2. x % b = n
    BY <2>1, Remainder
  <2> QED BY <1>3, <2>2 DEF r, n, x
<1> QED BY <1>2, <1>3

(***************************************************************************)
(* Whole turns do not show.                                                *)
(***************************************************************************)
LEMMA WholeTurns ==
  ASSUME NEW b \in Nat \ {0}, NEW x \in Int, NEW y \in Int
  PROVE  ((x % b) + y) % b = (x + y) % b
<1> DEFINE q == x \div b
           r == x % b
           z == r + y
           p == z \div b
           s == z % b
           w == x + y
           m == q + p
<1>1. q \in Int /\ r \in 0..b - 1 /\ x = b * q + r
  BY DivisionOfInt
<1>2. z \in Int /\ w \in Int
  BY <1>1
<1>3. p \in Int /\ s \in 0..b - 1 /\ z = b * p + s
  BY <1>2, DivisionOfInt
<1>4. w = b * q + z
  BY <1>1
<1> HIDE DEF q, p, s, w, z
<1>5. w = b * m + s /\ m \in Int
  BY <1>1, <1>3, <1>4
<1> HIDE DEF m
<1>6. w % b = s
  BY <1>2, <1>3, <1>5, Remainder
<1> QED BY <1>6 DEF s, w, z

(***************************************************************************)
(* Less than a turn is seen.                                               *)
(***************************************************************************)
LEMMA PartOfTurn ==
  ASSUME NEW b \in Nat \ {0}, NEW r \in 0..b - 1, NEW y \in 1 - b..b - 1, y # 0
  PROVE  (r + y) % b # r
<1> DEFINE z == r + y
           p == z \div b
           s == z % b
<1>1. z \in Int /\ p \in Int /\ s \in 0..b - 1 /\ z = b * p + s
  BY DivisionOfInt
<1> SUFFICES ASSUME s = r PROVE FALSE
  OBVIOUS
<1> HIDE DEF p, s
<1>2. b * p = y
  BY <1>1
<1>3. CASE p >= 1
  <2>1. b * p >= b
    BY <1>1, <1>3
  <2> QED BY <1>2, <2>1
<1>4. CASE p <= -1
  <2>1. b * p <= 0 - b
    BY <1>1, <1>4
  <2> QED BY <1>2, <2>1
<1>5. CASE p = 0
  BY <1>2, <1>5
<1> QED BY <1>1, <1>3, <1>4, <1>5

-----------------------------------------------------------------------------
(***************************************************************************)
(* A set of numbers with an upper bound has a least one: its predecessors  *)
(* are the smallest set of predecessors.                                   *)
(***************************************************************************)
LEMMA Least ==
  ASSUME NEW n \in Nat, NEW S \in SUBSET (1..n), S # {}
  PROVE  /\ (CHOOSE i \in S : \A j \in S : i <= j) \in S
         /\ \A k \in S : (CHOOSE i \in S : \A j \in S : i <= j) <= k
<1> DEFINE Upto(i) == {j \in S : j <= i}
           T == {Upto(i) : i \in S}
           R == StrictSubsetOrdering(S)
<1>1. IsWellFoundedOn(R, SUBSET S)
  <2>1. IsFiniteSet(S)
    <3>1. IsFiniteSet(1..n)
      BY FS_Interval
    <3> QED BY <3>1, FS_Subset
  <2> QED BY <2>1, FS_StrictSubsetOrderingWellFounded, FS_FiniteSubsetsOfFinite
<1>2. PICK x \in T : \A y \in T : ~ (<<y, x>> \in R)
  <2>1. T \subseteq SUBSET S /\ T # {}
    OBVIOUS
  <2> HIDE DEF T, R
  <2> QED BY <1>1, <2>1, WFMin
<1>3. PICK i \in S : x = Upto(i)
  OBVIOUS
<1>4. ASSUME NEW j \in S, j < i PROVE FALSE
  <2>0. i \in Int /\ j \in Int /\ \A k \in S : k \in Int
    OBVIOUS
  <2>1. Upto(j) \in T /\ Upto(j) \subseteq x /\ i \in x /\ i \notin Upto(j) /\ x \subseteq S
    <3>1. Upto(j) \in T /\ x \subseteq S
      BY <1>3
    <3>2. \A k \in S : k <= j => k <= i
      BY <1>4, <2>0
    <3>3. i <= i /\ ~ (i <= j)
      BY <1>4, <2>0
    <3> QED BY <1>3, <3>1, <3>2, <3>3
  <2>2. <<Upto(j), x>> \in R
    BY <2>1 DEF StrictSubsetOrdering
  <2> QED BY <1>2, <2>1, <2>2
<1>5. \E k \in S : \A j \in S : k <= j
  BY <1>4
<1> QED BY <1>5

TwoRuns(f, g, n) ==
  /\ n \in Nat /\ f = [i \in 0..n |-> f[i]] /\ g = [i \in 0..n |-> g[i]] /\ f[0] = g[0]
  /\ \A i \in 1..n : f[i - 1] = g[i - 1] => f[i] = g[i]

(***************************************************************************)
(* Two functions on 0..n that begin alike and take the same steps are one. *)
(***************************************************************************)
LEMMA SameRecursion ==
  ASSUME NEW n, NEW f, NEW g, TwoRuns(f, g, n)
  PROVE  f = g
<1>0. /\ n \in Nat /\ f = [i \in 0..n |-> f[i]] /\ g = [i \in 0..n |-> g[i]] /\ f[0] = g[0]
      /\ \A i \in 1..n : f[i - 1] = g[i - 1] => f[i] = g[i]
  BY DEF TwoRuns
<1> DEFINE S == {i \in 1..n : f[i] # g[i]}
           k == CHOOSE i \in S : \A j \in S : i <= j
<1>1. ASSUME S # {} PROVE FALSE
  <2>1. k \in S /\ \A j \in S : k <= j
    BY <1>0, <1>1, Least
  <2> HIDE DEF k
  <2>2. f[k - 1] = g[k - 1]
    <3>1. CASE k = 1
      BY <1>0, <3>1
    <3>2. CASE k # 1
      <4>1. k - 1 \in 1..n /\ ~ (k <= k - 1)
        BY <1>0, <2>1, <3>2
      <4> QED BY <2>1, <4>1
    <3> QED BY <3>1, <3>2
  <2> QED BY <1>0, <2>1, <2>2
<1>2. \A i \in 0..n : f[i] = g[i]
  BY <1>0, <1>1
<1> QED BY <1>0, <1>2

(***************************************************************************)
(* What recursion along 0..L defines exists, and keeps to its range.       *)
(***************************************************************************)
IsRecursion(V, base, L, step) == base \in V /\ L \in Nat /\ step \in [1..L -> [V -> V]]

IsRun(f, V, base, L, step) ==
  f \in [0..L -> V] /\ f[0] = base /\ \A n \in 1..L : f[n] = step[n][f[n - 1]]

LEMMA Recursion ==
  ASSUME NEW V, NEW base, NEW L, NEW step, IsRecursion(V, base, L, step)
  PROVE  \E f : IsRun(f, V, base, L, step)
<1>0. base \in V /\ L \in Nat /\ step \in [1..L -> [V -> V]]
  BY DEF IsRecursion
<1> DEFINE Upto(m, f) == /\ f \in [0..m -> V] /\ f[0] = base
                         /\ \A n \in 1..m : f[n] = step[n][f[n - 1]]
           S == {m \in 1..L : ~ \E f : Upto(m, f)}
           k == CHOOSE i \in S : \A j \in S : i <= j
<1>1. \E f : Upto(0, f)
  <2> DEFINE z == [n \in 0..0 |-> base]
  <2>1. Upto(0, z)
    BY <1>0
  <2> QED BY <2>1
<1>2. ASSUME NEW m \in 1..L, NEW f, Upto(m - 1, f) PROVE \E g : Upto(m, g)
  <2> DEFINE x == step[m][f[m - 1]]
             g == [n \in 0..m |-> IF n = m THEN x ELSE f[n]]
  <2>1. /\ m - 1 \in 0..m - 1 /\ m \in 0..m /\ m - 1 \in 0..m /\ m - 1 # m /\ 0 \in 0..m - 1 /\ 0 # m
        /\ 0 \in 0..m
    OBVIOUS
  <2>2. x \in V
    BY <1>0, <1>2, <2>1
  <2> HIDE DEF x
  <2>3. \A n \in 0..m : g[n] \in V
    <3> SUFFICES ASSUME NEW n \in 0..m, n # m PROVE f[n] \in V
      BY <2>2
    <3>1. n \in 0..m - 1
      OBVIOUS
    <3> QED BY <1>2, <3>1
  <2>4. g[0] = base
    BY <1>2, <2>1
  <2>5. ASSUME NEW n \in 1..m PROVE g[n] = step[n][g[n - 1]]
    <3>1. CASE n = m
      <4>1. g[m - 1] = f[m - 1] /\ g[m] = x
        BY <2>1
      <4> HIDE DEF g
      <4> QED BY <3>1, <4>1 DEF x
    <3>2. CASE n # m
      <4>1. n \in 1..m - 1 /\ n \in 0..m /\ n - 1 \in 0..m /\ n - 1 # m
        BY <3>2
      <4>2. g[n] = f[n] /\ g[n - 1] = f[n - 1]
        BY <3>2, <4>1
      <4> HIDE DEF g
      <4> QED BY <1>2, <4>1, <4>2
    <3> QED BY <3>1, <3>2
  <2>6. g \in [0..m -> V]
    BY <2>3
  <2> HIDE DEF g
  <2>7. Upto(m, g)
    BY <2>4, <2>5, <2>6
  <2> QED BY <2>7
<1>3. S = {}
  <2> SUFFICES ASSUME S # {} PROVE FALSE
    OBVIOUS
  <2>1. k \in S /\ \A j \in S : k <= j
    BY <1>0, Least
  <2> HIDE DEF k
  <2>2. k \in 1..L /\ ~ (k <= k - 1)
    BY <2>1
  <2>3. k - 1 \notin S
    BY <2>1, <2>2
  <2>4. \E f : Upto(k - 1, f)
    <3>1. CASE k = 1
      BY <1>1, <3>1
    <3>2. CASE k # 1
      <4>1. k - 1 \in 1..L
        BY <1>0, <2>2, <3>2
      <4> QED BY <2>3, <4>1
    <3> QED BY <3>1, <3>2
  <2> HIDE DEF Upto
  <2> QED BY <1>2, <2>1, <2>2, <2>4
<1>4. \E f : Upto(L, f)
  <2>1. CASE L = 0
    BY <1>1, <2>1
  <2>2. CASE L # 0
    <3>1. L \in 1..L
      BY <1>0, <2>2
    <3> HIDE DEF Upto
    <3> QED BY <1>3, <3>1
  <2> QED BY <2>1, <2>2
<1> QED BY <1>4 DEF IsRun

=============================================================================
