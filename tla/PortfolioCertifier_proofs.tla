----------------------- MODULE PortfolioCertifier_proofs -----------------------
(***************************************************************************)
(* What the portfolio solver optimises and what the certifier says of a     *)
(* portfolio.  First the constraint model: its objective is one number, a   *)
(* sum of six terms each with a weight of its own, and orders any two       *)
(* assignments the way the six terms do one after the other; its pair       *)
(* tables admit what the pairwise definition does.  Then the certifier, for *)
(* any number of occurrences, versions and batches, any problem and any     *)
(* package manager: what it says can be relied on, and it keeps the promise *)
(* of Certification.                                                        *)
(***************************************************************************)
EXTENDS PortfolioCertifier, FiniteSetTheorems, WellFoundedInduction, TLAPS

-----------------------------------------------------------------------------
(* A set that contains 0 and the successor of each of its members contains  *)
(* every natural number.                                                     *)

LEMMA Ascend ==
  ASSUME NEW S, 0 \in S, \A n \in Nat : n \in S => n + 1 \in S
  PROVE  Nat \subseteq S
<1>. SUFFICES ASSUME Nat \ S # {} PROVE FALSE
  OBVIOUS
<1>1. PICK n \in Nat \ S : \A m \in Nat \ S : ~(<<m, n>> \in {ss \in Nat \X Nat : ss[1] < ss[2]})
  <2>1. IsWellFoundedOn({ss \in Nat \X Nat : ss[1] < ss[2]}, Nat)
    BY NatLessThanWellFounded DEF OpToRel
  <2>2. Nat \ S \subseteq Nat
    OBVIOUS
  <2>. QED
    BY <2>1, <2>2, WFMin
<1>2. n # 0
  OBVIOUS
<1>3. n - 1 \in Nat /\ n - 1 < n
  BY <1>2
<1>4. n - 1 \notin S
  BY <1>2, <1>3
<1>. QED
  BY <1>1, <1>3, <1>4

-----------------------------------------------------------------------------
(* Sums over the occurrences. *)

\* The equation that defines the partial sums of f.
Partial(f, s, n) == s = [k \in 0..n |-> IF k = 0 THEN 0 ELSE s[k - 1] + f[k]]

LEMMA PartialExists ==
  ASSUME NEW f \in [Occs -> Int], NEW n \in 0..N
  PROVE  \E s \in [0..n -> Int] : Partial(f, s, n)
<1>. DEFINE S == {m \in Nat : m <= N => \E s \in [0..m -> Int] : Partial(f, s, m)}
<1>1. 0 \in S
  <2>. DEFINE z == [k \in 0..0 |-> 0]
  <2>1. z \in [0..0 -> Int] /\ Partial(f, z, 0)
    BY DEF Partial
  <2>. QED
    BY <2>1
<1>2. ASSUME NEW m \in Nat, m \in S, m + 1 <= N PROVE m + 1 \in S
  <2>1. PICK s \in [0..m -> Int] : Partial(f, s, m)
    BY <1>2, ProblemAssumption
  <2>. DEFINE t == [k \in 0..(m + 1) |-> IF k = 0 THEN 0 ELSE s[k - 1] + f[k]]
  <2>2. m + 1 \in Occs /\ \A k \in 0..(m + 1) : k # 0 => k - 1 \in 0..m /\ k \in Occs
    BY <1>2, ProblemAssumption DEF Occs
  <2>3. t \in [0..(m + 1) -> Int]
    BY <2>2
  <2>4. \A k \in 0..m : t[k] = s[k]
    BY <2>1 DEF Partial
  <2>5. Partial(f, t, m + 1)
    BY <2>2, <2>4 DEF Partial
  <2>. QED
    BY <2>3, <2>5
<1>3. \A m \in Nat : m \in S => m + 1 \in S
  BY <1>2, ProblemAssumption
<1>4. Nat \subseteq S
  <2>. HIDE DEF S
  <2>. QED
    BY <1>1, <1>3, Ascend
<1>. QED
  BY <1>4, ProblemAssumption

\* Total(f) is the last of the partial sums.
LEMMA TotalIsPartial ==
  ASSUME NEW f \in [Occs -> Int]
  PROVE  \E s \in [0..N -> Int] : Partial(f, s, N) /\ Total(f) = s[N]
<1>. DEFINE up == CHOOSE s : s = [k \in 0..N |-> IF k = 0 THEN 0 ELSE s[k - 1] + f[k]]
<1>1. PICK s \in [0..N -> Int] : Partial(f, s, N)
  BY PartialExists, ProblemAssumption
<1>2. up = [k \in 0..N |-> IF k = 0 THEN 0 ELSE up[k - 1] + f[k]]
  BY <1>1 DEF Partial
<1>3. Total(f) = up[N]
  BY DEF Total
<1>. DEFINE S == {k \in Nat : k <= N => up[k] = s[k]}
<1>. HIDE DEF up
<1>4. 0 \in S
  BY <1>1, <1>2, ProblemAssumption DEF Partial
<1>5. \A k \in Nat : k \in S => k + 1 \in S
  BY <1>1, <1>2, ProblemAssumption DEF Partial
<1>6. Nat \subseteq S
  <2>. HIDE DEF S
  <2>. QED
    BY <1>4, <1>5, Ascend
<1>. QED
  BY <1>1, <1>3, <1>6, ProblemAssumption

LEMMA TotalMonotone ==
  ASSUME NEW f \in [Occs -> Int], NEW g \in [Occs -> Int], \A o \in Occs : f[o] <= g[o]
  PROVE  Total(f) \in Int /\ Total(f) <= Total(g)
<1>1. PICK s \in [0..N -> Int] : Partial(f, s, N) /\ Total(f) = s[N]
  BY TotalIsPartial
<1>2. PICK t \in [0..N -> Int] : Partial(g, t, N) /\ Total(g) = t[N]
  BY TotalIsPartial
<1>. DEFINE S == {k \in Nat : k <= N => s[k] <= t[k]}
<1>3. 0 \in S
  BY <1>1, <1>2, ProblemAssumption DEF Partial
<1>4. \A k \in Nat : k \in S => k + 1 \in S
  <2>. SUFFICES ASSUME NEW k \in Nat, k \in S, k + 1 <= N PROVE s[k + 1] <= t[k + 1]
    BY ProblemAssumption
  <2>1. k \in 0..N /\ k + 1 \in 0..N /\ k + 1 \in Occs /\ s[k] <= t[k]
    BY ProblemAssumption DEF Occs
  <2>2. s[k + 1] = s[k] + f[k + 1] /\ t[k + 1] = t[k] + g[k + 1]
    BY <1>1, <1>2, <2>1 DEF Partial
  <2>3. /\ s[k] \in Int /\ t[k] \in Int
        /\ f[k + 1] \in Int /\ g[k + 1] \in Int /\ f[k + 1] <= g[k + 1]
    BY <2>1
  <2>. QED
    BY <2>1, <2>2, <2>3
<1>5. Nat \subseteq S
  <2>. HIDE DEF S
  <2>. QED
    BY <1>3, <1>4, Ascend
<1>. QED
  BY <1>1, <1>2, <1>5, ProblemAssumption

\* Terms of at least b and at most c add up to at least N * b and at most N * c.
LEMMA TotalBounded ==
  ASSUME NEW f \in [Occs -> Int], NEW b \in Int, NEW c \in Int, \A o \in Occs : b <= f[o] /\ f[o] <= c
  PROVE  Total(f) \in Int /\ N * b <= Total(f) /\ Total(f) <= N * c
<1>1. PICK s \in [0..N -> Int] : Partial(f, s, N) /\ Total(f) = s[N]
  BY TotalIsPartial
<1>. DEFINE S == {k \in Nat : k <= N => k * b <= s[k] /\ s[k] <= k * c}
<1>2. 0 \in S
  BY <1>1, ProblemAssumption DEF Partial
<1>3. ASSUME NEW k \in Nat, k \in S, k + 1 <= N
      PROVE  (k + 1) * b <= s[k + 1] /\ s[k + 1] <= (k + 1) * c
  <2>1. k \in 0..N /\ k + 1 \in 0..N /\ k + 1 \in Occs /\ k * b <= s[k] /\ s[k] <= k * c
    BY <1>3, ProblemAssumption DEF Occs
  <2>2. s[k + 1] = s[k] + f[k + 1]
    BY <1>1, <2>1 DEF Partial
  <2>3. s[k] \in Int /\ f[k + 1] \in Int /\ b <= f[k + 1] /\ f[k + 1] <= c
    BY <2>1
  <2>4. /\ (k + 1) * b = k * b + b /\ k * b \in Int
        /\ (k + 1) * c = k * c + c /\ k * c \in Int
    OBVIOUS
  <2>. QED
    BY <2>1, <2>2, <2>3, <2>4
<1>31. \A k \in Nat : k \in S => k + 1 \in S
  BY <1>3
<1>4. Nat \subseteq S
  <2>. HIDE DEF S
  <2>. QED
    BY <1>2, <1>31, Ascend
<1>. QED
  BY <1>1, <1>4, ProblemAssumption

-----------------------------------------------------------------------------
(* The weights. *)

\* A digit below its bound b, at weight w, leaves room for what stands behind it.
LEMMA Digit ==
  ASSUME NEW w \in Nat, NEW b \in Int, NEW d \in Int, NEW rest \in Int, d <= b - 1, rest < w
  PROVE  w * d + rest \in Int /\ w * d + rest < w * b
<1>1. w * d <= w * (b - 1)
  BY SMTT(30)
<1>2. w * (b - 1) = w * b - w /\ w * d \in Int /\ w * b \in Int
  OBVIOUS
<1>. QED
  BY <1>1, <1>2

\* A digit that is smaller by one at least outweighs what stands behind it.
LEMMA SmallerDigit ==
  ASSUME NEW w \in Nat, NEW d \in Int, NEW rest \in Int, d < 0, rest < w
  PROVE  w * d + rest < 0
<1>1. w * d <= w * (-1)
  BY SMTT(30)
<1>2. w * (-1) = -w /\ w * d \in Int
  OBVIOUS
<1>. QED
  BY <1>1, <1>2

\* What an assignment is worth stays within the bounds the weights are made from.
LEMMA ValueBounded ==
  ASSUME NEW q, IsProblem(q), NEW x \in Assignments
  PROVE  /\ \A k \in Terms : Bounds(q)[k] \in Nat
         /\ \A k \in Terms : Value(q, x)[k] \in Int
         /\ \A k \in 2..6 : 0 <= Value(q, x)[k] /\ Value(q, x)[k] <= Bounds(q)[k] - 1
<1>. DEFINE F == Findings(q)
            over == [o \in Occs |-> Over(x[o], q.floor[o])]
            most == [o \in Occs |-> Over(Top, q.floor[o])]
<1>1. IsFiniteSet(Occs) /\ Cardinality(Occs) = N
  BY FS_Interval, ProblemAssumption DEF Occs
<1>2. \A S \in SUBSET Occs : IsFiniteSet(S) /\ Cardinality(S) \in Nat /\ Cardinality(S) <= N
  BY <1>1, FS_Subset, FS_CardinalityType
<1>3. \A S \in SUBSET Occs : \A T \in SUBSET S : Cardinality(T) \in Nat /\ Cardinality(T) <= Cardinality(S)
  BY <1>2, FS_Subset, FS_CardinalityType
<1>4. F \in SUBSET Occs /\ F \cap q.severe \in SUBSET Occs
  BY DEF Findings
<1>5. over \in [Occs -> Int] /\ most \in [Occs -> Int] /\ \A o \in Occs : 0 <= over[o] /\ over[o] <= most[o]
  BY ProblemAssumption DEF IsProblem, Over, Assignments, Versions
<1>6. Total(over) \in Int /\ Total(most) \in Int /\ 0 <= Total(over) /\ Total(over) <= Total(most)
  <2>. HIDE DEF over, most
  <2>1. Total(over) <= Total(most) /\ Total(over) \in Int
    BY <1>5, TotalMonotone
  <2>2. PICK c \in Nat : \A o \in Occs : over[o] <= c
    <3>1. \A o \in Occs : over[o] <= Top
      BY ProblemAssumption DEF over, IsProblem, Over, Assignments, Versions
    <3>. QED
      BY <3>1, ProblemAssumption
  <2>3. N * 0 <= Total(over)
    BY <1>5, <2>2, TotalBounded
  <2>4. Total(most) \in Int
    BY <1>5, TotalMonotone
  <2>. QED
    BY <2>1, <2>3, <2>4, ProblemAssumption
<1>7. Total(x) \in Int /\ 0 <= Total(x) /\ Total(x) <= N * Top
  <2>1. x \in [Occs -> Int] /\ \A o \in Occs : 0 <= x[o] /\ x[o] <= Top
    BY ProblemAssumption DEF Assignments, Versions
  <2>2. 0 \in Int /\ Top \in Int
    BY ProblemAssumption
  <2>3. N * 0 <= Total(x) /\ Total(x) <= N * Top /\ Total(x) \in Int
    BY <2>1, <2>2, TotalBounded, Zenon
  <2>. QED
    BY <2>3, ProblemAssumption
<1>. QED
  BY <1>1, <1>2, <1>3, <1>4, <1>6, <1>7, ProblemAssumption DEF Value, Bounds, Terms, Quantify

\* Each weight is at least that of the next term times the bound of that term.
LEMMA WeightsRecur ==
  ASSUME NEW q, \A k \in Terms : Bounds(q)[k] \in Nat
  PROVE  /\ \A k \in Terms : Weights(q)[k] \in Nat
         /\ \A k \in 1..5 : Weights(q)[k + 1] * Bounds(q)[k + 1] \in Int
                            /\ Weights(q)[k + 1] * Bounds(q)[k + 1] <= Weights(q)[k]
<1>. DEFINE b == Bounds(q)
            w == Weights(q)
<1>1. \A k \in 1..6 : b[k] \in Nat
  BY DEF Terms
<1>2. w[6] = 1 /\ w[5] = b[6]
  BY DEF Weights
<1>3. w[4] = b[5] * b[6] + b[6]
  BY DEF Weights
<1>4. w[3] = b[4] * (b[5] * b[6] + b[6]) + b[5] * b[6] + b[6]
  BY DEF Weights
<1>5. w[2] = b[3] * w[3] + b[4] * (b[5] * b[6] + b[6]) + b[5] * b[6] + b[6]
  BY DEF Weights
<1>6. w[1] = b[2] * w[2] + b[3] * w[3] + b[4] * (b[5] * b[6] + b[6]) + b[5] * b[6] + b[6]
  BY DEF Weights
<1>. HIDE DEF b, w
<1>7. w[6] \in Nat /\ w[5] \in Nat /\ w[6] * b[6] = w[5]
  BY <1>1, <1>2
<1>8. b[5] * w[5] \in Nat /\ w[5] * b[5] = b[5] * w[5]
  BY <1>1, <1>7
<1>9. w[4] = b[5] * w[5] + w[5] /\ w[4] \in Nat
  BY <1>2, <1>3, <1>7, <1>8
<1>10. b[4] * w[4] \in Nat /\ w[4] * b[4] = b[4] * w[4]
  BY <1>1, <1>9
<1>11. w[3] = b[4] * w[4] + w[4] /\ w[3] \in Nat
  <2>1. w[3] = b[4] * w[4] + w[4]
    BY <1>3, <1>4, <1>8, <1>10, <1>1, <1>2
  <2>. QED
    BY <2>1, <1>10, <1>9
<1>12. b[3] * w[3] \in Nat /\ w[3] * b[3] = b[3] * w[3]
  BY <1>1, <1>11
<1>13. w[2] = b[3] * w[3] + w[3] /\ w[2] \in Nat
  <2>1. w[2] = b[3] * w[3] + b[4] * w[4] + w[4]
    BY <1>3, <1>5, <1>8, <1>10, <1>12, <1>1, <1>2
  <2>. QED
    BY <2>1, <1>9, <1>10, <1>11, <1>12
<1>14. b[2] * w[2] \in Nat /\ w[2] * b[2] = b[2] * w[2]
  BY <1>1, <1>13
<1>15. w[1] = b[2] * w[2] + w[2] /\ w[1] \in Nat
  <2>1. w[1] = b[2] * w[2] + b[3] * w[3] + b[4] * w[4] + w[4]
    BY <1>3, <1>6, <1>8, <1>10, <1>12, <1>14, <1>1, <1>2
  <2>2. w[2] = b[3] * w[3] + b[4] * w[4] + w[4]
    BY <1>11, <1>13, <1>10, <1>9, <1>12
  <2>3. w[1] = b[2] * w[2] + w[2]
    BY <2>1, <2>2, <1>9, <1>10, <1>12, <1>13, <1>14
  <2>. QED
    BY <2>3, <1>13, <1>14
<1>16. \A k \in Terms : w[k] \in Nat
  BY <1>7, <1>9, <1>11, <1>13, <1>15 DEF Terms
<1>17. \A k \in 1..5 : w[k + 1] * b[k + 1] \in Int /\ w[k + 1] * b[k + 1] <= w[k]
  <2>1. w[6] * b[6] \in Int /\ w[6] * b[6] <= w[5]
    BY <1>7
  <2>2. w[5] * b[5] \in Int /\ w[5] * b[5] <= w[4]
    BY <1>7, <1>8, <1>9
  <2>3. w[4] * b[4] \in Int /\ w[4] * b[4] <= w[3]
    BY <1>9, <1>10, <1>11
  <2>4. w[3] * b[3] \in Int /\ w[3] * b[3] <= w[2]
    BY <1>11, <1>12, <1>13
  <2>5. w[2] * b[2] \in Int /\ w[2] * b[2] <= w[1]
    BY <1>13, <1>14, <1>15
  <2>. QED
    BY <2>1, <2>2, <2>3, <2>4, <2>5
<1>. QED
  BY <1>16, <1>17 DEF b, w

\* The single objective of the solver, _objective_weights in solver/cpsat.py, is lexicographic: an
\* assignment that covers more findings, or as many with less severity left open, and so on down to the
\* smaller candidates, has the smaller score, whatever the problem and its size.
THEOREM ObjectiveIsLexicographic ==
  ASSUME NEW q, IsProblem(q), NEW x \in Assignments, NEW y \in Assignments,
         Better(Value(q, x), Value(q, y))
  PROVE  Score(q, x) \in Int /\ Score(q, y) \in Int /\ Score(q, x) < Score(q, y)
<1>. DEFINE b == Bounds(q)
            w == Weights(q)
            u == Value(q, x)
            v == Value(q, y)
            d == [k \in 1..6 |-> u[k] - v[k]]
<1>1. \A k \in 1..6 : b[k] \in Nat /\ u[k] \in Int /\ v[k] \in Int
  BY ValueBounded DEF Terms
<1>2. \A k \in 2..6 : d[k] <= b[k] - 1
  <2>. SUFFICES ASSUME NEW k \in 2..6 PROVE u[k] - v[k] <= b[k] - 1
    OBVIOUS
  <2>1. u[k] <= b[k] - 1 /\ 0 <= v[k]
    BY ValueBounded
  <2>2. k \in 1..6
    OBVIOUS
  <2>. HIDE DEF b, u, v
  <2>. QED
    BY <1>1, <2>1, <2>2
<1>3. /\ \A k \in 1..6 : w[k] \in Nat
      /\ \A k \in 1..5 : w[k + 1] * b[k + 1] \in Int /\ w[k + 1] * b[k + 1] <= w[k]
  BY <1>1, WeightsRecur DEF Terms
<1>4. PICK k \in 1..6 : u[k] < v[k] /\ \A j \in 1..(k - 1) : u[j] = v[j]
  BY DEF Better, Terms
<1>5. /\ Score(q, x) = w[1] * u[1] + w[2] * u[2] + w[3] * u[3] + w[4] * u[4] + w[5] * u[5] + w[6] * u[6]
      /\ Score(q, y) = w[1] * v[1] + w[2] * v[2] + w[3] * v[3] + w[4] * v[4] + w[5] * v[5] + w[6] * v[6]
  BY DEF Score
<1>. HIDE DEF b, w, u, v
<1>6. \A j \in 1..6 : d[j] \in Int /\ w[j] * d[j] \in Int /\ w[j] * u[j] \in Int /\ w[j] * v[j] \in Int
                      /\ w[j] * d[j] = w[j] * u[j] - w[j] * v[j]
  <2>. SUFFICES ASSUME NEW j \in 1..6
                PROVE  /\ d[j] \in Int /\ w[j] * d[j] \in Int /\ w[j] * u[j] \in Int /\ w[j] * v[j] \in Int
                       /\ w[j] * d[j] = w[j] * u[j] - w[j] * v[j]
    OBVIOUS
  <2>1. w[j] \in Int /\ u[j] \in Int /\ v[j] \in Int /\ d[j] = u[j] - v[j]
    BY <1>1, <1>3
  <2>. QED
    BY <2>1
\* What stands behind each term.
<1>. DEFINE r5 == w[6] * d[6] + 0
            r4 == w[5] * d[5] + r5
            r3 == w[4] * d[4] + r4
            r2 == w[3] * d[3] + r3
            r1 == w[2] * d[2] + r2
            r0 == w[1] * d[1] + r1
<1>. HIDE DEF d
<1>7. r5 \in Int /\ r5 < w[5]
  <2>1. 0 < w[6]
    BY DEF w, Weights
  <2>2. r5 \in Int /\ r5 < w[6] * b[6]
    BY <1>1, <1>2, <1>3, <1>6, <2>1, Digit
  <2>3. w[6] * b[6] \in Int /\ w[6] * b[6] <= w[5] /\ w[5] \in Nat
    BY <1>3
  <2>. HIDE DEF r5
  <2>. QED
    BY <2>2, <2>3
<1>. HIDE DEF r5
<1>8. r4 \in Int /\ r4 < w[4]
  <2>1. /\ w[5] \in Nat /\ b[5] \in Int /\ d[5] \in Int /\ d[5] <= b[5] - 1
        /\ r5 \in Int /\ r5 < w[5]
    BY <1>1, <1>2, <1>3, <1>6, <1>7
  <2>2. r4 \in Int /\ r4 < w[5] * b[5]
    BY <2>1, Digit
  <2>3. w[5] * b[5] \in Int /\ w[5] * b[5] <= w[4] /\ w[4] \in Nat
    BY <1>3
  <2>. HIDE DEF r4
  <2>. QED
    BY <2>2, <2>3
<1>. HIDE DEF r4
<1>9. r3 \in Int /\ r3 < w[3]
  <2>1. /\ w[4] \in Nat /\ b[4] \in Int /\ d[4] \in Int /\ d[4] <= b[4] - 1
        /\ r4 \in Int /\ r4 < w[4]
    BY <1>1, <1>2, <1>3, <1>6, <1>8
  <2>2. r3 \in Int /\ r3 < w[4] * b[4]
    BY <2>1, Digit
  <2>3. w[4] * b[4] \in Int /\ w[4] * b[4] <= w[3] /\ w[3] \in Nat
    BY <1>3
  <2>. HIDE DEF r3
  <2>. QED
    BY <2>2, <2>3
<1>. HIDE DEF r3
<1>10. r2 \in Int /\ r2 < w[2]
  <2>1. /\ w[3] \in Nat /\ b[3] \in Int /\ d[3] \in Int /\ d[3] <= b[3] - 1
        /\ r3 \in Int /\ r3 < w[3]
    BY <1>1, <1>2, <1>3, <1>6, <1>9
  <2>2. r2 \in Int /\ r2 < w[3] * b[3]
    BY <2>1, Digit
  <2>3. w[3] * b[3] \in Int /\ w[3] * b[3] <= w[2] /\ w[2] \in Nat
    BY <1>3
  <2>. HIDE DEF r2
  <2>. QED
    BY <2>2, <2>3
<1>. HIDE DEF r2
<1>11. r1 \in Int /\ r1 < w[1]
  <2>1. /\ w[2] \in Nat /\ b[2] \in Int /\ d[2] \in Int /\ d[2] <= b[2] - 1
        /\ r2 \in Int /\ r2 < w[2]
    BY <1>1, <1>2, <1>3, <1>6, <1>10
  <2>2. r1 \in Int /\ r1 < w[2] * b[2]
    BY <2>1, Digit
  <2>3. w[2] * b[2] \in Int /\ w[2] * b[2] <= w[1] /\ w[1] \in Nat
    BY <1>3
  <2>. HIDE DEF r1
  <2>. QED
    BY <2>2, <2>3
<1>. HIDE DEF r1
<1>12. d[k] < 0 /\ \A j \in 1..(k - 1) : d[j] = 0
  BY <1>1, <1>4 DEF d
<1>13. r0 < 0
  <2>1. \A j \in 1..6 : w[j] * 0 = 0
    BY <1>3
  <2>2. CASE k = 1
    BY <1>3, <1>6, <1>11, <1>12, <2>2, SmallerDigit
  <2>3. CASE k = 2
    <3>1. r1 < 0
      BY <1>3, <1>6, <1>10, <1>12, <2>3, SmallerDigit DEF r1
    <3>. QED
      BY <1>11, <1>12, <2>1, <2>3, <3>1
  <2>4. CASE k = 3
    <3>1. r2 < 0
      BY <1>3, <1>6, <1>9, <1>12, <2>4, SmallerDigit DEF r2
    <3>2. r1 = r2
      BY <1>10, <1>12, <2>1, <2>4 DEF r1
    <3>. QED
      BY <1>11, <1>12, <2>1, <2>4, <3>1, <3>2
  <2>5. CASE k = 4
    <3>1. r3 < 0
      BY <1>3, <1>6, <1>8, <1>12, <2>5, SmallerDigit DEF r3
    <3>2. r2 = r3
      BY <1>9, <1>12, <2>1, <2>5 DEF r2
    <3>3. r1 = r2
      BY <1>10, <1>12, <2>1, <2>5 DEF r1
    <3>. QED
      BY <1>11, <1>12, <2>1, <2>5, <3>1, <3>2, <3>3
  <2>6. CASE k = 5
    <3>1. r4 < 0
      BY <1>3, <1>6, <1>7, <1>12, <2>6, SmallerDigit DEF r4
    <3>2. r3 = r4
      BY <1>8, <1>12, <2>1, <2>6 DEF r3
    <3>3. r2 = r3
      BY <1>9, <1>12, <2>1, <2>6 DEF r2
    <3>4. r1 = r2
      BY <1>10, <1>12, <2>1, <2>6 DEF r1
    <3>. QED
      BY <1>11, <1>12, <2>1, <2>6, <3>1, <3>2, <3>3, <3>4
  <2>7. CASE k = 6
    <3>1. r5 < 0
      BY <1>3, <1>6, <1>12, <2>7, SmallerDigit DEF r5, w, Weights
    <3>2. r4 = r5
      BY <1>7, <1>12, <2>1, <2>7 DEF r4
    <3>3. r3 = r4
      BY <1>8, <1>12, <2>1, <2>7 DEF r3
    <3>4. r2 = r3
      BY <1>9, <1>12, <2>1, <2>7 DEF r2
    <3>5. r1 = r2
      BY <1>10, <1>12, <2>1, <2>7 DEF r1
    <3>. QED
      BY <1>11, <1>12, <2>1, <2>7, <3>1, <3>2, <3>3, <3>4, <3>5
  <2>. QED
    BY <2>2, <2>3, <2>4, <2>5, <2>6, <2>7
<1>. QED
  <2>1. r0 = Score(q, x) - Score(q, y)
    BY <1>5, <1>6 DEF r1, r2, r3, r4, r5
  <2>. QED
    BY <2>1, <1>13, <1>5, <1>6

-----------------------------------------------------------------------------
(* Pairs of candidates. *)

\* The table the constraint model is built from, _constraint_pairs, admits exactly the pairs that
\* _pair_allowed does, for any set of relations in either direction.
THEOREM TableIsExact ==
  ASSUME NEW q, NEW link, NEW v \in Versions, NEW w \in Versions
  PROVE  w \in MaskRow(q, link, v) <=> PairAllowed(q, link, v, w)
<1>. DEFINE forward == Requires(q, link.src, v, link.dst)
            backward == Requires(q, link.dst, w, link.src)
<1>2. w \in SourceTargets(q, link, v) <=> \A r \in forward : w \in r.range
  BY DEF SourceTargets
<1>3. w \in ReverseTargets(q, link, v) <=> \A r \in backward : v \in r.range
  BY DEF ReverseTargets
<1>4. w \in TargetsWithRelation(q, link) <=> backward # {}
  BY DEF TargetsWithRelation
<1>5. PairAllowed(q, link, v, w) <=> /\ \A r \in forward : w \in r.range
                                     /\ \A r \in backward : v \in r.range
                                     /\ forward \cup backward = {} => w \in link.range
  BY DEF PairAllowed
<1>6. CASE forward # {}
  BY <1>2, <1>3, <1>5, <1>6 DEF MaskRow
<1>7. CASE forward = {}
  <2>1. w \in MaskRow(q, link, v) <=> \/ w \in ReverseTargets(q, link, v) /\ w \in TargetsWithRelation(q, link)
                                      \/ w \notin TargetsWithRelation(q, link) /\ w \in link.range
    BY <1>7 DEF MaskRow
  <2>. QED
    BY <2>1, <1>3, <1>4, <1>5, <1>7
<1>. QED
  BY <1>6, <1>7

-----------------------------------------------------------------------------
(* The certifier: its invariant, part by part. *)

Steps == {"start", "prepare", "solve", "next", "stage", "install", "scratch", "judge", "clean", "done"}
Results == {"none", "CERTIFIED", "EXACT", "CUT", "BUILD", "UNKNOWN"}
Outcomes == {"none", "CERTIFIED", "REJECTED", "UNKNOWN"}

\* What the constraints admit, with what the world says of it.
Admitted == Solutions(p, {}, {})
Offered(x) == [plan |-> x, score |-> Score(p, x), sound |-> Proven(x),
               better |-> {y \in Admitted : Better(Value(p, y), Value(p, x))}]

TypeInv ==
  /\ pc \in Steps /\ job \in Jobs
  /\ space = {Offered(x) : x \in Admitted}
  /\ step \in Nat /\ applied \subseteq Occs /\ faults \in Nat /\ offered \in Int
  /\ result \in Results /\ outcome \in Outcomes
  /\ (outcome # "none" => pc \in {"clean", "done"})

Busy == pc \in {"stage", "install", "scratch", "judge"}
Settling == pc \in {"scratch", "judge"}

\* The candidate is still an answer of the solver: nothing has been learned since it was taken.
CandidateIsAnswer == Busy \/ outcome = "CERTIFIED" => \E x \in Answers : cand = {x}

\* The volume was compared with the host, and nobody has changed it since.
VolumeMatches == Busy \/ pc \in {"solve", "next"} => Matches
NothingHeldBack ==
  pc = "install" \/ (Settling /\ result = "CERTIFIED") => \A k \in 1..Len(job.batches) : job.batches[k].go

\* What the package manager has accepted of the candidate so far.
Begun == pc = "stage" => step = 1 /\ applied = {}
Progress ==
  pc = "install" =>
    /\ step \in 1..(Len(job.batches) + 1)
    /\ job.kind # "python" =>
         /\ applied = Upto(a, step - 1)
         /\ \A k \in 1..(step - 1) : Accepted(a, k)
         /\ job.kind = "npm" => Engine(a) = {}
    /\ job.kind = "python" /\ step > Len(job.batches) => a \notin job.world.refuses
CertifiedIsProven == (Settling /\ result = "CERTIFIED") \/ outcome = "CERTIFIED" => Proven(a)

\* What was learned from a candidate, and why that is right.
Kinds ==
  Settling => /\ result = "BUILD" => job.kind = "python"
              /\ result = "CUT" => job.kind = "npm"
OneCopy == job.kind = "npm" /\ \A r \in p.needs : job.world.resolve[r] = "target"
Lessons ==
  OneCopy =>
    /\ (Settling /\ result = "EXACT") => ~Proven(a)
    /\ (Settling /\ result = "CUT") => \A x \in Admitted : Hits(x, learned) => ~Proven(x)
    /\ \A x \in Admitted : Excluded(x, forbidden, cuts) => ~Proven(x)

\* A rejection rests on something the package manager refused.
Given == tried # {} \/ cuts # {} \/ Busy => space # {}
RejectionIsFounded ==
  outcome = "REJECTED" =>
    /\ job.kind # "python"
    /\ ~(job.kind = "maven" /\ job.slow) => Open = {}
    /\ space # {}

CertifierInv ==
  /\ TypeInv /\ CandidateIsAnswer /\ VolumeMatches /\ NothingHeldBack /\ Begun /\ Progress
  /\ CertifiedIsProven /\ Kinds /\ Lessons /\ Given /\ RejectionIsFounded

-----------------------------------------------------------------------------
(* The question is the same at every step. *)

LEMMA QuestionStays ==
  ASSUME [Next]_vars
  PROVE  job' = job /\ space' = space
BY DEF Next, vars, task, Deadline, EditHost, NoVolume, Restore, Prepare, Broken, Expire, Exhausted, Unanswered,
       Skip, Take, Stage, Install, Fail, Cover, CleanScratch, Rejected, Learn, BuildFailed, GiveUp, Certified, Clean

\* What is said of an assignment depends on the question alone.
LEMMA VerdictsStay ==
  ASSUME job' = job
  PROVE  /\ Admitted' = Admitted
         /\ \A x : Covers(x)' = Covers(x)
         /\ \A x, k : Upto(x, k)' = Upto(x, k) /\ Accepted(x, k)' = Accepted(x, k)
         /\ \A x : Proven(x)' = Proven(x) /\ Offered(x)' = Offered(x)
<1>1. p' = p
  BY DEF p
<1>2. Admitted' = Admitted
  BY <1>1 DEF Admitted
<1>3. \A x : Changes(x)' = Changes(x)
  BY <1>1 DEF Changes
<1>4. \A x, d : Mixed(x, d)' = Mixed(x, d)
  BY <1>1 DEF Mixed
<1>5. \A x : Covers(x)' = Covers(x)
  BY <1>1, <1>3, <1>4 DEF Covers, Unresolved, Reached
<1>6. \A x, k : Upto(x, k)' = Upto(x, k)
  BY <1>3 DEF Upto
<1>7. \A x : BrokenPeers(x)' = BrokenPeers(x)
  BY <1>1 DEF BrokenPeers
<1>8. \A x, k : Accepted(x, k)' = Accepted(x, k)
  BY <1>1, <1>4, <1>6, <1>7 DEF Accepted
<1>9. \A x : Proven(x)' = Proven(x)
  BY <1>1, <1>5, <1>8 DEF Proven
<1>10. \A x : Offered(x)' = Offered(x)
  BY <1>1, <1>2, <1>9 DEF Offered
<1>. QED
  BY <1>2, <1>5, <1>6, <1>8, <1>9, <1>10

LEMMA JobTyped ==
  ASSUME job \in Jobs
  PROVE  /\ job.kind \in {"npm", "maven", "python"}
         /\ p.installed \in Assignments /\ p.floor \in [Occs -> Nat]
         /\ \A r \in p.needs : r.src \in Occs /\ r.dst \in Occs
         /\ Len(job.batches) \in Nat \ {0}
         /\ \A k \in 1..Len(job.batches) : job.batches[k].occs \subseteq Occs
<1>. DEFINE b == job.batches
<1>1. b \in Seq([occs : SUBSET Occs, go : BOOLEAN]) /\ Len(b) > 0
  BY CertifierAssumption
<1>2. Len(b) \in Nat \ {0} /\ \A k \in 1..Len(b) : b[k] \in [occs : SUBSET Occs, go : BOOLEAN]
  <2>. DEFINE S == [occs : SUBSET Occs, go : BOOLEAN]
  <2>. HIDE DEF b, S
  <2>1. b \in Seq(S) /\ Len(b) > 0
    BY <1>1 DEF S
  <2>2. Len(b) \in Nat \ {0} /\ \A k \in 1..Len(b) : b[k] \in S
    BY <2>1
  <2>. QED
    BY <2>2 DEF S
<1>3. \A k \in 1..Len(b) : b[k].occs \subseteq Occs
  BY <1>2
<1>. QED
  BY <1>2, <1>3, CertifierAssumption DEF p, IsProblem

\* The verdicts of the package manager.
LEMMA VerdictKinds ==
  ASSUME NEW x, NEW d, NEW v \in InstallVerdicts(x, d)
  PROVE  /\ v[1] \in {"ok", "EXACT", "CUT", "BUILD", "UNKNOWN"}
         /\ v[1] = "CUT" => job.kind = "npm"
         /\ v[1] = "BUILD" => job.kind = "python"
<1>1. \A r : /\ NeedVerdict(r)[1] \in {"EXACT", "CUT", "UNKNOWN"}
  BY DEF NeedVerdict
<1>2. CASE PeersBroken(x)
  BY <1>2 DEF InstallVerdicts, PeersBroken
<1>3. CASE ~PeersBroken(x)
  BY <1>1, <1>3 DEF InstallVerdicts
<1>. QED
  BY <1>2, <1>3

LEMMA TypeStep ==
  ASSUME TypeInv, [Next]_vars
  PROVE  TypeInv'
<1>1. job' = job /\ space' = space
  BY QuestionStays
<1>2. Admitted' = Admitted /\ \A x : Offered(x)' = Offered(x)
  BY <1>1, VerdictsStay
<1>3. (space = {Offered(x) : x \in Admitted})'
  BY <1>1, <1>2 DEF TypeInv
<1>4. /\ pc' \in Steps
      /\ step' \in Nat /\ applied' \subseteq Occs /\ faults' \in Nat /\ offered' \in Int
      /\ result' \in Results /\ outcome' \in Outcomes
      /\ (outcome' # "none" => pc' \in {"clean", "done"})
  <2>. DEFINE Goal == /\ pc' \in Steps
                      /\ step' \in Nat /\ applied' \subseteq Occs /\ faults' \in Nat /\ offered' \in Int
                      /\ result' \in Results /\ outcome' \in Outcomes
                      /\ (outcome' # "none" => pc' \in {"clean", "done"})
  <2>. USE DEF TypeInv, Steps, Results, Outcomes
  <2>1. CASE Deadline \/ EditHost \/ NoVolume \/ Restore \/ Prepare \/ Broken \/ UNCHANGED vars
    BY <2>1 DEF Deadline, EditHost, NoVolume, Restore, Prepare, Broken, Return, vars, task, search, attempt, world
  <2>2. CASE Expire \/ Exhausted \/ Unanswered \/ Skip
    BY <2>2 DEF Expire, Exhausted, Unanswered, Skip, Return, Settled, task, search, attempt, world
  <2>3. CASE Take
    BY <2>3, CertifierAssumption DEF Take, Offer, task, search, attempt, world
  <2>4. CASE Stage
    BY <2>4 DEF Stage, Settle, Scratched, task, search, attempt, world
  <2>5. CASE Install
    <3>1. Added(step) \subseteq Occs
      BY DEF Added, Bumped
    <3>. QED
      BY <2>5, <3>1, VerdictKinds, JobTyped DEF Install, Settle, task, search, attempt, world
  <2>6. CASE Fail
    BY <2>6 DEF Fail, Settle, task, search, attempt, world
  <2>9. CASE CleanScratch
    <3>1. \/ result' = result /\ faults' = faults
          \/ result' = "UNKNOWN" /\ faults' = faults + 1
      BY <2>9 DEF CleanScratch, Settle, LoseResult
    <3>. QED
      BY <2>9, <3>1 DEF CleanScratch, task, search, attempt, world
  <2>8. CASE Cover
    <3>1. result' \in {"CERTIFIED", "EXACT", "UNKNOWN"}
      <4>1. CASE Covers(a) /\ (job.kind = "python" => host = "same")
        BY <2>8, <4>1 DEF Cover, Settle
      <4>2. CASE ~Covers(a) /\ job.kind = "npm"
        BY <2>8, <4>2 DEF Cover, Settle
      <4>. QED
        BY <2>8, <4>1, <4>2 DEF Cover, Settle
    <3>. QED
      BY <2>8, <3>1 DEF Cover, Settle, task, search, attempt, world
  <2>7. CASE Rejected \/ Learn \/ BuildFailed \/ GiveUp \/ Certified \/ Clean
    BY <2>7 DEF Rejected, Learn, LearnCut, Forbid, BuildFailed, GiveUp, Certified, Clean, AnswerLost, Return,
                task, search, attempt, world
  <2>. QED
    BY <2>1, <2>2, <2>3, <2>4, <2>5, <2>6, <2>7, <2>8, <2>9 DEF Next
<1>. QED
  BY <1>1, <1>3, <1>4 DEF TypeInv

-----------------------------------------------------------------------------
(* The candidate, the volume and the batches. *)

LEMMA AnswersStay ==
  ASSUME job' = job, space' = space, forbidden' = forbidden, cuts' = cuts
  PROVE  Open' = Open /\ Answers' = Answers
<1>1. Open' = Open
  BY DEF Open
<1>. QED
  BY <1>1 DEF Answers

\* What each action leaves of the candidate and of what was learned.
LEMMA CandidateStep ==
  ASSUME TypeInv, CandidateIsAnswer, [Next]_vars
  PROVE  CandidateIsAnswer'
<1>. USE DEF TypeInv, Busy
<1>1. job' = job /\ space' = space
  BY QuestionStays
<1>2. CASE Take
  <2>1. forbidden' = forbidden /\ cuts' = cuts /\ \E x \in Answers : cand' = {x}
    BY <1>2 DEF Take
  <2>. QED
    BY <1>1, <2>1, AnswersStay DEF CandidateIsAnswer
<1>3. CASE Skip \/ Rejected \/ Learn \/ BuildFailed
  <2>1. ~(Busy' \/ outcome' = "CERTIFIED")
    BY <1>3 DEF Skip, Rejected, Learn, BuildFailed, Return
  <2>. QED
    BY <2>1 DEF CandidateIsAnswer
<1>4. CASE ~(Take \/ Skip \/ Rejected \/ Learn \/ BuildFailed)
  <2>1. /\ forbidden' = forbidden /\ cuts' = cuts /\ cand' = cand
        /\ Busy' \/ outcome' = "CERTIFIED" => Busy \/ outcome = "CERTIFIED"
    <3>1. CASE Deadline \/ EditHost \/ NoVolume \/ Restore \/ Prepare \/ Broken \/ UNCHANGED vars
      BY <3>1 DEF Deadline, EditHost, NoVolume, Restore, Prepare, Broken, Return, vars, search, attempt
    <3>2. CASE Expire \/ Exhausted \/ Unanswered
      BY <3>2 DEF Expire, Exhausted, Unanswered, Return, Settled, search, attempt
    <3>3. CASE Stage \/ Install
      BY <3>3 DEF Stage, Install, search
    <3>4. CASE Fail \/ Cover \/ CleanScratch
      BY <3>4 DEF Fail, Cover, CleanScratch, search
    <3>5. CASE GiveUp \/ Certified \/ Clean
      BY <3>5 DEF GiveUp, Certified, Clean, AnswerLost, Return, search, attempt
    <3>. QED
      BY <1>4, <3>1, <3>2, <3>3, <3>4, <3>5 DEF Next
  <2>2. Answers' = Answers
    BY <1>1, <2>1, AnswersStay
  <2>. QED
    BY <2>1, <2>2 DEF CandidateIsAnswer
<1>. QED
  BY <1>2, <1>3, <1>4

LEMMA VolumeStep ==
  ASSUME TypeInv, VolumeMatches, [Next]_vars
  PROVE  VolumeMatches'
<1>. USE DEF TypeInv, Busy
<1>1. job' = job
  BY QuestionStays
<1>2. CASE Restore
  BY <1>2 DEF Restore, VolumeMatches
<1>3. CASE Prepare
  <2>1. volume' = volume
    BY <1>3 DEF Prepare, world
  <2>2. Matches' = Matches
    BY <1>1, <2>1 DEF Matches
  <2>. QED
    BY <1>3, <2>2 DEF Prepare, Return, VolumeMatches
<1>4. CASE ~(Restore \/ Prepare)
  <2>1. /\ volume' = volume
        /\ Busy' \/ pc' \in {"solve", "next"} => Busy \/ pc \in {"solve", "next"}
    <3>1. CASE Deadline \/ EditHost \/ NoVolume \/ Broken \/ UNCHANGED vars
      BY <3>1 DEF Deadline, EditHost, NoVolume, Broken, Return, vars, world
    <3>2. CASE Expire \/ Exhausted \/ Unanswered \/ Skip \/ Take
      BY <3>2 DEF Expire, Exhausted, Unanswered, Skip, Take, Return, world
    <3>3. CASE Stage \/ Install
      BY <3>3 DEF Stage, Install, world
    <3>4. CASE Fail \/ Cover \/ CleanScratch
      BY <3>4 DEF Fail, Cover, CleanScratch, world
    <3>5. CASE Rejected \/ Learn \/ BuildFailed \/ GiveUp \/ Certified \/ Clean
      BY <3>5 DEF Rejected, Learn, BuildFailed, GiveUp, Certified, Clean, Return, world
    <3>. QED
      BY <1>4, <3>1, <3>2, <3>3, <3>4, <3>5 DEF Next
  <2>2. Matches' = Matches
    BY <1>1, <2>1 DEF Matches
  <2>. QED
    BY <2>1, <2>2 DEF VolumeMatches
<1>. QED
  BY <1>2, <1>3, <1>4

\* A batch that is held back stops a candidate before it is installed.
LEMMA HoldStep ==
  ASSUME TypeInv, NothingHeldBack, Begun, [Next]_vars
  PROVE  NothingHeldBack' /\ Begun'
<1>. USE DEF TypeInv, Settling, NothingHeldBack, Begun
<1>1. job' = job
  BY QuestionStays
<1>2. CASE Stage
  BY <1>1, <1>2 DEF Stage, Held, Settle
<1>3. CASE Take
  BY <1>1, <1>3 DEF Take
<1>4. CASE Cover
  BY <1>1, <1>4 DEF Cover
<1>5. CASE CleanScratch
  <2>1. result' \in {result, "UNKNOWN"}
    BY <1>5 DEF CleanScratch, Settle, LoseResult
  <2>. QED
    BY <1>1, <1>5, <2>1 DEF CleanScratch
<1>6. CASE Install
  <2>1. pc' = "install" \/ (pc' = "scratch" /\ result' # "CERTIFIED")
    BY <1>6, VerdictKinds DEF Install, Settle
  <2>. QED
    BY <1>1, <1>6, <2>1 DEF Install
<1>7. CASE Fail
  BY <1>1, <1>7 DEF Fail, Settle
<1>8. CASE Deadline \/ EditHost \/ NoVolume \/ Restore \/ Prepare \/ Broken \/ UNCHANGED vars
  BY <1>1, <1>8 DEF Deadline, EditHost, NoVolume, Restore, Prepare, Broken, Return, vars, attempt
<1>9. CASE Expire \/ Exhausted \/ Unanswered \/ Skip
  BY <1>1, <1>9 DEF Expire, Exhausted, Unanswered, Skip, Return, attempt
<1>10. CASE Rejected \/ Learn \/ BuildFailed \/ GiveUp \/ Certified \/ Clean
  BY <1>1, <1>10 DEF Rejected, Learn, BuildFailed, GiveUp, Certified, Clean, Return, attempt
<1>. QED
  BY <1>2, <1>3, <1>4, <1>5, <1>6, <1>7, <1>8, <1>9, <1>10 DEF Next

-----------------------------------------------------------------------------
(* What the package manager has seen of the candidate. *)

LEMMA AnswerIsAdmitted ==
  ASSUME TypeInv, CandidateIsAnswer, Busy \/ outcome = "CERTIFIED"
  PROVE  /\ cand = {a} /\ a \in Admitted /\ a \in Assignments /\ space # {}
         /\ ~Excluded(a, forbidden, cuts)
<1>1. PICK x \in Answers : cand = {x}
  BY DEF CandidateIsAnswer
<1>2. PICK y \in Open : y.plan = x
  BY <1>1 DEF Answers, Best
<1>3. y \in space /\ ~Excluded(x, forbidden, cuts)
  BY <1>2 DEF Open
<1>4. x \in Admitted
  BY <1>2, <1>3 DEF TypeInv, Offered
<1>5. a = x
  BY <1>1 DEF a
<1>. QED
  BY <1>1, <1>3, <1>4, <1>5 DEF Admitted, Solutions

LEMMA MixedWhole ==
  ASSUME NEW x \in Assignments
  PROVE  Mixed(x, Occs) = x
BY DEF Mixed, Assignments

\* The batches up to the next are the earlier ones and the next one.
LEMMA UptoNext ==
  ASSUME job \in Jobs, NEW k \in Nat \ {0}, job.kind # "python"
  PROVE  Upto(a, k) = Upto(a, k - 1) \cup Added(k) /\ Upto(a, 0) = {}
<1>1. 1..k = (1..(k - 1)) \cup {k} /\ 1..0 = {}
  OBVIOUS
<1>2. (UNION {job.batches[j].occs : j \in 1..k})
      = (UNION {job.batches[j].occs : j \in 1..(k - 1)}) \cup job.batches[k].occs
  BY <1>1
<1>3. UNION {job.batches[j].occs : j \in 1..0} = {}
  BY <1>1
<1>4. Upto(a, k) = Changes(a) \cap UNION {job.batches[j].occs : j \in 1..k}
  BY DEF Upto
<1>5. Upto(a, k - 1) = Changes(a) \cap UNION {job.batches[j].occs : j \in 1..(k - 1)}
  BY DEF Upto
<1>6. Added(k) = job.batches[k].occs \cap Changes(a)
  BY DEF Added, Changes
<1>. QED
  BY <1>2, <1>3, <1>4, <1>5, <1>6 DEF Upto

\* What is installed without complaint is what the package manager accepts.
LEMMA OkIsAccepted ==
  ASSUME job \in Jobs, NEW k, NEW v \in InstallVerdicts(Mixed(a, Upto(a, k)), Upto(a, k)), v[1] = "ok"
  PROVE  Accepted(a, k) /\ Mixed(a, Upto(a, k)) \notin job.world.refuses
<1>. DEFINE done == Upto(a, k)
            y == Mixed(a, done)
<1>1. ~PeersBroken(y)
  BY DEF InstallVerdicts
<1>2. y \notin job.world.refuses
  BY <1>1 DEF InstallVerdicts
<1>3. job.kind = "npm" => BrokenNeeds(y, done) = {}
  <2>1. \A r : NeedVerdict(r)[1] # "ok"
    BY DEF NeedVerdict
  <2>. QED
    BY <1>1, <1>2, <2>1 DEF InstallVerdicts
<1>4. ASSUME job.kind = "npm"
      PROVE  \A r \in p.needs : r.src \in done /\ a[r.src] = r.ver =>
                 job.world.resolve[r] = "target" /\ y[r.dst] \in r.range
  BY <1>3, <1>4 DEF BrokenNeeds
<1>5. job.kind = "npm" /\ job.world.strict => BrokenPeers(y) = {}
  BY <1>1 DEF PeersBroken
<1>. HIDE DEF done, y
<1>6. Accepted(a, k)
  BY <1>2, <1>4, <1>5 DEF Accepted, done, y
<1>. QED
  BY <1>2, <1>6 DEF done, y

LEMMA ProgressStep ==
  ASSUME TypeInv, CandidateIsAnswer, Begun, Progress, [Next]_vars
  PROVE  Progress'
<1>. USE DEF TypeInv
<1>1. job' = job
  BY QuestionStays
<1>2. job \in Jobs /\ Len(job.batches) \in Nat \ {0} /\ job.kind \in {"npm", "maven", "python"}
  BY JobTyped
<1>3. \A x, k : Upto(x, k)' = Upto(x, k) /\ Accepted(x, k)' = Accepted(x, k)
  BY <1>1, VerdictsStay
<1>4. CASE Stage
  <2>. SUFFICES ASSUME pc' = "install" PROVE Progress'
    BY DEF Progress
  <2>1. step' = 1 /\ applied' = {} /\ cand' = cand /\ ~EngineRefuses
    BY <1>4 DEF Stage, Begun
  <2>2. a' = a
    BY <2>1 DEF a
  <2>3. Upto(a, 0)' = {}
    BY <1>3, <2>2 DEF Upto
  <2>4. job.kind = "npm" => Engine(a)' = {}
    BY <1>1, <2>1, <2>2 DEF EngineRefuses, Engine, p
  <2>. QED
    BY <1>1, <1>2, <2>1, <2>3, <2>4 DEF Progress
<1>5. CASE Install
  <2>. SUFFICES ASSUME pc' = "install" PROVE Progress'
    BY DEF Progress
  <2>. DEFINE done == applied \cup Added(step)
  <2>1. PICK v \in InstallVerdicts(Mixed(a, done), done) :
               v[1] = "ok" /\ step' = (IF job.kind = "python" THEN Len(job.batches) ELSE step) + 1
    BY <1>5 DEF Install, Settle
  <2>2. applied' = done /\ cand' = cand /\ pc = "install" /\ step <= Len(job.batches)
    BY <1>5 DEF Install
  <2>3. a' = a
    BY <2>2 DEF a
  <2>4. a \in Assignments
    BY <2>2, AnswerIsAdmitted DEF Busy
  <2>5. CASE job.kind = "python"
    <3>1. done = Occs
      BY <2>5 DEF Added
    <3>2. Mixed(a, done) = a
      BY <3>1, <2>4, MixedWhole
    <3>3. a \notin job.world.refuses
      <4>1. ~PeersBroken(a)
        BY <2>5 DEF PeersBroken
      <4>2. v \in InstallVerdicts(a, Occs)
        BY <2>1, <3>1, <3>2
      <4>. QED
        BY <2>1, <4>1, <4>2 DEF InstallVerdicts
    <3>. QED
      BY <1>1, <1>2, <2>1, <2>2, <2>3, <2>5, <3>3 DEF Progress
  <2>6. CASE job.kind # "python"
    <3>1. step \in 1..Len(job.batches) /\ applied = Upto(a, step - 1)
      BY <2>2, <2>6, <1>2 DEF Progress
    <3>2. done = Upto(a, step)
      BY <3>1, <2>6, <1>2, UptoNext
    <3>3. Accepted(a, step)
      BY <2>1, <3>2, OkIsAccepted
    <3>4. step' = step + 1 /\ step' - 1 = step
      BY <2>1, <2>6, <3>1
    <3>5. \A k \in 1..step : Accepted(a, k)
      <4>1. \A k \in 1..(step - 1) : Accepted(a, k)
        BY <2>2, <2>6 DEF Progress
      <4>2. \A k \in 1..step : k = step \/ k \in 1..(step - 1)
        BY <3>1
      <4>. QED
        BY <3>3, <4>1, <4>2
    <3>6. job.kind = "npm" => Engine(a)' = {}
      <4>1. job.kind = "npm" => Engine(a) = {}
        BY <2>2 DEF Progress
      <4>. QED
        BY <4>1, <1>1, <2>3 DEF Engine, p
    <3>7. (applied = Upto(a, step - 1))'
      BY <1>3, <2>2, <2>3, <3>2, <3>4
    <3>8. (\A k \in 1..(step - 1) : Accepted(a, k))'
      BY <1>3, <2>3, <3>4, <3>5
    <3>9. (step \in 1..(Len(job.batches) + 1))'
      BY <1>1, <1>2, <3>1, <3>4
    <3>. HIDE DEF done
    <3>. QED
      BY <1>1, <2>6, <3>6, <3>7, <3>8, <3>9 DEF Progress
  <2>. QED
    BY <2>5, <2>6
<1>6. CASE pc' # "install"
  BY <1>6 DEF Progress
<1>7. CASE pc' = "install" /\ ~(Stage \/ Install)
  <2>1. pc = "install" /\ step' = step /\ applied' = applied /\ cand' = cand
    <3>1. CASE Deadline \/ EditHost \/ NoVolume \/ Restore \/ Prepare \/ Broken \/ UNCHANGED vars
      BY <1>7, <3>1 DEF Deadline, EditHost, NoVolume, Restore, Prepare, Broken, Return, vars, attempt
    <3>2. CASE Expire \/ Exhausted \/ Unanswered \/ Skip \/ Take
      BY <1>7, <3>2 DEF Expire, Exhausted, Unanswered, Skip, Take, Return
    <3>3. CASE Fail \/ Cover \/ CleanScratch
      BY <1>7, <3>3 DEF Fail, Cover, CleanScratch
    <3>4. CASE Rejected \/ Learn \/ BuildFailed \/ GiveUp \/ Certified \/ Clean
      BY <1>7, <3>4 DEF Rejected, Learn, BuildFailed, GiveUp, Certified, Clean, Return
    <3>. QED
      BY <1>7, <3>1, <3>2, <3>3, <3>4 DEF Next
  <2>2. a' = a
    BY <2>1 DEF a
  <2>3. Engine(a)' = Engine(a)
    BY <1>1, <2>2 DEF Engine, p
  <2>4. (applied = Upto(a, step - 1))' <=> applied = Upto(a, step - 1)
    BY <1>3, <2>1, <2>2
  <2>5. (\A k \in 1..(step - 1) : Accepted(a, k))' <=> \A k \in 1..(step - 1) : Accepted(a, k)
    BY <1>3, <2>1, <2>2
  <2>. QED
    BY <1>1, <2>1, <2>2, <2>3, <2>4, <2>5 DEF Progress
<1>. QED
  BY <1>4, <1>5, <1>6, <1>7

LEMMA CertifiedStep ==
  ASSUME TypeInv, CandidateIsAnswer, Progress, CertifiedIsProven, [Next]_vars
  PROVE  CertifiedIsProven'
<1>. USE DEF TypeInv, Settling
<1>1. job' = job
  BY QuestionStays
<1>2. \A x : Proven(x)' = Proven(x)
  BY <1>1, VerdictsStay
<1>3. CASE Cover
  <2>. SUFFICES ASSUME result' = "CERTIFIED" PROVE Proven(a)'
    BY <1>3 DEF Cover, CertifiedIsProven
  <2>1. pc = "install" /\ step > Len(job.batches) /\ cand' = cand
    BY <1>3 DEF Cover
  <2>2. Covers(a)
    <3>1. CASE ~Covers(a) /\ job.kind = "npm"
      BY <1>3, <3>1 DEF Cover, Settle
    <3>2. CASE ~Covers(a) /\ job.kind # "npm"
      BY <1>3, <3>2 DEF Cover, Settle
    <3>. QED
      BY <3>1, <3>2
  <2>3. step = Len(job.batches) + 1
    BY <2>1, JobTyped DEF Progress
  <2>4. job.kind = "python" => a \notin job.world.refuses
    BY <2>1 DEF Progress
  <2>5. job.kind # "python" => \A k \in 1..Len(job.batches) : Accepted(a, k)
    <3>1. job.kind # "python" => \A k \in 1..(step - 1) : Accepted(a, k)
      BY <2>1 DEF Progress
    <3>2. step - 1 = Len(job.batches)
      BY <2>3, JobTyped
    <3>. QED
      BY <3>1, <3>2
  <2>6. job.kind = "npm" => Engine(a) = {}
    BY <2>1 DEF Progress
  <2>7. Proven(a)
    BY <2>2, <2>4, <2>5, <2>6 DEF Proven, Engine
  <2>8. a' = a
    BY <2>1 DEF a
  <2>. QED
    BY <1>2, <2>7, <2>8
<1>4. CASE ~(Settling' /\ result' = "CERTIFIED") /\ outcome' # "CERTIFIED"
  BY <1>4 DEF CertifiedIsProven
<1>5. CASE ~Cover /\ ((Settling' /\ result' = "CERTIFIED") \/ outcome' = "CERTIFIED")
  <2>1. cand' = cand /\ ((Settling /\ result = "CERTIFIED") \/ outcome = "CERTIFIED")
    <3>1. CASE Deadline \/ EditHost \/ NoVolume \/ Restore \/ Prepare \/ Broken \/ UNCHANGED vars
      BY <1>5, <3>1 DEF Deadline, EditHost, NoVolume, Restore, Prepare, Broken, Return, vars, attempt
    <3>2. CASE Expire \/ Exhausted \/ Unanswered \/ Skip \/ Take
      BY <1>5, <3>2 DEF Expire, Exhausted, Unanswered, Skip, Take, Settled, Return
    <3>3. CASE Stage
      BY <1>5, <3>3 DEF Stage, Settle
    <3>4. CASE Install
      BY <1>5, <3>4, VerdictKinds DEF Install, Settle
    <3>5. CASE Fail
      BY <1>5, <3>5 DEF Fail, Settle
    <3>6. CASE CleanScratch
      BY <1>5, <3>6 DEF CleanScratch, Settle, LoseResult
    <3>7. CASE Rejected \/ Learn \/ BuildFailed \/ GiveUp
      BY <1>5, <3>7 DEF Rejected, Learn, BuildFailed, GiveUp, Return, attempt
    <3>8. CASE Certified \/ Clean
      BY <1>5, <3>8 DEF Certified, Clean, AnswerLost, Return, attempt
    <3>. QED
      BY <1>5, <3>1, <3>2, <3>3, <3>4, <3>5, <3>6, <3>7, <3>8 DEF Next
  <2>2. a' = a
    BY <2>1 DEF a
  <2>. QED
    BY <1>2, <2>1, <2>2 DEF CertifiedIsProven
<1>. QED
  BY <1>3, <1>4, <1>5

-----------------------------------------------------------------------------
(* What is learned from a refusal holds of every assignment it excludes. *)

\* What becomes of an occurrence depends on its own version only.
LEMMA VersionDecides ==
  ASSUME NEW x, NEW y, NEW o \in Occs, x[o] = y[o]
  PROVE  /\ o \in Bumped(p, x) <=> o \in Bumped(p, y)
         /\ \A k : o \in Upto(x, k) <=> o \in Upto(y, k)
         /\ \A k : Mixed(x, Upto(x, k))[o] = Mixed(y, Upto(y, k))[o]
<1>1. Action(p, o, x) = Action(p, o, y)
  BY DEF Action, ByVersion
<1>2. o \in Bumped(p, x) <=> o \in Bumped(p, y)
  BY <1>1 DEF Bumped
<1>3. o \in Changes(x) <=> o \in Changes(y)
  BY <1>2 DEF Changes
<1>4. \A k : o \in Upto(x, k) <=> o \in Upto(y, k)
  BY <1>3 DEF Upto
<1>. QED
  BY <1>2, <1>4 DEF Mixed

LEMMA PairHits ==
  ASSUME NEW x, NEW s, NEW t, Hits(x, Literals(a, {s, t}))
  PROVE  x[s] = a[s] /\ x[t] = a[t]
<1>1. <<s, a[s]>> \in Literals(a, {s, t}) /\ <<t, a[t]>> \in Literals(a, {s, t})
  BY DEF Literals
<1>2. \A literal \in Literals(a, {s, t}) : x[literal[1]] = literal[2]
  BY DEF Hits
<1>3. x[<<s, a[s]>>[1]] = <<s, a[s]>>[2] /\ x[<<t, a[t]>>[1]] = <<t, a[t]>>[2]
  BY <1>1, <1>2
<1>. QED
  BY <1>3

LEMMA CutIsSound ==
  ASSUME job \in Jobs, OneCopy, NEW k, NEW x, x \in Admitted,
         NEW v \in InstallVerdicts(Mixed(a, Upto(a, k)), Upto(a, k)), v[1] = "CUT", Hits(x, v[2])
  PROVE  ~Accepted(x, k)
<1>. DEFINE y == Mixed(a, Upto(a, k))
            z == Mixed(x, Upto(x, k))
<1>1. job.kind = "npm" /\ \A r \in p.needs : r.src \in Occs /\ r.dst \in Occs
  BY JobTyped DEF OneCopy
<1>2. CASE PeersBroken(y)
  <2>1. v[2] = PeerCut(y) /\ PeerCut(y) # {}
    BY <1>2 DEF InstallVerdicts
  <2>2. PeerCut(y) \in PeerPairs(y)
    <3>1. Cardinality(PeerPairs(y)) = 1
      BY <2>1 DEF PeerCut
    <3>2. PeerPairs(y) # {}
      BY <3>1, FS_EmptySet
    <3>. QED
      BY <3>1, <3>2 DEF PeerCut
  <2>3. PICK r \in BrokenPeers(y) : a[r.src] = r.ver /\ a[r.dst] = y[r.dst] /\ v[2] = Literals(a, {r.src, r.dst})
    BY <2>1, <2>2 DEF PeerPairs
  <2>4. r \in p.needs /\ r.kind = "peer" /\ y[r.src] = r.ver /\ y[r.dst] \notin r.range
    BY <2>3 DEF BrokenPeers
  <2>5. x[r.src] = a[r.src] /\ x[r.dst] = a[r.dst]
    <3>1. Hits(x, Literals(a, {r.src, r.dst}))
      BY <2>3
    <3>2. \A s, t : Hits(x, Literals(a, {s, t})) => x[s] = a[s] /\ x[t] = a[t]
      BY PairHits
    <3>. QED
      BY <3>1, <3>2
  <2>6. z[r.src] = y[r.src] /\ z[r.dst] = y[r.dst]
    BY <1>1, <2>4, <2>5, VersionDecides
  <2>7. BrokenPeers(z) # {}
    BY <2>4, <2>6 DEF BrokenPeers
  <2>. QED
    BY <1>1, <1>2, <2>7 DEF Accepted, PeersBroken
<1>3. CASE ~PeersBroken(y)
  <2>1. v[1] \notin {"ok", "EXACT", "BUILD"}
    OBVIOUS
  <2>2. PICK r \in BrokenNeeds(y, Upto(a, k)) : v = NeedVerdict(r)
    BY <1>3, <2>1 DEF InstallVerdicts
  <2>3. /\ r \in p.needs /\ r.src \in Upto(a, k) /\ a[r.src] = r.ver
        /\ job.world.resolve[r] = "target" /\ y[r.dst] \notin r.range
    BY <2>2 DEF BrokenNeeds, OneCopy
  <2>4. v[2] = Literals(a, {r.src, r.dst})
    BY <2>2, <2>3 DEF NeedVerdict
  <2>5. x[r.src] = a[r.src] /\ x[r.dst] = a[r.dst]
    <3>1. Hits(x, Literals(a, {r.src, r.dst}))
      BY <2>4
    <3>2. \A s, t : Hits(x, Literals(a, {s, t})) => x[s] = a[s] /\ x[t] = a[t]
      BY PairHits
    <3>. QED
      BY <3>1, <3>2
  <2>6. z[r.dst] = y[r.dst] /\ r.src \in Upto(x, k)
    BY <1>1, <2>3, <2>5, VersionDecides
  <2>7. z[r.dst] \notin r.range /\ x[r.src] = r.ver
    BY <2>3, <2>5, <2>6
  <2>. QED
    BY <1>1, <2>3, <2>6, <2>7 DEF Accepted
<1>. QED
  BY <1>2, <1>3

LEMMA ExactIsSound ==
  ASSUME job \in Jobs, OneCopy, NEW k,
         NEW v \in InstallVerdicts(Mixed(a, Upto(a, k)), Upto(a, k)), v[1] = "EXACT"
  PROVE  ~Accepted(a, k)
<1>. DEFINE y == Mixed(a, Upto(a, k))
<1>1. job.kind = "npm"
  BY DEF OneCopy
<1>2. CASE PeersBroken(y)
  BY <1>1, <1>2 DEF Accepted, PeersBroken
<1>3. CASE ~PeersBroken(y) /\ y \in job.world.refuses
  BY <1>3 DEF Accepted
<1>4. CASE ~PeersBroken(y) /\ y \notin job.world.refuses
  <2>1. PICK r \in BrokenNeeds(y, Upto(a, k)) : v = NeedVerdict(r)
    BY <1>1, <1>4 DEF InstallVerdicts
  <2>2. job.world.resolve[r] = "target"
    BY <2>1 DEF BrokenNeeds, OneCopy
  <2>. QED
    BY <2>1, <2>2 DEF NeedVerdict
<1>. QED
  BY <1>2, <1>3, <1>4

LEMMA KindsStep ==
  ASSUME TypeInv, Kinds, [Next]_vars
  PROVE  Kinds'
<1>. USE DEF TypeInv, Kinds, Settling
<1>1. job' = job
  BY QuestionStays
<1>2. CASE Stage
  BY <1>1, <1>2 DEF Stage, EngineRefuses, Settle
<1>3. CASE Install
  <2>1. PICK v \in InstallVerdicts(Mixed(a, applied \cup Added(step)), applied \cup Added(step)) :
               IF v[1] = "ok" THEN pc' = pc ELSE result' = v[1]
    BY <1>3 DEF Install, Settle
  <2>. QED
    BY <1>1, <1>3, <2>1, VerdictKinds DEF Install
<1>4. CASE Cover
  <2>1. result' \in {"CERTIFIED", "EXACT", "UNKNOWN"}
    <3>1. CASE Covers(a) /\ (job.kind = "python" => host = "same")
      BY <1>4, <3>1 DEF Cover, Settle
    <3>2. CASE ~Covers(a) /\ job.kind = "npm"
      BY <1>4, <3>2 DEF Cover, Settle
    <3>. QED
      BY <1>4, <3>1, <3>2 DEF Cover, Settle
  <2>. QED
    BY <1>1, <2>1
<1>5. CASE CleanScratch
  <2>1. result' \in {result, "UNKNOWN"}
    BY <1>5 DEF CleanScratch, Settle, LoseResult
  <2>. QED
    BY <1>1, <1>5, <2>1 DEF CleanScratch
<1>6. CASE Fail
  BY <1>1, <1>6 DEF Fail, Settle
<1>7. CASE Deadline \/ EditHost \/ NoVolume \/ Restore \/ Prepare \/ Broken \/ UNCHANGED vars
  BY <1>1, <1>7 DEF Deadline, EditHost, NoVolume, Restore, Prepare, Broken, Return, vars, attempt
<1>8. CASE Expire \/ Exhausted \/ Unanswered \/ Skip \/ Take
  BY <1>1, <1>8 DEF Expire, Exhausted, Unanswered, Skip, Take, Return, attempt
<1>9. CASE Rejected \/ Learn \/ BuildFailed \/ GiveUp \/ Certified \/ Clean
  BY <1>1, <1>9 DEF Rejected, Learn, BuildFailed, GiveUp, Certified, Clean, Return, attempt
<1>. QED
  BY <1>2, <1>3, <1>4, <1>5, <1>6, <1>7, <1>8, <1>9 DEF Next

\* A cut made of the refused engine: whoever takes that version meets the same refusal.
LEMMA EngineIsSound ==
  ASSUME NEW o \in Engine(a), NEW x, x \in Admitted, Hits(x, Literals(a, {o})), job.kind = "npm"
  PROVE  ~Proven(x)
<1>1. o \in Occs /\ o \in Bumped(p, a) /\ <<o, a[o]>> \in job.world.engine
  BY DEF Engine, Bumped
<1>2. x[o] = a[o]
  <2>1. Hits(x, Literals(a, {o, o}))
    <3>1. {o, o} = {o}
      OBVIOUS
    <3>. QED
      BY <3>1
  <2>. QED
    BY <2>1, PairHits
<1>3. o \in Bumped(p, x)
  BY <1>1, <1>2, VersionDecides
<1>. QED
  BY <1>1, <1>2, <1>3 DEF Proven

LEMMA LessonsStep ==
  ASSUME TypeInv, CandidateIsAnswer, Progress, Kinds, Lessons, [Next]_vars
  PROVE  Lessons'
<1>. USE DEF TypeInv, Settling
<1>1. job' = job
  BY QuestionStays
<1>2. /\ OneCopy' <=> OneCopy
      /\ Admitted' = Admitted /\ \A x : Proven(x)' = Proven(x)
  BY <1>1, VerdictsStay DEF OneCopy, p
<1>. SUFFICES ASSUME OneCopy PROVE Lessons'
  BY <1>2 DEF Lessons
<1>3. job.kind = "npm"
  BY DEF OneCopy
<1>. DEFINE Exact == Settling' /\ result' = "EXACT" => ~Proven(a)
            Cut == Settling' /\ result' = "CUT" => \A x \in Admitted : Hits(x, learned') => ~Proven(x)
            Past == \A x \in Admitted : Excluded(x, forbidden', cuts') => ~Proven(x)
<1>4. /\ \A x \in Admitted : Excluded(x, forbidden, cuts) => ~Proven(x)
      /\ (Settling /\ result = "EXACT" => ~Proven(a))
      /\ (Settling /\ result = "CUT") => \A x \in Admitted : Hits(x, learned) => ~Proven(x)
  BY DEF Lessons
<1>5. ASSUME Past, cand' = cand, Exact, Cut PROVE Lessons'
  <2>1. a' = a
    BY <1>5 DEF a
  <2>. QED
    BY <1>2, <1>5, <2>1 DEF Lessons
<1>6. ASSUME Past, ~Settling' PROVE Lessons'
  BY <1>2, <1>6 DEF Lessons
<1>7. ASSUME forbidden' = forbidden, cuts' = cuts PROVE Past
  BY <1>4, <1>7
\* A candidate is refused.
<1>8. CASE Stage
  <2>1. Past /\ cand' = cand
    BY <1>7, <1>8 DEF Stage
  <2>2. CASE Settling' /\ result' = "CUT"
    <3>1. PICK o \in Engine(a) : learned' = Literals(a, {o})
      BY <1>8, <2>2 DEF Stage, Settle
    <3>2. \A x \in Admitted : Hits(x, learned') => ~Proven(x)
      BY <1>3, <3>1, EngineIsSound
    <3>. QED
      BY <1>5, <2>1, <2>2, <3>2
  <2>3. CASE ~(Settling' /\ result' = "CUT")
    <3>1. ~(Settling' /\ result' = "EXACT")
      BY <1>8 DEF Stage, Settle
    <3>. QED
      BY <1>5, <2>1, <2>3, <3>1
  <2>. QED
    BY <2>2, <2>3
<1>9. CASE Install
  <2>1. Past /\ cand' = cand /\ pc = "install" /\ step <= Len(job.batches)
    BY <1>7, <1>9 DEF Install, search
  <2>2. step \in 1..Len(job.batches) /\ applied = Upto(a, step - 1)
    BY <1>3, <2>1, JobTyped DEF Progress
  <2>3. applied \cup Added(step) = Upto(a, step)
    <3>1. step \in Nat \ {0} /\ job.kind # "python"
      BY <1>3, <2>2, JobTyped
    <3>. QED
      BY <2>2, <3>1, UptoNext
  <2>4. PICK v \in InstallVerdicts(Mixed(a, Upto(a, step)), Upto(a, step)) :
               IF v[1] = "ok" THEN pc' = pc ELSE result' = v[1] /\ learned' = v[2]
    BY <1>9, <2>3 DEF Install, Settle
  <2>5. \A x : ~Accepted(x, step) => ~Proven(x)
    BY <1>3, <2>2 DEF Proven
  <2>6. Exact
    <3>1. v[1] = "EXACT" => ~Accepted(a, step)
      BY ExactIsSound
    <3>. QED
      BY <2>1, <2>4, <2>5, <3>1
  <2>7. Cut
    <3>1. v[1] = "CUT" => \A x \in Admitted : Hits(x, v[2]) => ~Accepted(x, step)
      BY CutIsSound
    <3>. QED
      BY <2>1, <2>4, <2>5, <3>1
  <2>. QED
    BY <1>5, <2>1, <2>6, <2>7
<1>10. CASE Cover
  <2>1. Past /\ cand' = cand
    BY <1>7, <1>10 DEF Cover, search
  <2>2. result' = "CERTIFIED" \/ result' = "UNKNOWN" \/ (result' = "EXACT" /\ ~Covers(a))
    <3>1. CASE Covers(a) /\ (job.kind = "python" => host = "same")
      BY <1>10, <3>1 DEF Cover, Settle
    <3>2. CASE ~Covers(a) /\ job.kind = "npm"
      BY <1>10, <3>2 DEF Cover, Settle
    <3>. QED
      BY <1>10, <3>1, <3>2 DEF Cover, Settle
  <2>3. ~Covers(a) => ~Proven(a)
    BY DEF Proven
  <2>. QED
    BY <1>5, <2>1, <2>2, <2>3
<1>11. CASE CleanScratch
  <2>1. Past /\ cand' = cand /\ Settling
    BY <1>7, <1>11 DEF CleanScratch, search
  <2>2. (result' = result /\ learned' = learned) \/ result' = "UNKNOWN"
    BY <1>11 DEF CleanScratch, Settle, LoseResult
  <2>. QED
    BY <1>4, <1>5, <2>1, <2>2
<1>12. CASE Fail
  <2>1. Past /\ cand' = cand /\ result' = "UNKNOWN"
    BY <1>7, <1>12 DEF Fail, search, Settle
  <2>. QED
    BY <1>5, <2>1
\* What it leaves behind.
<1>13. CASE Rejected
  <2>1. cand = {a}
    BY <1>13, AnswerIsAdmitted DEF Rejected, Busy
  <2>2. Past
    BY <1>4, <1>13, <2>1 DEF Rejected, Forbid, Excluded
  <2>. QED
    BY <1>6, <1>13, <2>2 DEF Rejected
<1>14. CASE Learn
  <2>1. Past
    BY <1>4, <1>14 DEF Learn, LearnCut, Excluded
  <2>. QED
    BY <1>6, <1>14, <2>1 DEF Learn
<1>15. CASE BuildFailed
  BY <1>3, <1>15 DEF BuildFailed, Kinds
<1>16. CASE Skip
  BY <1>3, <1>16 DEF Skip, NothingToDo
<1>17. CASE Take
  <2>1. Past
    BY <1>7, <1>17 DEF Take
  <2>. QED
    BY <1>6, <1>17, <2>1 DEF Take
\* Nothing is learned.
<1>18. CASE Deadline \/ EditHost \/ NoVolume \/ Restore \/ Prepare \/ Broken \/ UNCHANGED vars
  <2>1. Past /\ cand' = cand /\ result' = result /\ learned' = learned /\ (Settling' => Settling)
    BY <1>7, <1>18 DEF Deadline, EditHost, NoVolume, Restore, Prepare, Broken, Return, vars, search, attempt
  <2>. QED
    BY <1>4, <1>5, <2>1
<1>19. CASE Expire \/ Exhausted \/ Unanswered
  <2>1. Past /\ ~Settling'
    BY <1>7, <1>19 DEF Expire, Exhausted, Unanswered, Return, search
  <2>. QED
    BY <1>6, <2>1
<1>20. CASE GiveUp \/ Certified \/ Clean
  <2>1. Past /\ ~Settling'
    BY <1>7, <1>20 DEF GiveUp, Certified, Clean, Return, search
  <2>. QED
    BY <1>6, <2>1
<1>. QED
  BY <1>8, <1>9, <1>10, <1>11, <1>12, <1>13, <1>14, <1>15, <1>16, <1>17, <1>18, <1>19, <1>20 DEF Next

-----------------------------------------------------------------------------
(* A rejection. *)

LEMMA RejectionStep ==
  ASSUME TypeInv, CandidateIsAnswer, Given, RejectionIsFounded, [Next]_vars
  PROVE  Given' /\ RejectionIsFounded'
<1>. USE DEF TypeInv, Busy
<1>1. job' = job /\ space' = space
  BY QuestionStays
<1>2. CASE space # {}
  <2>1. Given'
    BY <1>1, <1>2 DEF Given
  <2>2. CASE Exhausted
    <3>1. outcome' = "REJECTED" => job.kind # "python"
      BY <2>2 DEF Exhausted, Return
    <3>2. Open = {} /\ Open' = Open
      BY <1>1, <2>2, AnswersStay DEF Exhausted, search
    <3>. QED
      BY <1>1, <1>2, <2>1, <3>1, <3>2 DEF RejectionIsFounded
  <2>3. CASE Unanswered
    <3>1. outcome' = "REJECTED" => job.kind = "maven" /\ job.slow
      BY <2>3 DEF Unanswered, Return
    <3>. QED
      BY <1>1, <1>2, <2>1, <3>1 DEF RejectionIsFounded
  <2>4. CASE outcome' # "REJECTED"
    BY <2>1, <2>4 DEF RejectionIsFounded
  <2>5. CASE outcome' = "REJECTED" /\ ~(Exhausted \/ Unanswered)
    <3>1. outcome = "REJECTED" /\ forbidden' = forbidden /\ cuts' = cuts
      <4>1. CASE Deadline \/ EditHost \/ NoVolume \/ Restore \/ Prepare \/ Broken \/ UNCHANGED vars
        BY <2>5, <4>1 DEF Deadline, EditHost, NoVolume, Restore, Prepare, Broken, Return, vars, search
      <4>2. CASE Expire \/ Skip \/ Take
        BY <2>5, <4>2 DEF Expire, Skip, Take, Return
      <4>3. CASE Stage \/ Install
        BY <2>5, <4>3 DEF Stage, Install
      <4>4. CASE Fail \/ Cover \/ CleanScratch
        BY <2>5, <4>4 DEF Fail, Cover, CleanScratch
      <4>5. CASE Rejected \/ Learn \/ BuildFailed \/ GiveUp \/ Certified
        BY <2>5, <4>5 DEF Rejected, Learn, BuildFailed, GiveUp, Certified, Return
      <4>6. CASE Clean
        BY <2>5, <4>6 DEF Clean, AnswerLost, search
      <4>. QED
        BY <2>5, <4>1, <4>2, <4>3, <4>4, <4>5, <4>6 DEF Next
    <3>2. Open' = Open
      BY <1>1, <3>1, AnswersStay
    <3>. QED
      BY <1>1, <2>1, <3>1, <3>2 DEF RejectionIsFounded
  <2>. QED
    BY <2>2, <2>3, <2>4, <2>5
\* Without an assignment there is nothing to try and nothing to learn.
<1>3. CASE space = {}
  <2>1. tried = {} /\ cuts = {} /\ ~Busy /\ outcome # "REJECTED"
    BY <1>3 DEF Given, RejectionIsFounded
  <2>2. Open = {} /\ Answers = {}
    BY <1>3 DEF Open, Answers, Best
  <2>3. tried' = {} /\ cuts' = {} /\ ~Busy' /\ outcome' # "REJECTED"
    <3>1. CASE Deadline \/ EditHost \/ NoVolume \/ Restore \/ Prepare \/ Broken \/ UNCHANGED vars
      BY <2>1, <3>1 DEF Deadline, EditHost, NoVolume, Restore, Prepare, Broken, Return, vars, search
    <3>2. CASE Expire \/ Exhausted \/ Unanswered
      BY <2>1, <3>2 DEF Expire, Exhausted, Unanswered, Settled, Return, search
    <3>3. CASE Skip \/ Take
      BY <2>1, <2>2, <3>3 DEF Skip, Take
    <3>4. CASE Stage \/ Install \/ Fail \/ Cover \/ CleanScratch
      BY <2>1, <3>4 DEF Stage, Install, Fail, Cover, CleanScratch
    <3>5. CASE Rejected \/ Learn \/ BuildFailed \/ GiveUp \/ Certified
      BY <2>1, <3>5 DEF Rejected, Learn, BuildFailed, GiveUp, Certified
    <3>6. CASE Clean
      BY <2>1, <3>6 DEF Clean, AnswerLost, search
    <3>. QED
      BY <3>1, <3>2, <3>3, <3>4, <3>5, <3>6 DEF Next
  <2>. QED
    BY <2>3 DEF Given, RejectionIsFounded
<1>. QED
  BY <1>2, <1>3

-----------------------------------------------------------------------------
(* The invariant. *)

LEMMA CertifierInit == Init => CertifierInv
<1>. SUFFICES ASSUME Init PROVE CertifierInv
  OBVIOUS
<1>1. TypeInv
  BY DEF Init, TypeInv, Steps, Results, Outcomes, Offered, Admitted
<1>2. \A x : ~Excluded(x, forbidden, cuts)
  BY DEF Init, Excluded
<1>. QED
  BY <1>1, <1>2 DEF Init, CertifierInv, CandidateIsAnswer, VolumeMatches, NothingHeldBack, Begun, Progress,
     CertifiedIsProven, Kinds, Lessons, Given, RejectionIsFounded, Busy, Settling

LEMMA CertifierStep == CertifierInv /\ [Next]_vars => CertifierInv'
  BY TypeStep, CandidateStep, VolumeStep, HoldStep, ProgressStep, CertifiedStep, KindsStep, LessonsStep,
     RejectionStep DEF CertifierInv

LEMMA CertifierInvariant == Spec => []CertifierInv
  BY CertifierInit, CertifierStep, PTL DEF Spec

-----------------------------------------------------------------------------
(* What it says. *)

\* npm, where no lockfile holds a second copy of a package, excludes nothing the package manager would
\* accept, and rejects only when nothing is left: the cuts it learns from one candidate are right about all.
THEOREM RejectionsAreExhaustive == Spec => []RejectedIsExhausted
<1>1. CertifierInv => RejectedIsExhausted
  <2>. SUFFICES ASSUME CertifierInv, job.kind = "npm", \A r \in p.needs : job.world.resolve[r] = "target"
                PROVE  /\ \A x \in space : Excluded(x.plan, forbidden, cuts) => ~x.sound
                       /\ outcome = "REJECTED" => Open = {}
    BY DEF RejectedIsExhausted
  <2>1. \A x \in Admitted : Excluded(x, forbidden, cuts) => ~Proven(x)
    BY DEF CertifierInv, Lessons, OneCopy
  <2>2. \A x \in space : x.plan \in Admitted /\ x.sound = Proven(x.plan)
    BY DEF CertifierInv, TypeInv, Offered
  <2>. QED
    BY <2>1, <2>2 DEF CertifierInv, RejectionIsFounded
<1>. QED
  BY <1>1, CertifierInvariant, PTL

\* When a portfolio is certified, npm and Maven have just found the repository unchanged, the volume is still
\* the host's or the verified prefix of that plan, and no batch is one the plan holds back.
THEOREM CertificatesAreCurrent == Spec => CertifiedOnHost
<1>1. CertifierInv /\ [Next]_vars =>
        [outcome' = "CERTIFIED" /\ outcome # "CERTIFIED" =>
           /\ job.kind # "python" => host = "same"
           /\ Matches /\ \A k \in 1..Len(job.batches) : job.batches[k].go]_vars
  <2>. SUFFICES ASSUME CertifierInv, [Next]_vars, outcome' = "CERTIFIED", outcome # "CERTIFIED"
                PROVE  /\ job.kind # "python" => host = "same"
                       /\ Matches /\ \A k \in 1..Len(job.batches) : job.batches[k].go
    OBVIOUS
  <2>1. Certified
    <3>1. CASE Deadline \/ EditHost \/ NoVolume \/ Restore \/ Prepare \/ Broken \/ UNCHANGED vars
      BY <3>1 DEF Deadline, EditHost, NoVolume, Restore, Prepare, Broken, Return, vars
    <3>2. CASE Expire \/ Exhausted \/ Unanswered \/ Skip \/ Take
      BY <3>2 DEF Expire, Exhausted, Unanswered, Skip, Take, Settled, Return
    <3>3. CASE Stage \/ Install \/ Fail \/ Cover \/ CleanScratch
      BY <3>3 DEF Stage, Install, Fail, Cover, CleanScratch
    <3>4. CASE Rejected \/ Learn \/ BuildFailed \/ GiveUp
      BY <3>4 DEF Rejected, Learn, BuildFailed, GiveUp, Return
    <3>5. CASE Clean
      BY <3>5 DEF Clean, AnswerLost
    <3>. QED
      BY <3>1, <3>2, <3>3, <3>4, <3>5 DEF Next
  <2>2. pc = "judge" /\ result = "CERTIFIED" /\ HostUnchanged
    BY <2>1 DEF Certified, Return
  <2>3. Matches
    BY <2>2 DEF CertifierInv, VolumeMatches, Busy
  <2>4. \A k \in 1..Len(job.batches) : job.batches[k].go
    BY <2>2 DEF CertifierInv, NothingHeldBack, Settling
  <2>. QED
    BY <2>2, <2>3, <2>4 DEF HostUnchanged
<1>2. Spec => [][outcome' = "CERTIFIED" /\ outcome # "CERTIFIED" =>
                   /\ job.kind # "python" => host = "same"
                   /\ Matches /\ \A k \in 1..Len(job.batches) : job.batches[k].go]_vars
  BY <1>1, CertifierInvariant, PTL DEF Spec
<1>. QED
  BY <1>2 DEF CertifiedOnHost

-----------------------------------------------------------------------------
(* The certifier implements Certification. *)

Offers == {[plan |-> x.plan, better |-> IF job.slow THEN {} ELSE x.better] : x \in space}
Good == {x.plan : x \in {y \in space : y.sound}}
Out == {x.plan : x \in space \ Open}
Chosen == IF Answer = "certified" THEN cand ELSE {}

\* An assignment is ruled out as a whole: the offers left are those still open.
LEMMA LeftIsOpen ==
  ASSUME TypeInv
  PROVE  {o \in Offers : o.plan \notin Out} = {[plan |-> x.plan, better |-> IF job.slow THEN {} ELSE x.better] : x \in Open}
<1>1. \A x, y \in space : x.plan = y.plan => x = y
  <2>1. \A x \in space : x = Offered(x.plan)
    <3>1. \A z : Offered(z).plan = z
      BY DEF Offered
    <3>. QED
      BY <3>1 DEF TypeInv
  <2>. QED
    BY <2>1
<1>2. \A x \in space : x.plan \notin Out <=> x \in Open
  BY <1>1 DEF Out, Open
<1>3. Open \subseteq space
  BY DEF Open
<1>. QED
  BY <1>2, <1>3 DEF Offers

\* The answers of a solver that is given the time are the best of what is open, in the order of the six terms.
LEMMA AnswersAreCheapest ==
  ASSUME TypeInv, NEW y \in Open, ~job.slow => y \in Best(Open), NEW x \in Open, ~job.slow
  PROVE  x.plan \notin y.better
<1>. SUFFICES ASSUME x.plan \in y.better PROVE FALSE
  OBVIOUS
<1>1. x \in space /\ y \in space /\ y.score <= x.score
  BY DEF Open, Best
<1>2. /\ x.plan \in Assignments /\ x.score = Score(p, x.plan)
      /\ y.plan \in Assignments /\ y.score = Score(p, y.plan)
      /\ y.better = {z \in Admitted : Better(Value(p, z), Value(p, y.plan))}
  BY <1>1 DEF TypeInv, Offered, Admitted, Solutions
<1>3. Better(Value(p, x.plan), Value(p, y.plan))
  BY <1>2
<1>4. IsProblem(p)
  BY CertifierAssumption DEF TypeInv, p
<1>5. /\ Score(p, x.plan) \in Int /\ Score(p, y.plan) \in Int
      /\ Score(p, x.plan) < Score(p, y.plan)
  BY <1>2, <1>3, <1>4, ObjectiveIsLexicographic
<1>. QED
  BY <1>1, <1>2, <1>5

\* What is excluded stays excluded.
LEMMA OutGrows ==
  ASSUME [Next]_vars
  PROVE  Out \subseteq Out' /\ Offers' = Offers /\ Good' = Good
<1>1. job' = job /\ space' = space
  BY QuestionStays
<1>2. forbidden \subseteq forbidden' /\ cuts \subseteq cuts'
  <2>1. CASE Deadline \/ EditHost \/ NoVolume \/ Restore \/ Prepare \/ Broken \/ UNCHANGED vars
    BY <2>1 DEF Deadline, EditHost, NoVolume, Restore, Prepare, Broken, vars, search
  <2>2. CASE Expire \/ Exhausted \/ Unanswered \/ Skip \/ Take
    BY <2>2 DEF Expire, Exhausted, Unanswered, Skip, Take, search
  <2>3. CASE Stage \/ Install \/ Fail \/ Cover \/ CleanScratch
    BY <2>3 DEF Stage, Install, Fail, Cover, CleanScratch, search
  <2>4. CASE Rejected \/ Learn \/ BuildFailed \/ GiveUp \/ Certified \/ Clean
    BY <2>4 DEF Rejected, Forbid, Learn, LearnCut, BuildFailed, GiveUp, Certified, Clean, search
  <2>. QED
    BY <2>1, <2>2, <2>3, <2>4 DEF Next
<1>3. Open' \subseteq Open
  BY <1>1, <1>2 DEF Open, Excluded
<1>. QED
  BY <1>1, <1>3 DEF Out, Offers, Good

LEMMA PromiseStep ==
  ASSUME CertifierInv, [Next]_vars
  PROVE  [Promise!CertNext]_(Promise!certVars)
<1>. USE DEF CertifierInv
<1>1. Out \subseteq Out' /\ Offers' = Offers /\ Good' = Good
  BY OutGrows
<1>2. CASE pc = "done"
  <2>1. UNCHANGED vars
    BY <1>2 DEF Next, Deadline, EditHost, NoVolume, Restore, Prepare, Broken, Expire, Exhausted, Unanswered, Skip,
       Take, Stage, Install, Fail, Cover, CleanScratch, Rejected, Learn, BuildFailed, GiveUp, Certified, Clean
  <2>2. Answer' = Answer /\ Out' = Out /\ Chosen' = Chosen
    BY <2>1 DEF Answer, Out, Open, Chosen, vars
  <2>. QED
    BY <1>1, <2>2 DEF Promise!certVars, Offers, Good, Out, Chosen
<1>3. CASE pc # "done" /\ pc' # "done"
  <2>1. Answer = "open" /\ Answer' = "open" /\ Chosen = {} /\ Chosen' = {}
    BY <1>3 DEF Answer, Chosen
  <2>2. CASE Out' = Out
    BY <1>1, <2>1, <2>2 DEF Promise!certVars, Offers, Good, Out, Chosen
  <2>3. CASE Out' # Out
    BY <1>1, <2>1, <2>3 DEF Promise!CertNext, Promise!RuleOut, Offers, Good, Out, Chosen
  <2>. QED
    BY <2>2, <2>3
<1>4. CASE pc # "done" /\ pc' = "done"
  <2>1. /\ Answer = "open" /\ Chosen = {}
        /\ Answer' \in {"certified", "rejected", "unknown"}
    BY <1>4 DEF Answer, Chosen
  <2>2. forbidden' = forbidden /\ cuts' = cuts /\ cand' = cand /\ outcome' \in {outcome, "UNKNOWN"}
    <3>1. NoVolume \/ Clean
      BY <1>4 DEF Next, Deadline, EditHost, Restore, Prepare, Broken, Expire, Exhausted, Unanswered, Skip, Take, Stage,
         Install, Fail, Cover, CleanScratch, Rejected, Learn, BuildFailed, GiveUp, Certified, Return, vars
    <3>. QED
      BY <3>1 DEF NoVolume, Clean, AnswerLost, search, attempt
  <2>3. job' = job /\ space' = space
    BY QuestionStays
  <2>4. Open' = Open /\ Out' = Out
    BY <2>2, <2>3, AnswersStay DEF Out
  <2>5. CASE Answer' = "unknown"
    <3>1. Chosen' = {}
      BY <2>5 DEF Chosen
    <3>. QED
      BY <1>1, <2>1, <2>4, <2>5, <3>1 DEF Promise!CertNext, Promise!GiveUp, Offers, Good, Out, Chosen
  <2>6. CASE Answer' = "rejected"
    <3>1. Chosen' = {}
      BY <2>6 DEF Chosen
    <3>2. outcome = "REJECTED" /\ ~(job.kind = "maven" /\ job.slow)
      BY <1>4, <2>2, <2>3, <2>6 DEF Answer
    <3>3. Open = {} /\ space # {}
      BY <3>2 DEF RejectionIsFounded
    <3>4. {o \in Offers : o.plan \notin Out} = {}
      BY <3>3, LeftIsOpen
    <3>5. Out # {}
      BY <3>3 DEF Out
    <3>. QED
      BY <1>1, <2>1, <2>4, <2>6, <3>1, <3>4, <3>5
         DEF Promise!CertNext, Promise!Reject, Promise!Left, Offers, Good, Out, Chosen
  <2>7. CASE Answer' = "certified"
    <3>1. outcome = "CERTIFIED"
      BY <1>4, <2>2, <2>7 DEF Answer
    <3>2. PICK y \in Open : cand = {y.plan} /\ (~job.slow => y \in Best(Open))
      <4>1. PICK x \in Answers : cand = {x}
        BY <3>1 DEF CandidateIsAnswer
      <4>. QED
        BY <4>1 DEF Answers, Best
    <3>. DEFINE o == [plan |-> y.plan, better |-> IF job.slow THEN {} ELSE y.better]
    <3>3. o \in {q \in Offers : q.plan \notin Out}
      BY <3>2, LeftIsOpen
    <3>4. \A q \in {z \in Offers : z.plan \notin Out} : q.plan \notin o.better
      <4>1. CASE job.slow
        BY <4>1
      <4>2. CASE ~job.slow
        <5>1. \A x \in Open : x.plan \notin y.better
          BY <3>2, <4>2, AnswersAreCheapest
        <5>. QED
          BY <4>2, <5>1, LeftIsOpen
      <4>. QED
        BY <4>1, <4>2
    <3>5. o.plan \in Good
      <4>1. y \in space /\ y.plan = a
        BY <3>2 DEF Open, a
      <4>2. Proven(a)
        BY <3>1 DEF CertifiedIsProven
      <4>3. y.sound = Proven(y.plan)
        BY <4>1 DEF TypeInv, Offered
      <4>. QED
        BY <4>1, <4>2, <4>3 DEF Good
    <3>6. Chosen' = {o.plan}
      BY <2>2, <2>7, <3>2 DEF Chosen
    <3>7. Promise!Certify
      BY <1>1, <2>1, <2>4, <2>7, <3>3, <3>4, <3>5, <3>6
         DEF Promise!Certify, Promise!Left, Promise!Cheapest, Offers, Good, Out, Chosen
    <3>. QED
      BY <3>7 DEF Promise!CertNext
  <2>. QED
    BY <2>1, <2>5, <2>6, <2>7
<1>. QED
  BY <1>2, <1>3, <1>4

\* The certifier keeps the promise of Certification: what it certifies the package manager accepts, batch by
\* batch and as a whole, and nothing still open was worth more; it rejects only when nothing is left.
THEOREM CertifierKeepsPromise == Spec => KeepsPromise
<1>1. Init => Promise!CertInit
  <2>. SUFFICES ASSUME Init PROVE Promise!CertInit
    OBVIOUS
  <2>1. Open = space
    BY DEF Init, Open, Excluded
  <2>2. Answer = "open"
    BY DEF Init, Answer
  <2>. QED
    BY <2>1, <2>2 DEF Promise!CertInit
<1>2. CertifierInv /\ [Next]_vars => [Promise!CertNext]_(Promise!certVars)
  BY PromiseStep
<1>3. Spec => Promise!CertSpec
  BY <1>1, <1>2, CertifierInvariant, PTL DEF Spec, Promise!CertSpec
<1>. QED
  BY <1>3 DEF KeepsPromise
=============================================================================
