------------------------- MODULE LeaderboardProofs -------------------------
(***************************************************************************)
(* Proofs about Leaderboard, for any runs, any number of requests and rows *)
(* and any length of the list shown.                                       *)
(***************************************************************************)
EXTENDS Leaderboard, FiniteSetTheorems, WellFoundedInduction, TLAPS

----------------------------------------------------------------------------
(* Arithmetic of the score                                                 *)

(* A product grows with its factor. *)
LEMMA ProductMonotone ==
    ASSUME NEW x \in Nat, NEW y \in Nat, NEW z \in Nat, x <= y
    PROVE  x * z <= y * z /\ z * x <= z * y
<1>1. PICK d \in Nat : y = x + d
  <2>1. y - x \in Nat /\ y = x + (y - x)
    OBVIOUS
  <2> QED BY <2>1
<1>2. y * z = x * z + d * z /\ d * z \in Nat
  BY <1>1
<1>3. z * y = z * x + z * d /\ z * d \in Nat
  BY <1>1
<1>4. x * z \in Nat /\ z * x \in Nat
  OBVIOUS
<1> QED BY <1>2, <1>3, <1>4

(* What integer division of natural numbers returns. *)
LEMMA DivisionBounds ==
    ASSUME NEW a \in Nat, NEW b \in Nat \ {0}
    PROVE  /\ a \div b \in Nat
           /\ b * (a \div b) <= a
           /\ a < b * (a \div b) + b
OBVIOUS

(* A larger fraction is rounded down to no less. *)
LEMMA DivisionMonotone ==
    ASSUME NEW a \in Nat, NEW b \in Nat \ {0}, NEW c \in Nat, NEW d \in Nat \ {0}, c * b <= a * d
    PROVE  c \div d <= a \div b
<1>1. PICK p \in Nat : p = a \div b /\ a < b * p + b
  BY DivisionBounds
<1>2. PICK q \in Nat : q = c \div d /\ d * q <= c
  BY DivisionBounds
<1>3. SUFFICES ASSUME p + 1 <= q PROVE FALSE
  BY <1>1, <1>2
<1>4. (d * q) * b <= c * b
  <2>1. d * q \in Nat
    OBVIOUS
  <2> QED BY <1>2, <2>1, ProductMonotone
<1>5. a * d < (b * p + b) * d
  <2>1. a + 1 <= b * p + b /\ b * p + b \in Nat /\ a + 1 \in Nat
    BY <1>1
  <2>2. (a + 1) * d <= (b * p + b) * d
    BY <2>1, ProductMonotone
  <2>3. (a + 1) * d = a * d + d /\ a * d \in Nat /\ (b * p + b) * d \in Nat
    BY <2>1
  <2> QED BY <2>2, <2>3
<1>6. (d * (p + 1)) * b <= (d * q) * b
  <2>1. d * (p + 1) <= d * q /\ d * (p + 1) \in Nat /\ d * q \in Nat
    BY <1>3, ProductMonotone
  <2> QED BY <2>1, ProductMonotone
<1>7. (d * (p + 1)) * b = (b * p + b) * d
  OBVIOUS
<1>8. (d * q) * b \in Nat /\ c * b \in Nat /\ a * d \in Nat /\ (b * p + b) * d \in Nat
  OBVIOUS
<1> QED BY <1>4, <1>5, <1>6, <1>7, <1>8

(* A part of the score falls when the latency it divides by grows. *)
LEMMA PartMonotone ==
    ASSUME NEW a \in Nat \ {0}, NEW b \in Nat \ {0}, a < b, NEW t \in Nat
    PROVE  AtMost(100 * b, t) * a <= AtMost(100 * a, t) * b
<1>1. a * b = b * a /\ a * b \in Nat /\ (100 * a) * b = 100 * (a * b) /\ (100 * b) * a = 100 * (a * b)
  OBVIOUS
<1>2. t * a <= t * b /\ t * a \in Nat /\ t * b \in Nat
  BY ProductMonotone
<1>3. t <= 100 * b => t * a <= (100 * b) * a
  BY ProductMonotone
<1>4. t >= 100 * b => t >= 100 * a
  OBVIOUS
<1>5. CASE t > 100 * b
  BY <1>1, <1>4, <1>5 DEF AtMost
<1>6. CASE ~(t > 100 * b) /\ t > 100 * a
  BY <1>1, <1>3, <1>6 DEF AtMost
<1>7. CASE ~(t > 100 * b) /\ ~(t > 100 * a)
  BY <1>2, <1>7 DEF AtMost
<1> QED BY <1>4, <1>5, <1>6, <1>7

(* So does the stability, if it was no better. *)
LEMMA StabilityMonotone ==
    ASSUME NEW a \in Nat \ {0}, NEW b \in Nat \ {0}, a < b, NEW s \in Nat, NEW t \in Nat, s * b >= t * a
    PROVE  AtMost(100 * b, 100 * t) * a <= AtMost(100 * a, 100 * s) * b
<1>1. a * b \in Nat /\ s * b \in Nat /\ t * a \in Nat
  OBVIOUS
<1>2. /\ (100 * a) * b = 100 * (a * b) /\ (100 * b) * a = 100 * (a * b)
      /\ (100 * s) * b = 100 * (s * b) /\ (100 * t) * a = 100 * (t * a)
  OBVIOUS
<1>3. t <= b => t * a <= b * a
  BY ProductMonotone
<1>4. s <= a => s * b <= a * b
  BY ProductMonotone
<1>5. b * a = a * b
  OBVIOUS
<1>6. CASE s <= a /\ t <= b
  BY <1>1, <1>2, <1>6 DEF AtMost
<1>7. CASE s <= a /\ t > b
  <2>1. b * a <= t * a
    BY <1>7, ProductMonotone
  <2>2. AtMost(100 * b, 100 * t) = 100 * b /\ AtMost(100 * a, 100 * s) = 100 * s
    BY <1>7 DEF AtMost
  <2> QED BY <1>1, <1>2, <1>5, <2>1, <2>2
<1>8. CASE s > a
  <2>1. AtMost(100 * a, 100 * s) = 100 * a
    BY <1>8 DEF AtMost
  <2>2. CASE t <= b
    <3>1. AtMost(100 * b, 100 * t) = 100 * t
      BY <2>2 DEF AtMost
    <3> QED BY <1>1, <1>2, <1>3, <1>5, <2>1, <2>2, <3>1
  <2>3. CASE t > b
    <3>1. AtMost(100 * b, 100 * t) = 100 * b
      BY <2>3 DEF AtMost
    <3> QED BY <1>2, <2>1, <3>1
  <2> QED BY <2>2, <2>3
<1> QED BY <1>6, <1>7, <1>8

(* The figures of a run. *)
Figures == [id: Submissions, p50: Nat, p99: Nat, ok: 0..Total]

(* A score is a natural number. *)
LEMMA ScoreType == ASSUME NEW r \in Figures PROVE CalculateScore(r) \in Nat
<1>1. CASE r.p99 <= 0 \/ r.p50 <= 0
  BY <1>1 DEF CalculateScore
<1>2. CASE ~(r.p99 <= 0 \/ r.p50 <= 0)
  <2>1. r.p99 \in Nat \ {0} /\ r.p50 \in Nat /\ r.ok \in Nat /\ Total \in Nat \ {0}
    BY <1>2, LeaderboardAssumption DEF Figures
  <2>2. PICK x \in Nat, y \in Nat, z \in Nat :
          /\ x = AtMost(100 * r.p99, 40000) /\ y = AtMost(100 * r.p99, 60000)
          /\ z = AtMost(100 * r.p99, 100 * r.p50)
    BY <2>1 DEF AtMost
  <2>3. PICK parts \in Nat : parts = 40 * x + 30 * y + 10 * z
    OBVIOUS
  <2>4. PICK num \in Nat : num = parts * Total + 2000 * r.ok * r.p99
    <3>1. parts * Total \in Nat /\ 2000 * r.ok * r.p99 \in Nat
      BY <2>1
    <3> QED BY <3>1
  <2>5. PICK den \in Nat \ {0} : den = r.p99 * Total
    BY <2>1
  <2>6. 2 * num + den \in Nat /\ 2 * den \in Nat \ {0}
    OBVIOUS
  <2>7. (2 * num + den) \div (2 * den) \in Nat
    BY <2>6, DivisionBounds
  <2>8. CalculateScore(r) = (2 * num + den) \div (2 * den)
    BY <1>2, <2>2, <2>3, <2>4, <2>5 DEF CalculateScore
  <2> QED BY <2>7, <2>8
<1> QED BY <1>1, <1>2

BeatsRun(a, b) ==
    \/ CalculateScore(a) > CalculateScore(b)
    \/ CalculateScore(a) = CalculateScore(b) /\ a.p99 < b.p99

DominatesRun(a, b) ==
    a.p99 > 0 /\ a.p99 < b.p99 /\ a.ok >= b.ok /\ a.p50 * b.p99 >= b.p50 * a.p99

(* The parts of the score of a run with a latency. *)
Parts(p50, p99) ==
    40 * AtMost(100 * p99, 40000) + 30 * AtMost(100 * p99, 60000) + 10 * AtMost(100 * p99, 100 * p50)

(* The score of a run that is better in every figure is no lower: scoring  *)
(* by weighted and clamped parts is monotone, and so is the rounding.      *)
LEMMA DominatorBeats ==
    ASSUME NEW a \in Figures, NEW b \in Figures, DominatesRun(a, b)
    PROVE  BeatsRun(a, b)
<1>1. /\ a.p99 \in Nat \ {0} /\ b.p99 \in Nat \ {0} /\ a.p99 < b.p99
      /\ a.p50 \in Nat /\ b.p50 \in Nat /\ a.ok \in Nat /\ b.ok \in Nat /\ b.ok <= a.ok
      /\ a.p50 * b.p99 >= b.p50 * a.p99 /\ Total \in Nat \ {0}
  BY LeaderboardAssumption DEF DominatesRun, Figures
<1>2. CalculateScore(a) \in Nat /\ CalculateScore(b) \in Nat
  BY ScoreType
<1>3. CASE b.p50 = 0
  <2>1. CalculateScore(b) = 0
    BY <1>3 DEF CalculateScore
  <2> QED BY <1>1, <1>2, <2>1 DEF BeatsRun
<1>4. CASE b.p50 # 0 /\ a.p50 = 0
  <2>1. b.p50 * a.p99 >= 1 /\ a.p50 * b.p99 = 0
    BY <1>1, <1>4
  <2> QED BY <1>1, <2>1
<1>5. CASE b.p50 # 0 /\ a.p50 # 0
  <2>1. PICK m \in Nat, n \in Nat : m = Parts(a.p50, a.p99) /\ n = Parts(b.p50, b.p99)
    BY <1>1 DEF Parts, AtMost
  <2>2. n * a.p99 <= m * b.p99
    <3>1. AtMost(100 * b.p99, 40000) * a.p99 <= AtMost(100 * a.p99, 40000) * b.p99
      BY <1>1, PartMonotone
    <3>2. AtMost(100 * b.p99, 60000) * a.p99 <= AtMost(100 * a.p99, 60000) * b.p99
      BY <1>1, PartMonotone
    <3>3. AtMost(100 * b.p99, 100 * b.p50) * a.p99 <= AtMost(100 * a.p99, 100 * a.p50) * b.p99
      BY <1>1, StabilityMonotone
    <3>4. PICK x1 \in Nat, y1 \in Nat, z1 \in Nat :
            /\ x1 = AtMost(100 * a.p99, 40000) /\ y1 = AtMost(100 * a.p99, 60000)
            /\ z1 = AtMost(100 * a.p99, 100 * a.p50)
      BY <1>1 DEF AtMost
    <3>5. PICK x2 \in Nat, y2 \in Nat, z2 \in Nat :
            /\ x2 = AtMost(100 * b.p99, 40000) /\ y2 = AtMost(100 * b.p99, 60000)
            /\ z2 = AtMost(100 * b.p99, 100 * b.p50)
      BY <1>1 DEF AtMost
    <3>6. m = 40 * x1 + 30 * y1 + 10 * z1 /\ n = 40 * x2 + 30 * y2 + 10 * z2
      BY <2>1, <3>4, <3>5 DEF Parts
    <3>7. x2 * a.p99 <= x1 * b.p99 /\ y2 * a.p99 <= y1 * b.p99 /\ z2 * a.p99 <= z1 * b.p99
      BY <3>1, <3>2, <3>3, <3>4, <3>5
    <3>8. /\ m * b.p99 = 40 * (x1 * b.p99) + 30 * (y1 * b.p99) + 10 * (z1 * b.p99)
          /\ n * a.p99 = 40 * (x2 * a.p99) + 30 * (y2 * a.p99) + 10 * (z2 * a.p99)
      BY <1>1, <3>6
    <3>9. /\ x1 * b.p99 \in Nat /\ y1 * b.p99 \in Nat /\ z1 * b.p99 \in Nat
          /\ x2 * a.p99 \in Nat /\ y2 * a.p99 \in Nat /\ z2 * a.p99 \in Nat
      BY <1>1
    <3> QED BY <3>7, <3>8, <3>9
  <2>3. PICK p \in Nat \ {0}, q \in Nat \ {0}, k \in Nat, l \in Nat, t \in Nat \ {0} :
          p = a.p99 /\ q = b.p99 /\ k = a.ok /\ l = b.ok /\ t = Total
    BY <1>1
  <2>4. PICK A \in Nat, C \in Nat : A = m * t + 2000 * k * p /\ C = n * t + 2000 * l * q
    <3>1. m * t + 2000 * k * p \in Nat /\ n * t + 2000 * l * q \in Nat
      OBVIOUS
    <3> QED BY <3>1
  <2>5. PICK B \in Nat \ {0}, D \in Nat \ {0} : B = p * t /\ D = q * t
    OBVIOUS
  <2>6. C * B <= A * D
    <3>1. PICK u \in Nat, v \in Nat : u = n * p /\ v = m * q /\ u <= v
      BY <2>2, <2>3
    <3>2. u * (t * t) <= v * (t * t)
      <4>1. t * t \in Nat
        OBVIOUS
      <4> QED BY <3>1, <4>1, ProductMonotone
    <3>3. l * (2000 * (p * q) * t) <= k * (2000 * (p * q) * t)
      <4>1. 2000 * (p * q) * t \in Nat /\ l <= k
        BY <1>1, <2>3
      <4> QED BY <4>1, ProductMonotone
    <3>4. C * B = u * (t * t) + l * (2000 * (p * q) * t)
      BY <2>4, <2>5, <3>1
    <3>5. A * D = v * (t * t) + k * (2000 * (p * q) * t)
      BY <2>4, <2>5, <3>1
    <3>6. /\ u * (t * t) \in Nat /\ v * (t * t) \in Nat
          /\ l * (2000 * (p * q) * t) \in Nat /\ k * (2000 * (p * q) * t) \in Nat
      OBVIOUS
    <3> QED BY <3>2, <3>3, <3>4, <3>5, <3>6
  <2>7. (2 * C + D) \div (2 * D) <= (2 * A + B) \div (2 * B)
    <3>1. (2 * C + D) * (2 * B) = 4 * (C * B) + 2 * (D * B)
      OBVIOUS
    <3>2. (2 * A + B) * (2 * D) = 4 * (A * D) + 2 * (D * B)
      OBVIOUS
    <3>3. C * B \in Nat /\ A * D \in Nat /\ D * B \in Nat
      OBVIOUS
    <3>4. (2 * C + D) * (2 * B) <= (2 * A + B) * (2 * D)
      BY <2>6, <3>1, <3>2, <3>3
    <3>5. 2 * C + D \in Nat /\ 2 * A + B \in Nat /\ 2 * B \in Nat \ {0} /\ 2 * D \in Nat \ {0}
      OBVIOUS
    <3> QED BY <3>4, <3>5, DivisionMonotone
  <2>8. CalculateScore(a) = (2 * A + B) \div (2 * B)
    BY <1>1, <1>5, <2>1, <2>3, <2>4, <2>5 DEF CalculateScore, Parts
  <2>9. CalculateScore(b) = (2 * C + D) \div (2 * D)
    BY <1>1, <1>5, <2>1, <2>3, <2>4, <2>5 DEF CalculateScore, Parts
  <2> QED BY <1>1, <1>2, <2>7, <2>8, <2>9 DEF BeatsRun
<1> QED BY <1>1, <1>3, <1>4, <1>5

(* Of two runs one beats the other or they are tied, and so on down a list. *)
LEMMA BeatsOrder ==
    ASSUME NEW a \in Figures, NEW b \in Figures, NEW c \in Figures
    PROVE  /\ ~BeatsRun(a, a)
           /\ ~BeatsRun(a, b) /\ ~BeatsRun(b, c) => ~BeatsRun(a, c)
           /\ ~BeatsRun(a, b) /\ ~BeatsRun(b, a) =>
                 CalculateScore(a) = CalculateScore(b) /\ a.p99 = b.p99
<1>1. /\ CalculateScore(a) \in Nat /\ CalculateScore(b) \in Nat /\ CalculateScore(c) \in Nat
      /\ a.p99 \in Nat /\ b.p99 \in Nat /\ c.p99 \in Nat
  BY ScoreType DEF Figures
<1> QED BY <1>1 DEF BeatsRun

(* A set of natural numbers has a least element. *)
LEMMA LeastNat ==
    ASSUME NEW S \in SUBSET Nat, S # {}
    PROVE  \E x \in S : \A y \in S : x <= y
<1>1. PICK x \in S : \A y \in S : ~(<<y, x>> \in OpToRel(<, Nat))
  BY WFMin, NatLessThanWellFounded
<1>2. \A y \in S : ~(y < x)
  BY <1>1 DEF OpToRel
<1> QED BY <1>2

(* One with a bound has a greatest. *)
LEMMA GreatestNat ==
    ASSUME NEW S \in SUBSET Nat, S # {}, NEW n \in Nat, \A x \in S : x <= n
    PROVE  \E x \in S : \A y \in S : x >= y
<1>1. PICK U : U = {n - x : x \in S}
  OBVIOUS
<1>2. U \in SUBSET Nat /\ U # {}
  <2>1. \A x \in S : n - x \in Nat
    OBVIOUS
  <2> QED BY <1>1, <2>1
<1>3. PICK u \in U : \A y \in U : u <= y
  BY <1>2, LeastNat
<1>4. PICK x \in S : u = n - x
  BY <1>1
<1>5. ASSUME NEW y \in S PROVE x >= y
  <2>1. n - y \in U
    BY <1>1
  <2> QED BY <1>3, <1>4, <2>1
<1> QED BY <1>5

(* Finitely many numbers have a bound. *)
LEMMA FiniteBound ==
    ASSUME NEW n \in Nat, NEW f \in [1..n -> Nat]
    PROVE  \E b \in Nat : \A k \in 1..n : f[k] <= b
<1>1. PICK Bad : Bad = {m \in Nat : m <= n /\ ~\E b \in Nat : \A k \in 1..m : f[k] <= b}
  OBVIOUS
<1>2. Bad \in SUBSET Nat /\ \A m \in Bad : m <= n /\ ~\E b \in Nat : \A k \in 1..m : f[k] <= b
  BY <1>1
<1>3. \A m \in Nat : m <= n /\ m \notin Bad => \E b \in Nat : \A k \in 1..m : f[k] <= b
  BY <1>1
<1>4. Bad = {}
  <2>1. SUFFICES ASSUME Bad # {} PROVE FALSE
    OBVIOUS
  <2>2. PICK m \in Bad : \A k \in Bad : m <= k
    BY <1>2, <2>1, LeastNat
  <2>3. m \in Nat /\ m <= n /\ ~\E b \in Nat : \A k \in 1..m : f[k] <= b
    BY <1>2
  <2>4. m # 0
    <3>1. ~(\A k \in 1..m : f[k] <= 0)
      BY <2>3
    <3> QED BY <3>1
  <2>5. m - 1 \in Nat /\ m - 1 <= n /\ ~(m <= m - 1)
    BY <2>3, <2>4
  <2>6. m - 1 \notin Bad
    BY <2>2, <2>5
  <2>7. PICK u \in Nat : \A k \in 1..(m - 1) : f[k] <= u
    BY <1>3, <2>5, <2>6
  <2>8. f[m] \in Nat
    BY <2>3, <2>4
  <2>9. \A k \in 1..m : f[k] <= u + f[m]
    <3>1. ASSUME NEW k \in 1..m PROVE f[k] <= u + f[m]
      <4>1. CASE k = m
        BY <2>8, <4>1
      <4>2. CASE k # m
        <5>1. k \in 1..(m - 1) /\ k \in 1..n
          BY <2>3, <4>2
        <5>2. f[k] <= u /\ f[k] \in Nat
          BY <2>7, <5>1
        <5> QED BY <2>8, <5>2
      <4> QED BY <4>1, <4>2
    <3> QED BY <3>1
  <2>10. PICK c \in Nat : c = u + f[m]
    BY <2>8
  <2>11. \A k \in 1..m : f[k] <= c
    BY <2>9, <2>10
  <2>12. \E b \in Nat : \A k \in 1..m : f[k] <= b
    BY <2>11, Zenon
  <2> QED BY <2>3, <2>12, Zenon
<1>5. n <= n /\ n \notin Bad
  BY <1>4
<1> QED BY <1>3, <1>5

(* The numbers up to n are n. *)
LEMMA UpTo == ASSUME NEW n \in Nat PROVE IsFiniteSet(1..n) /\ Cardinality(1..n) = n
<1>1. 1 \in Int /\ n \in Int /\ (1 > n <=> n = 0)
  OBVIOUS
<1>2. IsFiniteSet(1..n) /\ Cardinality(1..n) = IF 1 > n THEN 0 ELSE n - 1 + 1
  BY <1>1, FS_Interval, Zenon
<1> QED BY <1>1, <1>2

(* Among n numbers below n two are equal. *)
LEMMA Collision ==
    ASSUME NEW n \in Nat, NEW m \in Nat, m < n, NEW f \in [1..n -> 1..m]
    PROVE  \E x, y \in 1..n : x # y /\ f[x] = f[y]
<1>1. IsFiniteSet(1..n) /\ IsFiniteSet(1..m) /\ Cardinality(1..m) < Cardinality(1..n)
  BY UpTo
<1> QED BY <1>1, FS_PigeonHole, Zenon

Different(n, r) == \A i, j \in 1..n : r[i] = r[j] => i = j
Lists(n, S) == {r \in [1..n -> S] : Different(n, r)}

(* A list of n different members of a set of n has all of them. *)
LEMMA ListsAll ==
    ASSUME NEW S, IsFiniteSet(S), NEW n \in Nat, n = Cardinality(S), NEW r \in [1..n -> S],
           Different(n, r), NEW k \in S
    PROVE  \E i \in 1..n : r[i] = k
<1> SUFFICES ASSUME \A i \in 1..n : r[i] # k PROVE FALSE
  OBVIOUS
<1>1. IsFiniteSet(S \ {k}) /\ Cardinality(S \ {k}) = n - 1
  BY FS_RemoveElement
<1>2. IsFiniteSet(1..n) /\ Cardinality(1..n) = n
  BY UpTo
<1>3. r \in [1..n -> S \ {k}]
  OBVIOUS
<1>4. \E i, j \in 1..n : i # j /\ r[i] = r[j]
  BY <1>1, <1>2, <1>3, FS_PigeonHole
<1> QED BY <1>4 DEF Different

Crosses(n, r, s, c) == \E m \in 1..c : \E p \in 1..n : p >= c /\ r[m] = s[p]

(* Of the first c members of one such list one is not among the first      *)
(* c - 1 of another.                                                       *)
LEMMA ListsCross ==
    ASSUME NEW S, IsFiniteSet(S), NEW n \in Nat, n = Cardinality(S),
           NEW r \in Lists(n, S), NEW s \in Lists(n, S), NEW c \in 1..n
    PROVE  Crosses(n, r, s, c)
<1>0. /\ r \in [1..n -> S] /\ Different(n, r) /\ s \in [1..n -> S] /\ Different(n, s)
  BY DEF Lists
<1> SUFFICES \E m \in 1..c : \E p \in 1..n : p >= c /\ r[m] = s[p]
  BY DEF Crosses
<1>1. ASSUME NEW m \in 1..c PROVE \E p \in 1..n : s[p] = r[m]
  <2>1. ASSUME NEW u \in [1..n -> S], Different(n, u), NEW k \in S PROVE \E p \in 1..n : u[p] = k
    BY <2>1, ListsAll
  <2>2. r[m] \in S
    BY <1>0
  <2> QED BY <1>0, <2>1, <2>2
<1> SUFFICES ASSUME \A m \in 1..c : \A p \in 1..n : p >= c => r[m] # s[p] PROVE FALSE
  OBVIOUS
<1>2. PICK f : f = [m \in 1..c |-> CHOOSE p \in 1..n : s[p] = r[m]]
  OBVIOUS
<1>3. \A m \in 1..c : f[m] \in 1..n /\ s[f[m]] = r[m]
  BY <1>1, <1>2
<1>4. PICK d \in Nat : d = c - 1 /\ c \in Nat /\ d < c
  OBVIOUS
<1>5. \A m \in 1..c : f[m] \in 1..d
  BY <1>3, <1>4
<1>6. f \in [1..c -> 1..d]
  BY <1>2, <1>5
<1>7. PICK x \in 1..c, y \in 1..c : x # y /\ f[x] = f[y]
  <2>1. c \in Nat /\ d \in Nat /\ d < c
    BY <1>4
  <2>2. ASSUME NEW g \in [1..c -> 1..d] PROVE \E x, y \in 1..c : x # y /\ g[x] = g[y]
    BY <2>1, Collision, SMTT(60)
  <2> QED BY <1>6, <2>2
<1>8. r[x] = r[y] /\ x \in 1..n /\ y \in 1..n
  BY <1>3, <1>7
<1> QED BY <1>0, <1>7, <1>8 DEF Different

----------------------------------------------------------------------------
(* The inductive invariant                                                 *)

Details == [id: Submissions \cup {None}, runs: SUBSET Nat, bestScore: Nat, bestP99: Nat]
RequestType == [pc: {"none", "sent", "answered", "failed"}, at: Nat, answer: Seq(Nat),
                id: Submissions \cup {None}, detail: Details, wanted: BOOLEAN]

TypeInv ==
    /\ client \in Clients /\ active \in BOOLEAN
    /\ rows \in Seq(Runs) /\ Len(rows) <= MaxRows
    /\ request \in [Requests -> RequestType]
    /\ shown \in [at: Nat, answer: Seq(Nat)]
    /\ selected \in Submissions \cup {None}
    /\ DOMAIN rankChanges \subseteq Submissions

(* The rows of a table t that were the newest of their submission when it  *)
(* had length at.                                                          *)
Newest(t, at) == {k \in 1..at : \A j \in (k + 1)..at : t[j].id # t[k].id}

(* A list whose rows were the newest, one of each submission, none above   *)
(* one that is better in every figure.                                     *)
Sound(t, at, list) ==
    /\ at \in 0..Len(t)
    /\ \A i \in 1..Len(list) : list[i] \in Newest(t, at)
    /\ \A i, j \in 1..Len(list) : i < j =>
          t[list[i]].id # t[list[j]].id /\ ~DominatesRun(t[list[j]], t[list[i]])

(* All the newest rows in an order in which none beats one before it.      *)
Ordering(t, at, n, r) ==
    /\ n = Cardinality(Newest(t, at))
    /\ r \in [1..n -> Newest(t, at)]
    /\ Different(n, r)
    /\ \A i, j \in 1..n : i < j => ~BeatsRun(t[r[j]], t[r[i]])

(* The list is the upper part of such an order. *)
Ranked(t, at, list) ==
    \E n \in Nat : \E r \in [1..n -> Nat] :
        /\ Ordering(t, at, n, r)
        /\ Len(list) = AtMost(MaxShown, n)
        /\ \A i \in 1..Len(list) : list[i] = r[i]

(* Whatever is shown or on its way is sound; for the hook, ranked.         *)
ListInv ==
    /\ Sound(rows, shown.at, shown.answer)
    /\ \A q \in Requests : Sound(rows, request[q].at, request[q].answer)
    /\ client = "hook" =>
          /\ Ranked(rows, shown.at, shown.answer)
          /\ \A q \in Requests : Ranked(rows, request[q].at, request[q].answer)

(* The runs of one submission and their best figures. *)
DetailFor(t, s, d) ==
    /\ d.id = s /\ d.runs # {}
    /\ \A k \in d.runs : /\ k \in 1..Len(t) /\ t[k].id = s /\ CalculateScore(t[k]) <= d.bestScore
                         /\ t[k].p99 > 0 => d.bestP99 \in 1..t[k].p99

(* The drawer shows, and waits for, the runs of the submission selected.   *)
DrawerInv ==
    /\ selected = None => detail = NoDetail
    /\ detail # NoDetail => DetailFor(rows, selected, detail)
    /\ client = "drawer" => \A q \in Requests : request[q].wanted =>
          /\ selected \in Submissions /\ request[q].id = selected
          /\ \E k \in 1..Len(rows) : rows[k].id = selected
          /\ request[q].pc = "answered" => DetailFor(rows, selected, request[q].detail)

(* The legacy page has one request, and its answer is no older than the    *)
(* table shown.                                                            *)
LegacyInv ==
    client = "legacy" =>
        /\ \A p, q \in Requests : request[p].pc # "none" /\ request[q].pc # "none" => p = q
        /\ \A q \in Requests : request[q].pc = "answered" => request[q].at >= shown.at

Inv == TypeInv /\ ListInv /\ DrawerInv /\ LegacyInv

----------------------------------------------------------------------------
(* The lists the handlers answer with                                      *)

(* The rows of the table are runs. *)
LEMMA RowFacts ==
    ASSUME NEW t \in Seq(Runs), NEW k \in 1..Len(t)
    PROVE  t[k] \in Figures /\ t[k].id \in Submissions
<1>1. t[k] \in Runs
  OBVIOUS
<1> QED BY <1>1, LeaderboardAssumption DEF Figures

(* The newest rows are finitely many, and of different submissions. *)
LEMMA NewestFacts ==
    ASSUME NEW t \in Seq(Runs), NEW at \in 0..Len(t)
    PROVE  /\ Newest(t, at) \subseteq 1..at /\ Newest(t, at) \subseteq 1..Len(t)
           /\ Newest(t, at) \subseteq Nat
           /\ IsFiniteSet(Newest(t, at)) /\ Cardinality(Newest(t, at)) \in Nat
           /\ \A j, k \in Newest(t, at) : t[j].id = t[k].id => j = k
<1>1. Newest(t, at) \subseteq 1..at /\ Newest(t, at) \subseteq 1..Len(t) /\ Newest(t, at) \subseteq Nat
  BY DEF Newest
<1>2. IsFiniteSet(1..at)
  BY UpTo
<1>3. IsFiniteSet(Newest(t, at))
  BY <1>1, <1>2, FS_Subset
<1>4. \A j, k \in Newest(t, at) : t[j].id = t[k].id => j = k
  <2>1. ASSUME NEW j \in Newest(t, at), NEW k \in Newest(t, at), j < k PROVE t[j].id # t[k].id
    BY <2>1 DEF Newest
  <2> QED BY <1>1, <2>1
<1> QED BY <1>1, <1>3, <1>4, FS_CardinalityType

(* Beats compares the runs of two rows. *)
LEMMA BeatsIs ==
    ASSUME NEW j, NEW k
    PROVE  Beats(j, k) <=> BeatsRun(rows[j], rows[k])
BY DEF Beats, BeatsRun, Score

(* bestRuns keeps what the query returns: one row of each submission. *)
LEMMA BestRunsAll ==
    ASSUME TypeInv, NEW scanned \in SUBSET LatestRows
    PROVE  BestRuns(scanned) = scanned /\ LatestRows = Newest(rows, Len(rows))
<1>1. LatestRows = Newest(rows, Len(rows))
  BY DEF LatestRows, Newest
<1>2. rows \in Seq(Runs) /\ Len(rows) \in 0..Len(rows)
  BY DEF TypeInv
<1>3. ASSUME NEW j \in scanned, NEW k \in scanned, rows[j].id = rows[k].id PROVE ~Beats(j, k)
  <2>1. j = k /\ rows[k] \in Figures
    BY <1>1, <1>2, <1>3, NewestFacts, RowFacts
  <2>2. ~BeatsRun(rows[k], rows[k])
    BY <2>1, BeatsOrder
  <2> QED BY <2>1, <2>2, BeatsIs
<1> QED BY <1>1, <1>3 DEF BestRuns

(* What a handler answers: a sound list of what it scanned, and the        *)
(* ranking of all newest rows if it scanned them all.                      *)
LEMMA RankingFacts ==
    ASSUME TypeInv, NEW scanned \in SUBSET LatestRows, NEW a \in Rankings(scanned)
    PROVE  /\ a \in Seq(Nat)
           /\ Sound(rows, Len(rows), a)
           /\ scanned = LatestRows => Ranked(rows, Len(rows), a)
<1>a. /\ rows \in Seq(Runs) /\ Len(rows) \in Nat /\ Len(rows) \in 0..Len(rows)
      /\ MaxShown \in Nat
  BY LeaderboardAssumption DEF TypeInv
<1>b. PICK new : new = Newest(rows, Len(rows))
  OBVIOUS
<1>c. BestRuns(scanned) = scanned /\ scanned \subseteq new /\ LatestRows = new
  BY <1>b, BestRunsAll
<1>d. /\ new \subseteq 1..Len(rows) /\ new \subseteq Nat /\ IsFiniteSet(new)
      /\ \A j, k \in new : rows[j].id = rows[k].id => j = k
  BY <1>a, <1>b, NewestFacts
<1>e. PICK n \in Nat : n = Cardinality(scanned)
  <2>1. IsFiniteSet(scanned)
    BY <1>c, <1>d, FS_Subset
  <2> QED BY <2>1, FS_CardinalityType
<1>f. PICK r \in [1..n -> scanned] :
        /\ \A j \in 1..n : \A i \in 1..(j - 1) : r[i] # r[j] /\ ~Beats(r[j], r[i])
        /\ a = [i \in 1..AtMost(MaxShown, n) |-> r[i]]
  BY <1>c, <1>e DEF Rankings
<1>g. /\ AtMost(MaxShown, n) \in Nat /\ AtMost(MaxShown, n) <= n
  BY <1>a DEF AtMost
<1>h. \A i \in 1..n : r[i] \in new /\ r[i] \in Nat /\ rows[r[i]] \in Figures
  BY <1>a, <1>c, <1>d, RowFacts
<1>1. a \in Seq(Nat) /\ Len(a) = AtMost(MaxShown, n) /\ \A i \in 1..Len(a) : i \in 1..n /\ a[i] = r[i]
  <2>1. PICK l \in Nat : l = AtMost(MaxShown, n) /\ l <= n
    BY <1>g
  <2>2. a = [i \in 1..l |-> r[i]] /\ \A i \in 1..l : i \in 1..n /\ r[i] \in Nat
    BY <1>f, <1>h, <2>1
  <2>3. a \in [1..l -> Nat]
    BY <2>2
  <2>4. a \in Seq(Nat) /\ Len(a) = l
    BY <2>3
  <2> QED BY <2>1, <2>2, <2>4
<1>2. \A i, j \in 1..n : i < j => r[i] # r[j] /\ ~BeatsRun(rows[r[j]], rows[r[i]])
  <2>1. ASSUME NEW i \in 1..n, NEW j \in 1..n, i < j PROVE r[i] # r[j] /\ ~BeatsRun(rows[r[j]], rows[r[i]])
    <3>1. i \in 1..(j - 1)
      BY <2>1
    <3> QED BY <1>f, <3>1, BeatsIs
  <2> QED BY <2>1
<1>3. Sound(rows, Len(rows), a)
  <2>1. ASSUME NEW i \in 1..Len(a), NEW j \in 1..Len(a), i < j
        PROVE  rows[a[i]].id # rows[a[j]].id /\ ~DominatesRun(rows[a[j]], rows[a[i]])
    <3>1. PICK x \in new, y \in new : x = a[i] /\ y = a[j] /\ x # y /\ ~BeatsRun(rows[y], rows[x])
      BY <1>1, <1>2, <1>h, <2>1
    <3>2. rows[x] \in Figures /\ rows[y] \in Figures
      BY <1>a, <1>d, RowFacts
    <3>3. ~DominatesRun(rows[y], rows[x])
      BY <3>1, <3>2, DominatorBeats
    <3> QED BY <1>d, <3>1, <3>3
  <2>2. \A i \in 1..Len(a) : a[i] \in new
    BY <1>1, <1>h
  <2> QED BY <1>a, <1>b, <2>1, <2>2 DEF Sound
<1>4. ASSUME scanned = LatestRows PROVE Ranked(rows, Len(rows), a)
  <2>1. n = Cardinality(new) /\ r \in [1..n -> new] /\ r \in [1..n -> Nat]
    BY <1>c, <1>e, <1>h, <1>4
  <2>2. Different(n, r)
    BY <1>2 DEF Different
  <2>3. Ordering(rows, Len(rows), n, r)
    BY <1>2, <1>b, <2>1, <2>2 DEF Ordering
  <2> QED BY <1>1, <2>1, <2>3 DEF Ranked
<1> QED BY <1>1, <1>3, <1>4

(* A table that grows keeps the rows it had. *)
LEMMA NewestKept ==
    ASSUME NEW t \in Seq(Runs), NEW x \in Runs, NEW at \in 0..Len(t)
    PROVE  /\ Append(t, x) \in Seq(Runs) /\ Len(Append(t, x)) = Len(t) + 1
           /\ \A k \in 1..Len(t) : Append(t, x)[k] = t[k]
           /\ Newest(Append(t, x), at) = Newest(t, at)
<1>1. PICK u : u = Append(t, x)
  OBVIOUS
<1>2. u \in Seq(Runs) /\ Len(u) = Len(t) + 1 /\ \A k \in 1..Len(t) : u[k] = t[k]
  BY <1>1
<1>3. \A k \in 1..at : u[k] = t[k] /\ \A j \in (k + 1)..at : u[j] = t[j]
  BY <1>2
<1>4. Newest(u, at) = Newest(t, at)
  BY <1>3 DEF Newest
<1> QED BY <1>1, <1>2, <1>4

(* So a list that was sound, or ranked, stays so. *)
LEMMA ListKept ==
    ASSUME NEW t \in Seq(Runs), NEW x \in Runs, NEW at, NEW list, Sound(t, at, list)
    PROVE  /\ Sound(Append(t, x), at, list)
           /\ Ranked(t, at, list) => Ranked(Append(t, x), at, list)
<1>1. at \in 0..Len(t) /\ Len(t) \in Nat
  BY DEF Sound
<1>2. PICK u : u = Append(t, x)
  OBVIOUS
<1>3. /\ Len(u) = Len(t) + 1 /\ \A k \in 1..Len(t) : u[k] = t[k]
      /\ Newest(u, at) = Newest(t, at)
  BY <1>1, <1>2, NewestKept
<1>4. \A k \in Newest(t, at) : u[k] = t[k]
  BY <1>1, <1>3, NewestFacts
<1>5. Sound(u, at, list)
  BY <1>1, <1>3, <1>4 DEF Sound
<1>6. ASSUME NEW n \in Nat, NEW r \in [1..n -> Nat], Ordering(t, at, n, r)
      PROVE  Ordering(u, at, n, r)
  <2>1. \A i \in 1..n : r[i] \in Newest(t, at)
    BY <1>6 DEF Ordering
  <2>2. \A i \in 1..n : u[r[i]] = t[r[i]]
    BY <1>4, <2>1
  <2> QED BY <1>3, <1>6, <2>2 DEF Ordering
<1>7. ASSUME Ranked(t, at, list) PROVE Ranked(u, at, list)
  BY <1>6, <1>7 DEF Ranked
<1> QED BY <1>2, <1>5, <1>7

(* Nothing is a sound list of nothing. *)
LEMMA EmptyList ==
    ASSUME NEW t \in Seq(Runs)
    PROVE  Sound(t, 0, <<>>) /\ Ranked(t, 0, <<>>)
<1>1. Newest(t, 0) = {}
  BY DEF Newest
<1>2. Sound(t, 0, <<>>)
  BY DEF Sound
<1>3. Cardinality({}) = 0
  BY FS_EmptySet
<1>4. PICK r : r = [i \in 1..0 |-> 0]
  OBVIOUS
<1>5. r \in [1..0 -> Nat] /\ r \in [1..0 -> {}] /\ Different(0, r)
  BY <1>4 DEF Different
<1>6. Ordering(t, 0, 0, r)
  BY <1>1, <1>3, <1>5 DEF Ordering
<1>7. AtMost(MaxShown, 0) = 0
  BY LeaderboardAssumption DEF AtMost
<1> QED BY <1>2, <1>5, <1>6, <1>7 DEF Ranked

(* The detail of a submission bounds its runs. *)
LEMMA DetailFacts ==
    ASSUME TypeInv, NEW s \in Submissions \cup {None}
    PROVE  /\ DetailOf(s) \in Details
           /\ (\E k \in 1..Len(rows) : rows[k].id = s) => DetailFor(rows, s, DetailOf(s))
<1>a. rows \in Seq(Runs) /\ Len(rows) \in Nat
  BY DEF TypeInv
<1>b. \A k \in 1..Len(rows) : CalculateScore(rows[k]) \in Nat /\ rows[k].p99 \in Nat
  BY <1>a, RowFacts, ScoreType DEF Figures
<1>c. PICK runs : runs = {k \in 1..Len(rows) : rows[k].id = s}
  OBVIOUS
<1>d. PICK scores : scores = {0} \cup {Score(k) : k \in runs}
  OBVIOUS
<1>e. PICK measured : measured = {rows[k].p99 : k \in runs} \ {0}
  OBVIOUS
<1>1. Max(scores) \in Nat /\ \A k \in runs : CalculateScore(rows[k]) <= Max(scores)
  <2>1. PICK f : f = [k \in 1..Len(rows) |-> CalculateScore(rows[k])]
    OBVIOUS
  <2>2. f \in [1..Len(rows) -> Nat]
    BY <1>b, <2>1
  <2>3. PICK b \in Nat : \A k \in 1..Len(rows) : f[k] <= b
    BY <1>a, <2>2, FiniteBound
  <2>4. scores \in SUBSET Nat /\ scores # {}
    BY <1>b, <1>c, <1>d DEF Score
  <2>5. \A x \in scores : x <= b
    BY <1>c, <1>d, <2>1, <2>3 DEF Score
  <2>6. \E x \in scores : \A y \in scores : x >= y
    BY <2>4, <2>5, GreatestNat
  <2>7. Max(scores) \in scores /\ \A y \in scores : Max(scores) >= y
    BY <2>6 DEF Max
  <2>8. \A k \in runs : CalculateScore(rows[k]) \in scores
    BY <1>d DEF Score
  <2> QED BY <1>b, <1>c, <2>4, <2>7, <2>8
<1>2. measured # {} => Min(measured) \in measured /\ \A y \in measured : Min(measured) <= y
  <2>1. measured \in SUBSET Nat
    BY <1>b, <1>c, <1>e
  <2>2. SUFFICES ASSUME measured # {} PROVE \E x \in measured : \A y \in measured : x <= y
    BY DEF Min
  <2> QED BY <2>1, <2>2, LeastNat
<1>3. PICK best : best = IF measured = {} THEN 0 ELSE Min(measured)
  OBVIOUS
<1>4. best \in Nat /\ \A k \in runs : rows[k].p99 > 0 => best \in 1..rows[k].p99
  <2>1. \A y \in measured : y \in Nat \ {0}
    BY <1>b, <1>c, <1>e
  <2>2. \A k \in runs : rows[k].p99 > 0 => rows[k].p99 \in measured /\ rows[k].p99 \in Nat
    BY <1>b, <1>c, <1>e
  <2>3. CASE measured = {}
    BY <1>3, <2>2, <2>3
  <2>4. CASE measured # {}
    <3>1. best \in Nat \ {0} /\ \A y \in measured : best <= y
      BY <1>2, <1>3, <2>1, <2>4
    <3> QED BY <2>2, <3>1
  <2> QED BY <2>3, <2>4
<1>5. DetailOf(s) = [id |-> s, runs |-> runs, bestScore |-> Max(scores), bestP99 |-> best]
  BY <1>c, <1>d, <1>e, <1>3 DEF DetailOf
<1>6. runs \in SUBSET Nat
  BY <1>c
<1>7. DetailOf(s) \in Details
  BY <1>1, <1>4, <1>5, <1>6 DEF Details
<1>8. ASSUME \E k \in 1..Len(rows) : rows[k].id = s PROVE DetailFor(rows, s, DetailOf(s))
  <2>1. runs # {}
    BY <1>8, <1>c
  <2>2. \A k \in runs : k \in 1..Len(rows) /\ rows[k].id = s
    BY <1>c
  <2> QED BY <1>1, <1>4, <1>5, <2>1, <2>2 DEF DetailFor
<1> QED BY <1>7, <1>8

(* A table that grows keeps the runs of the submission. *)
LEMMA DetailKept ==
    ASSUME NEW t \in Seq(Runs), NEW x \in Runs, NEW s, NEW d, DetailFor(t, s, d)
    PROVE  DetailFor(Append(t, x), s, d)
<1>1. PICK u : u = Append(t, x)
  OBVIOUS
<1>2. \A k \in 1..Len(t) : u[k] = t[k] /\ k \in 1..Len(u)
  BY <1>1
<1>3. DetailFor(u, s, d)
  BY <1>2 DEF DetailFor
<1> QED BY <1>1, <1>3

----------------------------------------------------------------------------
(* One step of each action                                                 *)

(* The requests that are made. *)
LEMMA NewRequests ==
    ASSUME NEW s \in Submissions \cup {None}
    PROVE  /\ NoRequest \in RequestType /\ Sent(s) \in RequestType
           /\ NoRequest.pc = "none" /\ NoRequest.at = 0 /\ NoRequest.answer = <<>> /\ NoRequest.wanted = FALSE
           /\ Sent(s).pc = "sent" /\ Sent(s).at = 0 /\ Sent(s).answer = <<>>
           /\ Sent(s).wanted = TRUE /\ Sent(s).id = s
<1>1. NoDetail \in Details
  BY DEF NoDetail, Details
<1>2. NoRequest \in RequestType
  BY <1>1 DEF NoRequest, RequestType
<1>3. /\ NoRequest.pc = "none" /\ NoRequest.at = 0 /\ NoRequest.answer = <<>> /\ NoRequest.wanted = FALSE
  BY DEF NoRequest
<1>4. PICK r \in RequestType : r = NoRequest
  BY <1>2
<1>5. Sent(s) = [r EXCEPT !.pc = "sent", !.id = s, !.wanted = TRUE]
  BY <1>4 DEF Sent
<1>6. /\ Sent(s) \in RequestType
      /\ Sent(s).pc = "sent" /\ Sent(s).at = r.at /\ Sent(s).answer = r.answer
      /\ Sent(s).wanted = TRUE /\ Sent(s).id = s
  BY <1>5 DEF RequestType
<1> QED BY <1>2, <1>3, <1>4, <1>6

(* A step that only makes requests, loses them or puts them back keeps all *)
(* that is said of lists and details.                                      *)
LEMMA QuietStep ==
    ASSUME Inv, UNCHANGED <<client, rows, shown, selected, detail>>,
           active' \in BOOLEAN, DOMAIN rankChanges' \subseteq Submissions,
           request' \in [Requests -> RequestType],
           \A p \in Requests :
              \/ request'[p] = request[p]
              \/ request'[p] = NoRequest
              \/ /\ request'[p].pc = "failed" /\ request[p].pc = "sent"
                 /\ request'[p].at = request[p].at /\ request'[p].answer = request[p].answer
                 /\ request'[p].id = request[p].id /\ request'[p].wanted = request[p].wanted
              \/ /\ client # "drawer" /\ request'[p] = Sent(None)
                 /\ client = "legacy" => \A q \in Requests \ {p} : request'[q] = NoRequest
    PROVE  Inv'
<1>a. TypeInv /\ ListInv /\ DrawerInv /\ LegacyInv
  BY DEF Inv
<1>b. rows \in Seq(Runs)
  BY <1>a DEF TypeInv
<1>c. /\ NoRequest.pc = "none" /\ NoRequest.at = 0 /\ NoRequest.answer = <<>> /\ NoRequest.wanted = FALSE
      /\ Sent(None).pc = "sent" /\ Sent(None).at = 0 /\ Sent(None).answer = <<>>
  BY NewRequests
<1>d. Sound(rows, 0, <<>>) /\ Ranked(rows, 0, <<>>)
  BY <1>b, EmptyList
<1>1. TypeInv'
  BY <1>a DEF TypeInv
<1>2. ListInv'
  <2>1. ASSUME NEW p \in Requests
        PROVE  \/ request'[p].at = request[p].at /\ request'[p].answer = request[p].answer
               \/ request'[p].at = 0 /\ request'[p].answer = <<>>
    BY <1>c
  <2>2. ASSUME NEW p \in Requests PROVE Sound(rows, request'[p].at, request'[p].answer)
    BY <1>a, <1>d, <2>1 DEF ListInv
  <2>3. ASSUME client = "hook", NEW p \in Requests PROVE Ranked(rows, request'[p].at, request'[p].answer)
    BY <1>a, <1>d, <2>1, <2>3 DEF ListInv
  <2>4. Sound(rows, shown.at, shown.answer) /\ (client = "hook" => Ranked(rows, shown.at, shown.answer))
    BY <1>a DEF ListInv
  <2> QED BY <2>2, <2>3, <2>4 DEF ListInv
<1>3. DrawerInv'
  <2>1. ASSUME client = "drawer", NEW q \in Requests, request'[q].wanted
        PROVE  /\ selected \in Submissions /\ request'[q].id = selected
               /\ \E k \in 1..Len(rows) : rows[k].id = selected
               /\ request'[q].pc = "answered" => DetailFor(rows, selected, request'[q].detail)
    <3>1. request[q].wanted /\ request'[q].id = request[q].id
      BY <1>c, <2>1
    <3>2. request'[q].pc = "answered" => request'[q] = request[q]
      BY <1>c, <2>1
    <3> QED BY <1>a, <2>1, <3>1, <3>2 DEF DrawerInv
  <2> QED BY <1>a, <2>1 DEF DrawerInv
<1>4. LegacyInv'
  <2>1. SUFFICES ASSUME client = "legacy" PROVE LegacyInv'
    BY DEF LegacyInv
  <2>2. ASSUME NEW p \in Requests, NEW q \in Requests, request'[p].pc # "none", request'[q].pc # "none"
        PROVE  p = q
    <3>1. CASE \E o \in {p, q} : \A l \in Requests \ {o} : request'[l] = NoRequest
      BY <1>c, <2>2, <3>1
    <3>2. CASE ~\E o \in {p, q} : \A l \in Requests \ {o} : request'[l] = NoRequest
      <4>1. request[p].pc # "none" /\ request[q].pc # "none"
        BY <1>c, <2>1, <2>2, <3>2
      <4> QED BY <1>a, <2>1, <4>1 DEF LegacyInv
    <3> QED BY <3>1, <3>2
  <2>3. ASSUME NEW q \in Requests, request'[q].pc = "answered" PROVE request'[q].at >= shown.at
    <3>1. request'[q] = request[q]
      BY <1>c, <2>3
    <3> QED BY <1>a, <2>1, <2>3, <3>1 DEF LegacyInv
  <2> QED BY <2>2, <2>3 DEF LegacyInv
<1> QED BY <1>1, <1>2, <1>3, <1>4 DEF Inv

(* A request that comes to nothing, and every step that only sends,        *)
(* drops or forgets requests.                                              *)
LEMMA QuietSteps ==
    ASSUME Inv, \/ \E q \in Requests : \/ RequestFails(q) \/ Poll(q) \/ ReceiveNothing(q) \/ Mount(q)
                                       \/ TimeoutLegacy(q) \/ PollLegacy(q) \/ StartPolling(q)
                \/ ClearFlash \/ StopPolling \/ UNCHANGED vars
    PROVE  Inv'
<1>a. /\ active \in BOOLEAN /\ request \in [Requests -> RequestType]
      /\ DOMAIN rankChanges \subseteq Submissions
  BY DEF Inv, TypeInv
<1>b. NoRequest \in RequestType /\ Sent(None) \in RequestType
  BY NewRequests
<1>1. ASSUME NEW q \in Requests, RequestFails(q) PROVE Inv'
  <2>1. PICK x : x = [request[q] EXCEPT !.pc = "failed"]
    OBVIOUS
  <2>2. /\ x \in RequestType /\ x.pc = "failed" /\ x.at = request[q].at /\ x.answer = request[q].answer
        /\ x.id = request[q].id /\ x.wanted = request[q].wanted
    BY <1>a, <2>1 DEF RequestType
  <2>3. request' = [request EXCEPT ![q] = x] /\ request[q].pc = "sent"
    BY <1>1, <2>1 DEF RequestFails
  <2>4. request' \in [Requests -> RequestType] /\ request'[q] = x /\ \A p \in Requests \ {q} : request'[p] = request[p]
    BY <1>a, <2>2, <2>3
  <2>5. UNCHANGED <<client, rows, active, shown, rankChanges, selected, detail>>
    BY <1>1 DEF RequestFails, drawerVars
  <2> QED BY <1>a, <2>2, <2>3, <2>4, <2>5, QuietStep
<1>2. ASSUME NEW q \in Requests, Poll(q) \/ Mount(q) PROVE Inv'
  <2>1. /\ client = "hook" /\ request' = [request EXCEPT ![q] = Sent(None)] /\ active' \in BOOLEAN
        /\ UNCHANGED <<client, rows, shown, rankChanges, selected, detail>>
    BY <1>a, <1>2 DEF Poll, Mount, drawerVars
  <2>2. /\ request' \in [Requests -> RequestType] /\ request'[q] = Sent(None)
        /\ \A p \in Requests \ {q} : request'[p] = request[p]
    BY <1>a, <1>b, <2>1
  <2> QED BY <1>a, <2>1, <2>2, QuietStep
<1>3. ASSUME NEW q \in Requests, ReceiveNothing(q) \/ TimeoutLegacy(q) PROVE Inv'
  <2>1. /\ request' = [request EXCEPT ![q] = NoRequest]
        /\ UNCHANGED <<client, rows, active, shown, rankChanges, selected, detail>>
    BY <1>3 DEF ReceiveNothing, TimeoutLegacy, Done, drawerVars
  <2>2. /\ request' \in [Requests -> RequestType]
        /\ \A p \in Requests : request'[p] \in {request[p], NoRequest}
    BY <1>a, <1>b, <2>1
  <2> QED BY <1>a, <2>1, <2>2, QuietStep
<1>4. ASSUME NEW q \in Requests, PollLegacy(q) \/ StartPolling(q) PROVE Inv'
  <2>1. /\ client = "legacy" /\ active' \in BOOLEAN
        /\ request' = [p \in Requests |-> IF p = q THEN Sent(None) ELSE NoRequest]
        /\ UNCHANGED <<client, rows, shown, rankChanges, selected, detail>>
    BY <1>a, <1>4 DEF PollLegacy, StartPolling, Fetch, drawerVars
  <2>2. /\ request' \in [Requests -> RequestType] /\ request'[q] = Sent(None)
        /\ \A p \in Requests \ {q} : request'[p] = NoRequest
    BY <1>b, <2>1
  <2> QED BY <1>a, <2>1, <2>2, QuietStep
<1>5. ASSUME ClearFlash \/ StopPolling \/ UNCHANGED vars PROVE Inv'
  <2>1. /\ active' \in BOOLEAN /\ DOMAIN rankChanges' \subseteq Submissions
        /\ UNCHANGED <<client, rows, request, shown, selected, detail>>
    <3>1. DOMAIN NoFlash = {}
      BY DEF NoFlash
    <3> QED BY <1>a, <1>5, <3>1 DEF ClearFlash, StopPolling, vars, drawerVars
  <2> QED BY <1>a, <2>1, QuietStep
<1> QED BY <1>1, <1>2, <1>3, <1>4, <1>5

(* A row is added; everything on its way or on a screen is as it was. *)
LEMMA InsertStep == ASSUME Inv, NEW x \in Runs, Insert(x) PROVE Inv'
<1>a. TypeInv /\ ListInv /\ DrawerInv /\ LegacyInv
  BY DEF Inv
<1>b. /\ rows' = Append(rows, x) /\ Len(rows) < MaxRows
      /\ UNCHANGED <<client, request, active, shown, rankChanges, selected, detail>>
  BY DEF Insert, drawerVars
<1>c. rows \in Seq(Runs) /\ Len(rows) \in Nat
  BY <1>a DEF TypeInv
<1>d. rows' \in Seq(Runs) /\ Len(rows') = Len(rows) + 1 /\ \A k \in 1..Len(rows) : rows'[k] = rows[k]
  BY <1>b, <1>c
<1>1. TypeInv'
  BY <1>a, <1>b, <1>c, <1>d, LeaderboardAssumption DEF TypeInv
<1>2. ListInv'
  <2>1. \A at, list : Sound(rows, at, list) => Sound(rows', at, list)
    BY <1>b, <1>c, ListKept
  <2>2. \A at, list : Sound(rows, at, list) /\ Ranked(rows, at, list) => Ranked(rows', at, list)
    BY <1>b, <1>c, ListKept
  <2> QED BY <1>a, <1>b, <2>1, <2>2 DEF ListInv
<1>3. DrawerInv'
  <2>1. \A s, d : DetailFor(rows, s, d) => DetailFor(rows', s, d)
    BY <1>b, <1>c, DetailKept
  <2>2. \A s : (\E k \in 1..Len(rows) : rows[k].id = s) => \E k \in 1..Len(rows') : rows'[k].id = s
    BY <1>c, <1>d
  <2> QED BY <1>a, <1>b, <2>1, <2>2 DEF DrawerInv
<1>4. LegacyInv'
  BY <1>a, <1>b DEF LegacyInv
<1> QED BY <1>1, <1>2, <1>3, <1>4 DEF Inv

(* An answer is sound, and as new as the table. *)
LEMMA AnswerStep ==
    ASSUME Inv, NEW q \in Requests, request[q].pc = "sent", NEW a \in Seq(Nat), NEW d \in Details,
           Sound(rows, Len(rows), a), client = "hook" => Ranked(rows, Len(rows), a),
           client = "drawer" /\ request[q].wanted => DetailFor(rows, selected, d),
           Answered(q, a, d), UNCHANGED <<client, rows, active, shown, rankChanges, drawerVars>>
    PROVE  Inv'
<1>a. TypeInv /\ ListInv /\ DrawerInv /\ LegacyInv
  BY DEF Inv
<1>b. request \in [Requests -> RequestType] /\ Len(rows) \in Nat
  BY <1>a DEF TypeInv
<1>c. UNCHANGED <<client, rows, active, shown, rankChanges, selected, detail>>
  BY DEF drawerVars
<1>1. PICK x : x = [request[q] EXCEPT !.pc = "answered", !.at = Len(rows), !.answer = a, !.detail = d]
  OBVIOUS
<1>2. /\ x \in RequestType /\ x.pc = "answered" /\ x.at = Len(rows) /\ x.answer = a /\ x.detail = d
      /\ x.id = request[q].id /\ x.wanted = request[q].wanted
  BY <1>b, <1>1 DEF RequestType
<1>3. request' = [request EXCEPT ![q] = x]
  BY <1>1 DEF Answered
<1>4. /\ request' \in [Requests -> RequestType] /\ request'[q] = x
      /\ \A p \in Requests \ {q} : request'[p] = request[p]
  BY <1>b, <1>2, <1>3
<1>5. TypeInv'
  BY <1>a, <1>c, <1>4 DEF TypeInv
<1>6. ListInv'
  <2>1. ASSUME NEW p \in Requests
        PROVE  /\ Sound(rows, request'[p].at, request'[p].answer)
               /\ client = "hook" => Ranked(rows, request'[p].at, request'[p].answer)
    <3>1. CASE p = q
      BY <1>2, <1>4, <3>1
    <3>2. CASE p # q
      BY <1>a, <1>4, <3>2 DEF ListInv
    <3> QED BY <3>1, <3>2
  <2> QED BY <1>a, <1>c, <2>1 DEF ListInv
<1>7. DrawerInv'
  <2>1. ASSUME client = "drawer", NEW p \in Requests, request'[p].wanted
        PROVE  /\ selected \in Submissions /\ request'[p].id = selected
               /\ \E k \in 1..Len(rows) : rows[k].id = selected
               /\ request'[p].pc = "answered" => DetailFor(rows, selected, request'[p].detail)
    <3>1. CASE p = q
      BY <1>a, <1>2, <1>4, <2>1, <3>1 DEF DrawerInv
    <3>2. CASE p # q
      BY <1>a, <1>4, <2>1, <3>2 DEF DrawerInv
    <3> QED BY <3>1, <3>2
  <2> QED BY <1>a, <1>c, <2>1 DEF DrawerInv
<1>8. LegacyInv'
  <2>1. shown.at \in 0..Len(rows)
    BY <1>a DEF ListInv, Sound
  <2>2. \A p \in Requests : request'[p].pc # "none" => request[p].pc # "none"
    BY <1>4
  <2>3. \A p \in Requests : request'[p].pc = "answered" =>
           (request[p].pc = "answered" /\ request'[p] = request[p]) \/ request'[p].at = Len(rows)
    BY <1>2, <1>4
  <2>4. shown.at <= Len(rows)
    BY <1>b, <2>1
  <2> QED BY <1>a, <1>c, <2>2, <2>3, <2>4 DEF LegacyInv
<1> QED BY <1>5, <1>6, <1>7, <1>8 DEF Inv

(* The handlers of the API. *)
LEMMA HandlerSteps ==
    ASSUME Inv, NEW q \in Requests, Handler(q) \/ HandleLegacyHalfway(q)
    PROVE  Inv'
<1>a. TypeInv /\ DrawerInv /\ request[q] \in RequestType
  BY DEF Inv, TypeInv
<1>b. NoDetail \in Details
  BY DEF NoDetail, Details
<1>1. CASE HandleScores(q)
  <2>1. PICK a \in Rankings(LatestRows) : Answered(q, a, NoDetail)
    BY <1>1 DEF HandleScores
  <2>2. a \in Seq(Nat) /\ Sound(rows, Len(rows), a) /\ Ranked(rows, Len(rows), a)
    BY <1>a, RankingFacts
  <2>3. /\ client = "hook" /\ request[q].pc = "sent"
        /\ UNCHANGED <<client, rows, active, shown, rankChanges, drawerVars>>
    BY <1>1 DEF HandleScores
  <2> QED BY <1>b, <2>1, <2>2, <2>3, AnswerStep
<1>2. CASE HandleLegacyLeaderboard(q) \/ HandleLegacyHalfway(q)
  <2>0. PICK scanned \in SUBSET LatestRows : \E a \in Rankings(scanned) : Answered(q, a, NoDetail)
    BY <1>2 DEF HandleLegacyLeaderboard, HandleLegacyHalfway
  <2>1. PICK a \in Rankings(scanned) : Answered(q, a, NoDetail)
    BY <2>0
  <2>2. a \in Seq(Nat) /\ Sound(rows, Len(rows), a)
    BY <1>a, RankingFacts
  <2>3. /\ client = "legacy" /\ request[q].pc = "sent"
        /\ UNCHANGED <<client, rows, active, shown, rankChanges, drawerVars>>
    BY <1>2 DEF HandleLegacyLeaderboard, HandleLegacyHalfway
  <2> QED BY <1>b, <2>1, <2>2, <2>3, AnswerStep
<1>3. CASE HandleSubmissionDetail(q)
  <2>1. /\ client = "drawer" /\ request[q].pc = "sent"
        /\ Answered(q, <<>>, DetailOf(request[q].id))
        /\ UNCHANGED <<client, rows, active, shown, rankChanges, drawerVars>>
    BY <1>3 DEF HandleSubmissionDetail
  <2>2. request[q].id \in Submissions \cup {None}
    BY <1>a DEF RequestType
  <2>3. DetailOf(request[q].id) \in Details
    BY <1>a, <2>2, DetailFacts
  <2>4. request[q].wanted => DetailFor(rows, selected, DetailOf(request[q].id))
    BY <1>a, <2>1, <2>2, DetailFacts DEF DrawerInv
  <2>5. Sound(rows, Len(rows), <<>>) /\ <<>> \in Seq(Nat)
    BY <1>a DEF Sound, TypeInv
  <2> QED BY <2>1, <2>3, <2>4, <2>5, AnswerStep
<1> QED BY <1>1, <1>2, <1>3 DEF Handler

(* Only submissions that exist flash. *)
LEMMA ChangesDomain ==
    ASSUME TypeInv, NEW old, NEW new, NEW at, Sound(rows, at, new)
    PROVE  DOMAIN Changes(old, new) \subseteq Submissions
<1>1. PICK moved \in SUBSET (1..Len(new)) :
        moved = {i \in 1..Len(new) : \E j \in RankIn(old, rows[new[i]].id) : j # i}
  OBVIOUS
<1>2. DOMAIN Changes(old, new) = {rows[new[i]].id : i \in moved}
  BY <1>1 DEF Changes
<1>3. rows \in Seq(Runs) /\ at \in 0..Len(rows)
  BY DEF TypeInv, Sound
<1>4. ASSUME NEW i \in moved PROVE rows[new[i]].id \in Submissions
  <2>1. new[i] \in Newest(rows, at)
    BY <1>1 DEF Sound
  <2>2. new[i] \in 1..Len(rows)
    BY <1>3, <2>1, NewestFacts
  <2> QED BY <1>3, <2>2, RowFacts
<1> QED BY <1>2, <1>4

(* An answer is taken: it is shown, or the drawer shows its detail, or a   *)
(* failure empties the legacy page.                                        *)
LEMMA TakenStep ==
    ASSUME Inv, NEW q \in Requests, Done(q), UNCHANGED <<client, rows, active, selected>>,
           DOMAIN rankChanges' \subseteq Submissions,
           \/ shown' = shown
           \/ request[q].pc = "answered" /\ shown' = [at |-> request[q].at, answer |-> request[q].answer]
           \/ client = "legacy" /\ shown' = [shown EXCEPT !.answer = <<>>],
           \/ detail' = detail
           \/ /\ client = "drawer" /\ request[q].wanted /\ request[q].pc = "answered"
              /\ detail' = request[q].detail
    PROVE  Inv'
<1>a. TypeInv /\ ListInv /\ DrawerInv /\ LegacyInv
  BY DEF Inv
<1>b. /\ request \in [Requests -> RequestType] /\ rows \in Seq(Runs) /\ Len(rows) \in Nat
      /\ shown \in [at: Nat, answer: Seq(Nat)]
  BY <1>a DEF TypeInv
<1>c. /\ NoRequest \in RequestType /\ NoRequest.pc = "none" /\ NoRequest.at = 0
      /\ NoRequest.answer = <<>> /\ NoRequest.wanted = FALSE
  BY NewRequests
<1>d. Sound(rows, 0, <<>>) /\ Ranked(rows, 0, <<>>)
  BY <1>b, EmptyList
<1>e. request[q] \in RequestType
  BY <1>b
<1>1. /\ request' \in [Requests -> RequestType] /\ request'[q] = NoRequest
      /\ \A p \in Requests \ {q} : request'[p] = request[p]
  BY <1>b, <1>c DEF Done
<1>2. /\ shown' \in [at: Nat, answer: Seq(Nat)]
      /\ \/ shown'.at = shown.at /\ shown'.answer = shown.answer
         \/ /\ request[q].pc = "answered"
            /\ shown'.at = request[q].at /\ shown'.answer = request[q].answer
         \/ client = "legacy" /\ shown'.at = shown.at /\ shown'.answer = <<>>
  <2>1. CASE shown' = shown
    BY <1>b, <2>1
  <2>2. CASE request[q].pc = "answered" /\ shown' = [at |-> request[q].at, answer |-> request[q].answer]
    BY <1>e, <2>2 DEF RequestType
  <2>3. CASE client = "legacy" /\ shown' = [shown EXCEPT !.answer = <<>>]
    <3>1. PICK x : x = [shown EXCEPT !.answer = <<>>]
      OBVIOUS
    <3>2. <<>> \in Seq(Nat)
      OBVIOUS
    <3>3. x \in [at: Nat, answer: Seq(Nat)] /\ x.at = shown.at /\ x.answer = <<>>
      BY <1>b, <3>1, <3>2
    <3>4. shown' = x
      BY <2>3, <3>1
    <3> QED BY <2>3, <3>3, <3>4
  <2> QED BY <2>1, <2>2, <2>3
<1>3. TypeInv'
  BY <1>a, <1>1, <1>2 DEF TypeInv
<1>4. ListInv'
  <2>1. ASSUME NEW p \in Requests
        PROVE  /\ Sound(rows, request'[p].at, request'[p].answer)
               /\ client = "hook" => Ranked(rows, request'[p].at, request'[p].answer)
    <3>1. CASE p = q
      BY <1>c, <1>d, <1>1, <3>1
    <3>2. CASE p # q
      BY <1>a, <1>1, <3>2 DEF ListInv
    <3> QED BY <3>1, <3>2
  <2>2. Sound(rows, shown'.at, shown'.answer)
    <3>1. Sound(rows, shown.at, shown.answer) /\ Sound(rows, request[q].at, request[q].answer)
      BY <1>a DEF ListInv
    <3>2. Sound(rows, shown.at, <<>>)
      BY <3>1 DEF Sound
    <3> QED BY <1>2, <3>1, <3>2
  <2>3. client = "hook" => Ranked(rows, shown'.at, shown'.answer)
    BY <1>a, <1>2 DEF ListInv
  <2> QED BY <2>1, <2>2, <2>3 DEF ListInv
<1>5. DrawerInv'
  <2>1. ASSUME client = "drawer", NEW p \in Requests, request'[p].wanted
        PROVE  /\ selected \in Submissions /\ request'[p].id = selected
               /\ \E k \in 1..Len(rows) : rows[k].id = selected
               /\ request'[p].pc = "answered" => DetailFor(rows, selected, request'[p].detail)
    <3>1. p # q /\ request'[p] = request[p]
      BY <1>c, <1>1, <2>1
    <3> QED BY <1>a, <2>1, <3>1 DEF DrawerInv
  <2>2. selected = None => detail' = NoDetail
    BY <1>a, NoneAssumption DEF DrawerInv
  <2>3. detail' # NoDetail => DetailFor(rows, selected, detail')
    BY <1>a DEF DrawerInv
  <2> QED BY <2>1, <2>2, <2>3 DEF DrawerInv
<1>6. LegacyInv'
  <2>1. SUFFICES ASSUME client = "legacy" PROVE LegacyInv'
    BY DEF LegacyInv
  <2>2. \A p \in Requests : request'[p].pc # "none" => p # q /\ request'[p] = request[p]
    BY <1>c, <1>1
  <2>3. ASSUME NEW p \in Requests, request'[p].pc = "answered" PROVE request'[p].at >= shown'.at
    <3>1. p # q /\ request'[p] = request[p] /\ request[p].pc = "answered"
      BY <2>2, <2>3
    <3>2. request[q].pc # "answered"
      BY <1>a, <2>1, <3>1 DEF LegacyInv
    <3>3. shown'.at = shown.at
      BY <1>2, <3>2
    <3> QED BY <1>a, <2>1, <3>1, <3>3 DEF LegacyInv
  <2>4. \A o, p \in Requests : request'[o].pc # "none" /\ request'[p].pc # "none" => o = p
    BY <1>a, <2>1, <2>2 DEF LegacyInv
  <2> QED BY <2>3, <2>4 DEF LegacyInv
<1> QED BY <1>3, <1>4, <1>5, <1>6 DEF Inv

(* The clients take an answer or a failure. *)
LEMMA TakenSteps ==
    ASSUME Inv, NEW q \in Requests,
           Receive(q) \/ ReceiveDetail(q) \/ ReceiveLegacy(q) \/ ReceiveLegacyError(q)
    PROVE  Inv'
<1>a. TypeInv /\ ListInv /\ DOMAIN rankChanges \subseteq Submissions
  BY DEF Inv, TypeInv
<1>1. CASE Receive(q)
  <2>1. Sound(rows, request[q].at, request[q].answer)
    BY <1>a DEF ListInv
  <2>2. DOMAIN Changes(shown.answer, request[q].answer) \subseteq Submissions
    BY <1>a, <2>1, ChangesDomain
  <2>3. DOMAIN rankChanges' \subseteq Submissions
    BY <1>1, <1>a, <2>2 DEF Receive
  <2>4. /\ Done(q) /\ request[q].pc = "answered"
        /\ shown' = [at |-> request[q].at, answer |-> request[q].answer]
        /\ detail' = detail /\ UNCHANGED <<client, rows, active, selected>>
    BY <1>1 DEF Receive, drawerVars
  <2> QED BY <2>3, <2>4, TakenStep
<1>2. CASE ReceiveDetail(q)
  <2>1. /\ Done(q) /\ client = "drawer" /\ shown' = shown /\ rankChanges' = rankChanges
        /\ UNCHANGED <<client, rows, active, selected>>
        /\ detail' = detail \/ /\ request[q].wanted /\ request[q].pc = "answered"
                               /\ detail' = request[q].detail
    BY <1>2 DEF ReceiveDetail
  <2> QED BY <1>a, <2>1, TakenStep
<1>3. CASE ReceiveLegacy(q) \/ ReceiveLegacyError(q)
  <2>1. /\ Done(q) /\ rankChanges' = rankChanges /\ detail' = detail
        /\ UNCHANGED <<client, rows, active, selected>>
        /\ \/ /\ request[q].pc = "answered"
              /\ shown' = [at |-> request[q].at, answer |-> request[q].answer]
           \/ client = "legacy" /\ shown' = [shown EXCEPT !.answer = <<>>]
    BY <1>3 DEF ReceiveLegacy, ReceiveLegacyError, drawerVars
  <2> QED BY <1>a, <2>1, TakenStep
<1> QED BY <1>1, <1>2, <1>3

(* What the requests are for is forgotten: the page or the drawer closed. *)
LEMMA Forgotten ==
    ASSUME request \in [Requests -> RequestType],
           request' = [q \in Requests |-> [request[q] EXCEPT !.wanted = FALSE]]
    PROVE  /\ request' \in [Requests -> RequestType]
           /\ \A q \in Requests : /\ request'[q].wanted = FALSE /\ request'[q].at = request[q].at
                                  /\ request'[q].answer = request[q].answer
<1>1. ASSUME NEW q \in Requests
      PROVE  /\ request'[q] \in RequestType /\ request'[q].wanted = FALSE
             /\ request'[q].at = request[q].at /\ request'[q].answer = request[q].answer
  <2>1. PICK r \in RequestType : r = request[q]
    OBVIOUS
  <2>2. PICK x : x = [r EXCEPT !.wanted = FALSE]
    OBVIOUS
  <2>3. x \in RequestType /\ x.wanted = FALSE /\ x.at = r.at /\ x.answer = r.answer
    BY <2>1, <2>2 DEF RequestType
  <2>4. request'[q] = x
    BY <2>1, <2>2
  <2> QED BY <2>1, <2>3, <2>4
<1>2. request' \in [Requests -> RequestType]
  BY <1>1
<1> QED BY <1>1, <1>2

(* The hook's component goes away with what it showed. *)
LEMMA UnmountStep == ASSUME Inv, Unmount PROVE Inv'
<1>a. TypeInv /\ ListInv /\ DrawerInv
  BY DEF Inv
<1>b. /\ client = "hook" /\ active' = FALSE /\ rankChanges' = NoFlash
      /\ shown' = [at |-> 0, answer |-> <<>>]
      /\ UNCHANGED <<client, rows, selected, detail>>
  BY DEF Unmount, drawerVars
<1>1. /\ request' \in [Requests -> RequestType]
      /\ \A q \in Requests : /\ request'[q].wanted = FALSE /\ request'[q].at = request[q].at
                             /\ request'[q].answer = request[q].answer
  BY <1>a, Forgotten DEF TypeInv, Unmount
<1>2. shown' \in [at: Nat, answer: Seq(Nat)] /\ shown'.at = 0 /\ shown'.answer = <<>>
  <2>1. <<>> \in Seq(Nat)
    OBVIOUS
  <2> QED BY <1>b, <2>1
<1>3. DOMAIN rankChanges' = {}
  BY <1>b DEF NoFlash
<1>4. TypeInv'
  BY <1>a, <1>b, <1>1, <1>2, <1>3 DEF TypeInv
<1>5. ListInv'
  <2>1. Sound(rows, 0, <<>>) /\ Ranked(rows, 0, <<>>)
    BY <1>a, EmptyList DEF TypeInv
  <2>2. \A q \in Requests : /\ Sound(rows, request'[q].at, request'[q].answer)
                            /\ Ranked(rows, request'[q].at, request'[q].answer)
    BY <1>a, <1>b, <1>1 DEF ListInv
  <2> QED BY <1>b, <1>2, <2>1, <2>2 DEF ListInv
<1>6. DrawerInv' /\ LegacyInv'
  BY <1>a, <1>b DEF DrawerInv, LegacyInv
<1> QED BY <1>4, <1>5, <1>6 DEF Inv

(* The drawer closes: nothing is awaited any more. *)
LEMMA CloseDrawerStep == ASSUME Inv, CloseDrawer PROVE Inv'
<1>a. TypeInv /\ ListInv
  BY DEF Inv
<1>b. /\ client = "drawer" /\ selected' = None /\ detail' = NoDetail
      /\ UNCHANGED <<client, rows, active, shown, rankChanges>>
  BY DEF CloseDrawer
<1>1. /\ request' \in [Requests -> RequestType]
      /\ \A q \in Requests : /\ request'[q].wanted = FALSE /\ request'[q].at = request[q].at
                             /\ request'[q].answer = request[q].answer
  BY <1>a, Forgotten DEF TypeInv, CloseDrawer
<1>2. TypeInv'
  BY <1>a, <1>b, <1>1 DEF TypeInv
<1>3. ListInv'
  BY <1>a, <1>b, <1>1 DEF ListInv
<1>4. DrawerInv' /\ LegacyInv'
  BY <1>b, <1>1 DEF DrawerInv, LegacyInv
<1> QED BY <1>2, <1>3, <1>4 DEF Inv

(* The drawer opens: none of the requests of earlier drawers is awaited.   *)
LEMMA OpenDrawerStep ==
    ASSUME Inv, NEW q \in Requests, NEW s \in Submissions, OpenDrawer(q, s)
    PROVE  Inv'
<1>a. TypeInv /\ ListInv /\ DrawerInv
  BY DEF Inv
<1>b. request \in [Requests -> RequestType] /\ rows \in Seq(Runs)
  BY <1>a DEF TypeInv
<1>c. /\ client = "drawer" /\ selected = None /\ selected' = s
      /\ request' = [request EXCEPT ![q] = Sent(s)]
      /\ s \in {rows[k].id : k \in LatestRows}
      /\ UNCHANGED <<client, rows, active, shown, rankChanges, detail>>
  BY DEF OpenDrawer
<1>1. /\ Sent(s) \in RequestType /\ Sent(s).pc = "sent" /\ Sent(s).at = 0 /\ Sent(s).answer = <<>>
      /\ Sent(s).id = s
  BY NewRequests
<1>2. /\ request' \in [Requests -> RequestType] /\ request'[q] = Sent(s)
      /\ \A p \in Requests \ {q} : request'[p] = request[p]
  BY <1>b, <1>c, <1>1
<1>3. \E k \in 1..Len(rows) : rows[k].id = s
  BY <1>c DEF LatestRows
<1>4. TypeInv'
  BY <1>a, <1>c, <1>2 DEF TypeInv
<1>5. ListInv'
  <2>1. Sound(rows, 0, <<>>)
    BY <1>b, EmptyList
  <2>2. ASSUME NEW p \in Requests PROVE Sound(rows, request'[p].at, request'[p].answer)
    <3>1. CASE p = q
      BY <1>1, <1>2, <2>1, <3>1
    <3>2. CASE p # q
      BY <1>a, <1>2, <3>2 DEF ListInv
    <3> QED BY <3>1, <3>2
  <2> QED BY <1>a, <1>c, <2>2 DEF ListInv
<1>6. DrawerInv'
  <2>1. \A p \in Requests : request[p].wanted = FALSE
    BY <1>a, <1>b, <1>c, NoneAssumption DEF DrawerInv, RequestType
  <2>2. detail' = NoDetail
    BY <1>a, <1>c DEF DrawerInv
  <2>3. ASSUME NEW p \in Requests, request'[p].wanted PROVE p = q
    BY <1>2, <2>1, <2>3
  <2>4. selected' \in Submissions /\ selected' = s
    BY <1>c
  <2> QED BY <1>c, <1>1, <1>2, <1>3, <2>2, <2>3, <2>4 DEF DrawerInv
<1>7. LegacyInv'
  BY <1>c DEF LegacyInv
<1> QED BY <1>4, <1>5, <1>6, <1>7 DEF Inv

(* Nothing is shown, or on its way, at the start. *)
LEMMA InitInv == Init => Inv
<1> SUFFICES ASSUME Init PROVE Inv
  OBVIOUS
<1>a. /\ client \in Clients /\ rows = <<>> /\ request = [q \in Requests |-> NoRequest]
      /\ active = TRUE /\ shown = [at |-> 0, answer |-> <<>>]
      /\ rankChanges = NoFlash /\ selected = None /\ detail = NoDetail
  BY DEF Init
<1>b. /\ NoRequest \in RequestType /\ NoRequest.pc = "none" /\ NoRequest.at = 0
      /\ NoRequest.answer = <<>> /\ NoRequest.wanted = FALSE
  BY NewRequests
<1>c. rows \in Seq(Runs) /\ Len(rows) = 0
  BY <1>a
<1>d. shown \in [at: Nat, answer: Seq(Nat)] /\ shown.at = 0 /\ shown.answer = <<>>
  <2>1. <<>> \in Seq(Nat)
    OBVIOUS
  <2> QED BY <1>a, <2>1
<1>1. TypeInv
  <2>1. request \in [Requests -> RequestType]
    BY <1>a, <1>b
  <2>2. DOMAIN rankChanges = {}
    BY <1>a DEF NoFlash
  <2> QED BY <1>a, <1>c, <1>d, <2>1, <2>2, LeaderboardAssumption DEF TypeInv
<1>2. Sound(rows, 0, <<>>) /\ Ranked(rows, 0, <<>>)
  BY <1>c, EmptyList
<1>3. ListInv /\ DrawerInv /\ LegacyInv
  BY <1>a, <1>b, <1>d, <1>2 DEF ListInv, DrawerInv, LegacyInv
<1> QED BY <1>1, <1>3 DEF Inv

(* Every step keeps the invariant. *)
LEMMA NextInv == Inv /\ [Next]_vars => Inv'
<1> SUFFICES ASSUME Inv, [Next]_vars PROVE Inv'
  OBVIOUS
<1>1. ASSUME NEW r \in Runs, Insert(r) PROVE Inv'
  BY <1>1, InsertStep
<1>2. ASSUME NEW q \in Requests, Handler(q) \/ HandleLegacyHalfway(q) PROVE Inv'
  BY <1>2, HandlerSteps
<1>3. ASSUME NEW q \in Requests,
             \/ RequestFails(q) \/ Poll(q) \/ ReceiveNothing(q) \/ Mount(q)
             \/ TimeoutLegacy(q) \/ PollLegacy(q) \/ StartPolling(q)
      PROVE  Inv'
  BY <1>3, QuietSteps
<1>4. ASSUME NEW q \in Requests,
             Receive(q) \/ ReceiveDetail(q) \/ ReceiveLegacy(q) \/ ReceiveLegacyError(q)
      PROVE  Inv'
  BY <1>4, TakenSteps
<1>5. ASSUME NEW q \in Requests, NEW s \in Submissions, OpenDrawer(q, s) PROVE Inv'
  BY <1>5, OpenDrawerStep
<1>6. ASSUME ClearFlash \/ StopPolling \/ UNCHANGED vars PROVE Inv'
  BY <1>6, QuietSteps
<1>7. Unmount => Inv'
  BY UnmountStep
<1>8. CloseDrawer => Inv'
  BY CloseDrawerStep
<1> QED BY <1>1, <1>2, <1>3, <1>4, <1>5, <1>6, <1>7, <1>8 DEF Next

----------------------------------------------------------------------------
(* Theorems                                                                *)

(* The inductive invariant: every list on its way or on the screen is a    *)
(* sound reading of the table as it was, for the hook a ranking of all of  *)
(* it; what the drawer awaits is of the submission it is open for; the     *)
(* legacy page has one request.                                            *)
THEOREM InductiveInvariant == Spec => []Inv
<1> QED BY InitInv, NextInv, PTL DEF Spec

(* Every row that was the newest of its submission has a place.            *)
LEMMA OrderingAll ==
    ASSUME NEW t \in Seq(Runs), NEW at \in 0..Len(t), NEW n \in Nat, NEW r,
           Ordering(t, at, n, r), NEW k, k \in Newest(t, at)
    PROVE  \E p \in 1..n : r[p] = k
<1>1. PICK S : S = Newest(t, at)
  OBVIOUS
<1>2. IsFiniteSet(S) /\ n = Cardinality(S) /\ r \in [1..n -> S] /\ Different(n, r) /\ k \in S
  BY <1>1, NewestFacts DEF Ordering
<1>3. ASSUME NEW u \in [1..n -> S], Different(n, u), NEW j \in S PROVE \E p \in 1..n : u[p] = j
  <2>1. IsFiniteSet(S) /\ n = Cardinality(S)
    BY <1>2
  <2> QED BY <1>3, <2>1, ListsAll, SMTT(60)
<1> QED BY <1>2, <1>3

(* Of two rankings of one table neither has a better run at the same       *)
(* place: some run among the first c of the one is not above c in the other.*)
LEMMA CrossBeats ==
    ASSUME NEW t \in Seq(Runs), NEW at \in 0..Len(t), NEW n \in Nat, NEW r, NEW s,
           Ordering(t, at, n, r), Ordering(t, at, n, s), NEW c \in 1..n
    PROVE  ~BeatsRun(t[r[c]], t[s[c]])
<1>1. PICK S : S = Newest(t, at)
  OBVIOUS
<1>2. IsFiniteSet(S) /\ S \subseteq 1..Len(t)
  BY <1>1, NewestFacts
<1>3. /\ n = Cardinality(S) /\ r \in [1..n -> S] /\ s \in [1..n -> S] /\ Different(n, r) /\ Different(n, s)
  BY <1>1 DEF Ordering
<1>4. PICK m \in 1..c : \E p \in 1..n : p >= c /\ r[m] = s[p]
  <2>1. r \in Lists(n, S) /\ s \in Lists(n, S)
    BY <1>3 DEF Lists
  <2>2. Crosses(n, r, s, c)
    BY <1>2, <1>3, <2>1, ListsCross, Zenon
  <2> QED BY <2>2 DEF Crosses
<1>5. PICK p \in 1..n : p >= c /\ r[m] = s[p]
  BY <1>4
<1>6. m \in 1..n
  OBVIOUS
<1>7. \A i \in 1..n : t[r[i]] \in Figures /\ t[s[i]] \in Figures
  <2>1. ASSUME NEW k \in S PROVE t[k] \in Figures
    BY <1>2, RowFacts
  <2> QED BY <1>3, <2>1
<1>8. ~BeatsRun(t[r[c]], t[r[m]])
  <2>1. CASE m = c
    BY <1>7, <2>1, BeatsOrder
  <2>2. CASE m # c
    <3>1. m < c
      BY <2>2
    <3> QED BY <1>6, <3>1 DEF Ordering
  <2> QED BY <2>1, <2>2
<1>9. ~BeatsRun(t[s[p]], t[s[c]])
  <2>1. CASE p = c
    BY <1>7, <2>1, BeatsOrder
  <2>2. CASE p # c
    <3>1. c < p
      BY <1>5, <2>2
    <3> QED BY <3>1 DEF Ordering
  <2> QED BY <2>1, <2>2
<1>10. PICK a \in Figures, b \in Figures, d \in Figures :
         a = t[r[c]] /\ b = t[r[m]] /\ d = t[s[c]]
  BY <1>6, <1>7
<1>11. ~BeatsRun(a, b) /\ ~BeatsRun(b, d)
  BY <1>5, <1>8, <1>9, <1>10
<1>12. ~BeatsRun(a, d)
  BY <1>11, BeatsOrder
<1> QED BY <1>10, <1>12

(* So two answers read from the same table are equally long and differ     *)
(* only in the order of ties.                                              *)
LEMMA AnswersTied ==
    ASSUME TypeInv, NEW at \in 0..Len(rows), NEW a, NEW b, Ranked(rows, at, a), Ranked(rows, at, b)
    PROVE  Len(a) = Len(b) /\ \A i \in 1..Len(a) : Tied(a[i], b[i])
<1>1. PICK n \in Nat : \E r \in [1..n -> Nat] :
        /\ Ordering(rows, at, n, r) /\ Len(a) = AtMost(MaxShown, n)
        /\ \A i \in 1..Len(a) : a[i] = r[i]
  BY DEF Ranked
<1>2. PICK r \in [1..n -> Nat] :
        /\ Ordering(rows, at, n, r) /\ Len(a) = AtMost(MaxShown, n)
        /\ \A i \in 1..Len(a) : a[i] = r[i]
  BY <1>1
<1>3. PICK m \in Nat : \E s \in [1..m -> Nat] :
        /\ Ordering(rows, at, m, s) /\ Len(b) = AtMost(MaxShown, m)
        /\ \A i \in 1..Len(b) : b[i] = s[i]
  BY DEF Ranked
<1>4. PICK s \in [1..m -> Nat] :
        /\ Ordering(rows, at, m, s) /\ Len(b) = AtMost(MaxShown, m)
        /\ \A i \in 1..Len(b) : b[i] = s[i]
  BY <1>3
<1>5. m = n
  BY <1>2, <1>4 DEF Ordering
<1>6. Len(a) = Len(b) /\ Len(a) <= n /\ Len(a) \in Nat
  BY <1>2, <1>4, <1>5, LeaderboardAssumption DEF AtMost
<1>7. rows \in Seq(Runs)
  BY DEF TypeInv
<1>8. ASSUME NEW i \in 1..Len(a) PROVE Tied(a[i], b[i])
  <2>1. i \in 1..n /\ a[i] = r[i] /\ b[i] = s[i]
    BY <1>2, <1>4, <1>6
  <2>2. Ordering(rows, at, n, r) /\ Ordering(rows, at, n, s)
    BY <1>2, <1>4, <1>5
  <2>3. ~BeatsRun(rows[a[i]], rows[b[i]]) /\ ~BeatsRun(rows[b[i]], rows[a[i]])
    BY <1>7, <2>1, <2>2, CrossBeats
  <2>4. rows[a[i]] \in Figures /\ rows[b[i]] \in Figures
    <3>1. r[i] \in Newest(rows, at) /\ s[i] \in Newest(rows, at)
      BY <2>1, <2>2 DEF Ordering
    <3>2. r[i] \in 1..Len(rows) /\ s[i] \in 1..Len(rows)
      BY <1>7, <3>1, NewestFacts
    <3> QED BY <1>7, <2>1, <3>2, RowFacts
  <2>5. CalculateScore(rows[a[i]]) = CalculateScore(rows[b[i]]) /\ rows[a[i]].p99 = rows[b[i]].p99
    BY <2>3, <2>4, BeatsOrder
  <2> QED BY <2>5 DEF Tied, Score
<1> QED BY <1>6, <1>8

(* And an entry that has moved between two such answers stood where it is  *)
(* tied with what stood there before.                                      *)
LEMMA ChangesTied ==
    ASSUME TypeInv, NEW at, NEW old, NEW new, Sound(rows, at, old), Sound(rows, at, new),
           Len(old) = Len(new), \A i \in 1..Len(old) : Tied(old[i], new[i]),
           NEW s \in DOMAIN Changes(old, new)
    PROVE  Tied(old[Changes(old, new)[s].from], old[Changes(old, new)[s].to])
<1>1. PICK moved \in SUBSET (1..Len(new)) :
        moved = {i \in 1..Len(new) : \E j \in RankIn(old, rows[new[i]].id) : j # i}
  OBVIOUS
<1>2. PICK i : i = CHOOSE j \in moved : rows[new[j]].id = s
  OBVIOUS
<1>3. PICK f : f = CHOOSE j \in RankIn(old, s) : TRUE
  OBVIOUS
<1>4. s \in {rows[new[j]].id : j \in moved}
  BY <1>1 DEF Changes
<1>5. Changes(old, new)[s] = [from |-> f, to |-> i]
  BY <1>1, <1>2, <1>3, <1>4 DEF Changes
<1>6. i \in moved /\ rows[new[i]].id = s
  BY <1>2, <1>4
<1>7. f \in RankIn(old, s)
  <2>1. RankIn(old, s) # {}
    BY <1>1, <1>6
  <2> QED BY <1>3, <2>1
<1>8. i \in 1..Len(new) /\ f \in 1..Len(old) /\ rows[old[f]].id = s
  BY <1>6, <1>7 DEF RankIn
<1>9. new[i] \in Newest(rows, at) /\ old[f] \in Newest(rows, at)
  BY <1>8 DEF Sound
<1>10. new[i] = old[f]
  <2>1. rows \in Seq(Runs) /\ at \in 0..Len(rows)
    BY DEF TypeInv, Sound
  <2> QED BY <1>6, <1>8, <1>9, <2>1, NewestFacts
<1>11. Tied(old[i], new[i])
  BY <1>8
<1>12. Tied(old[f], old[i])
  BY <1>10, <1>11 DEF Tied
<1> QED BY <1>5, <1>12

(* What a step does to the screen. *)
LEMMA ScreenSteps ==
    ASSUME Next
    PROVE  \/ shown' = shown /\ rankChanges' \in {rankChanges, NoFlash}
           \/ client = "hook" /\ shown' = [at |-> 0, answer |-> <<>>] /\ rankChanges' = NoFlash
           \/ \E q \in Requests : Receive(q) \/ ReceiveLegacy(q) \/ ReceiveLegacyError(q)
<1>1. ASSUME NEW r \in Runs, Insert(r) PROVE shown' = shown /\ rankChanges' = rankChanges
  BY <1>1 DEF Insert
<1>2. ASSUME NEW q \in Requests, NEW s \in Submissions, OpenDrawer(q, s)
      PROVE  shown' = shown /\ rankChanges' = rankChanges
  BY <1>2 DEF OpenDrawer
<1>3. ASSUME NEW q \in Requests, Handler(q) \/ HandleLegacyHalfway(q) \/ RequestFails(q)
      PROVE  shown' = shown /\ rankChanges' = rankChanges
  BY <1>3 DEF Handler, HandleScores, HandleSubmissionDetail, HandleLegacyLeaderboard,
              HandleLegacyHalfway, RequestFails
<1>4. ASSUME NEW q \in Requests, Poll(q) \/ ReceiveNothing(q) \/ Mount(q) \/ ReceiveDetail(q)
      PROVE  shown' = shown /\ rankChanges' = rankChanges
  BY <1>4 DEF Poll, ReceiveNothing, Mount, ReceiveDetail
<1>5. ASSUME NEW q \in Requests, PollLegacy(q) \/ TimeoutLegacy(q) \/ StartPolling(q)
      PROVE  shown' = shown /\ rankChanges' = rankChanges
  BY <1>5 DEF PollLegacy, TimeoutLegacy, StartPolling
<1>6. ClearFlash \/ CloseDrawer \/ StopPolling => shown' = shown /\ rankChanges' \in {rankChanges, NoFlash}
  BY DEF ClearFlash, CloseDrawer, StopPolling
<1>7. Unmount => client = "hook" /\ shown' = [at |-> 0, answer |-> <<>>] /\ rankChanges' = NoFlash
  BY DEF Unmount
<1> QED BY <1>1, <1>2, <1>3, <1>4, <1>5, <1>6, <1>7 DEF Next

(* The types, and what a list that is sound or ranked says of standings.   *)
LEMMA InvDisplay == Inv => DisplayConsistent
<1> SUFFICES ASSUME Inv PROVE DisplayConsistent
  OBVIOUS
<1>a. TypeInv /\ ListInv
  BY DEF Inv
<1>b. rows \in Seq(Runs) /\ request \in [Requests -> RequestType] /\ shown.answer \in Seq(Nat)
  BY <1>a DEF TypeInv
<1>1. ASSUME NEW at, NEW list \in Seq(Nat), Sound(rows, at, list)
      PROVE  at \in 0..Len(rows) /\ list \in Answers
  <2>1. at \in 0..Len(rows)
    BY <1>1 DEF Sound
  <2>2. \A i \in 1..Len(list) : list[i] \in 1..Len(rows)
    BY <1>b, <1>1, <2>1, NewestFacts DEF Sound
  <2>3. list \in [1..Len(list) -> 1..Len(rows)] /\ Len(list) \in Nat
    BY <2>2
  <2>4. list \in Seq(1..Len(rows))
    BY <2>3
  <2> QED BY <2>1, <2>4 DEF Answers
<1>2. TypeOK
  <2>1. shown.at \in 0..Len(rows) /\ shown.answer \in Answers
    BY <1>a, <1>b, <1>1 DEF ListInv
  <2>2. ASSUME NEW q \in Requests
        PROVE  /\ request[q].pc \in {"none", "sent", "answered", "failed"}
               /\ request[q].at \in 0..Len(rows) /\ request[q].answer \in Answers
    <3>1. request[q] \in RequestType /\ Sound(rows, request[q].at, request[q].answer)
      BY <1>a, <1>b DEF ListInv
    <3>2. request[q].answer \in Seq(Nat) /\ request[q].pc \in {"none", "sent", "answered", "failed"}
      BY <3>1 DEF RequestType
    <3> QED BY <1>1, <3>1, <3>2
  <2> QED BY <1>a, <2>1, <2>2 DEF TypeInv, TypeOK
<1>3. StandingsSound
  <2>1. PICK at, list : at = shown.at /\ list = shown.answer
    OBVIOUS
  <2>2. Sound(rows, at, list)
    BY <1>a, <2>1 DEF ListInv
  <2>3. at \in 0..Len(rows)
    BY <2>2 DEF Sound
  <2>4. \A j, k : Dominates(k, j) <=> DominatesRun(rows[k], rows[j])
    BY DEF Dominates, DominatesRun
  <2>5. \A i \in 1..Len(list) : NewestAt(at, list[i])
    <3>1. ASSUME NEW k \in Newest(rows, at) PROVE NewestAt(at, k)
      BY <2>3 DEF Newest, NewestAt
    <3> QED BY <2>2, <3>1 DEF Sound
  <2>6. \A i, j \in 1..Len(list) :
           i < j => rows[list[i]].id # rows[list[j]].id /\ ~Dominates(list[j], list[i])
    BY <2>2, <2>4 DEF Sound
  <2>7. ASSUME client = "hook", NEW k \in 1..at, NewestAt(at, k)
        PROVE  (\E i \in 1..Len(list) : list[i] = k) \/ \A i \in 1..Len(list) : ~Dominates(k, list[i])
    <3>1. Ranked(rows, at, list)
      BY <1>a, <2>1, <2>7 DEF ListInv
    <3>2. PICK n \in Nat : \E r \in [1..n -> Nat] :
            /\ Ordering(rows, at, n, r) /\ Len(list) = AtMost(MaxShown, n)
            /\ \A i \in 1..Len(list) : list[i] = r[i]
      BY <3>1 DEF Ranked
    <3>3. PICK r \in [1..n -> Nat] :
            /\ Ordering(rows, at, n, r) /\ Len(list) = AtMost(MaxShown, n)
            /\ \A i \in 1..Len(list) : list[i] = r[i]
      BY <3>2
    <3>7. PICK p \in 1..n : r[p] = k
      <4>1. k \in Newest(rows, at)
        BY <2>3, <2>7 DEF Newest, NewestAt
      <4> QED BY <1>b, <2>3, <3>3, <4>1, OrderingAll
    <3>8. Len(list) <= n /\ Len(list) \in Nat
      BY <3>3, LeaderboardAssumption DEF AtMost
    <3>9. CASE p <= Len(list)
      <4>1. p \in 1..Len(list) /\ list[p] = k
        BY <3>3, <3>7, <3>8, <3>9
      <4> QED BY <4>1
    <3>10. CASE ~(p <= Len(list))
      <4>1. ASSUME NEW i \in 1..Len(list) PROVE ~Dominates(k, list[i])
        <5>1. i \in 1..n /\ i < p /\ list[i] = r[i]
          BY <3>3, <3>8, <3>10
        <5>2. ~BeatsRun(rows[k], rows[list[i]])
          BY <3>3, <3>7, <5>1 DEF Ordering
        <5>3. rows[k] \in Figures /\ rows[list[i]] \in Figures
          <6>1. list[i] \in Newest(rows, at)
            BY <2>2 DEF Sound
          <6>2. list[i] \in 1..Len(rows) /\ k \in 1..Len(rows)
            BY <1>b, <2>3, <2>7, <6>1, NewestFacts
          <6> QED BY <1>b, <6>2, RowFacts
        <5>4. ~DominatesRun(rows[k], rows[list[i]])
          BY <5>2, <5>3, DominatorBeats
        <5> QED BY <2>4, <5>4
      <4> QED BY <4>1
    <3> QED BY <3>9, <3>10
  <2> QED BY <2>1, <2>5, <2>6, <2>7 DEF StandingsSound
<1> QED BY <1>2, <1>3 DEF DisplayConsistent

(* No page ever shows a run that was not the newest of its submission, one *)
(* submission twice, or a run above one that is better in every figure the *)
(* score is made of, and the leaderboard of the hook leaves none out that  *)
(* is better than one it shows.                                            *)
THEOREM DisplayConsistentHolds == Spec => []DisplayConsistent
<1> QED BY InductiveInvariant, InvDisplay, PTL

(* An open drawer shows the runs of the submission selected, and figures   *)
(* that none of them beats, whatever late answers of earlier drawers come. *)
THEOREM DrawerShowsSelectedHolds == Spec => []DrawerShowsSelected
<1>1. Inv => DrawerShowsSelected
  BY DEF Inv, DrawerInv, DetailFor, DrawerShowsSelected, Score
<1> QED BY <1>1, InductiveInvariant, PTL

(* Without a new row no entry of the leaderboard moves but among exact     *)
(* ties, and none flashes.                                                 *)
THEOREM NoPhantomMovesHolds == Spec => NoPhantomMoves
<1>1. ASSUME Inv, Next, client = "hook", shown'.at = shown.at
      PROVE  /\ \A i \in DOMAIN shown.answer \cap DOMAIN shown'.answer :
                   Tied(shown.answer[i], shown'.answer[i])
             /\ \/ rankChanges' \in {rankChanges, NoFlash}
                \/ \A s \in DOMAIN rankChanges' :
                      Tied(shown.answer[rankChanges'[s].from], shown.answer[rankChanges'[s].to])
  <2>a. TypeInv /\ ListInv /\ shown.answer \in Seq(Nat)
    BY <1>1 DEF Inv, TypeInv
  <2>1. CASE shown' = shown /\ rankChanges' \in {rankChanges, NoFlash}
    BY <2>1 DEF Tied
  <2>2. CASE shown' = [at |-> 0, answer |-> <<>>] /\ rankChanges' = NoFlash
    <3>1. DOMAIN shown'.answer = {}
      BY <2>2
    <3> QED BY <2>2, <3>1
  <2>3. ASSUME NEW q \in Requests, Receive(q) \/ ReceiveLegacy(q) \/ ReceiveLegacyError(q)
        PROVE  /\ \A i \in DOMAIN shown.answer \cap DOMAIN shown'.answer :
                     Tied(shown.answer[i], shown'.answer[i])
               /\ \/ rankChanges' \in {rankChanges, NoFlash}
                  \/ \A s \in DOMAIN rankChanges' :
                        Tied(shown.answer[rankChanges'[s].from], shown.answer[rankChanges'[s].to])
    <3>1. Receive(q)
      BY <1>1, <2>3 DEF ReceiveLegacy, ReceiveLegacyError
    <3>2. PICK at, old, new : at = shown.at /\ old = shown.answer /\ new = request[q].answer
      OBVIOUS
    <3>3. request[q].at = at /\ shown'.answer = new
      BY <1>1, <3>1, <3>2 DEF Receive
    <3>4. /\ Sound(rows, at, old) /\ Sound(rows, at, new)
          /\ Ranked(rows, at, old) /\ Ranked(rows, at, new)
      BY <1>1, <2>a, <3>2, <3>3 DEF ListInv
    <3>5. at \in 0..Len(rows)
      BY <3>4 DEF Sound
    <3>6. Len(old) = Len(new) /\ \A i \in 1..Len(old) : Tied(old[i], new[i])
      BY <2>a, <3>4, <3>5, AnswersTied
    <3>7. DOMAIN old = 1..Len(old)
      BY <2>a, <3>2
    <3>8. \A s \in DOMAIN Changes(old, new) :
             Tied(old[Changes(old, new)[s].from], old[Changes(old, new)[s].to])
      BY <2>a, <3>4, <3>6, ChangesTied
    <3>9. rankChanges' \in {rankChanges, Changes(old, new)}
      BY <3>1, <3>2 DEF Receive
    <3> QED BY <3>2, <3>3, <3>6, <3>7, <3>8, <3>9
  <2> QED BY <1>1, <2>1, <2>2, <2>3, ScreenSteps
<1>2. ASSUME Inv, [Next]_vars
      PROVE  [client = "hook" /\ shown'.at = shown.at =>
                /\ \A i \in DOMAIN shown.answer \cap DOMAIN shown'.answer :
                      Tied(shown.answer[i], shown'.answer[i])
                /\ \/ rankChanges' \in {rankChanges, NoFlash}
                   \/ \A s \in DOMAIN rankChanges' :
                         Tied(shown.answer[rankChanges'[s].from], shown.answer[rankChanges'[s].to])]_vars
  BY <1>1, <1>2
<1> QED BY <1>2, InductiveInvariant, PTL DEF Spec, NoPhantomMoves

(* The legacy page never shows an older table after a newer one.           *)
THEOREM LegacyNeverGoesBackHolds == Spec => LegacyNeverGoesBack
<1>1. ASSUME Inv, Next, client = "legacy" PROVE shown'.at >= shown.at
  <2>a. TypeInv /\ LegacyInv /\ shown \in [at: Nat, answer: Seq(Nat)]
    BY <1>1 DEF Inv, TypeInv
  <2>1. CASE shown' = shown
    BY <2>a, <2>1
  <2>2. ASSUME NEW q \in Requests, Receive(q) \/ ReceiveLegacy(q) \/ ReceiveLegacyError(q)
        PROVE  shown'.at >= shown.at
    <3>1. CASE ReceiveLegacy(q)
      <4>1. shown'.at = request[q].at /\ request[q].pc = "answered"
        BY <3>1 DEF ReceiveLegacy
      <4> QED BY <1>1, <2>a, <4>1 DEF LegacyInv
    <3>2. CASE ReceiveLegacyError(q)
      <4>1. PICK x : x = [shown EXCEPT !.answer = <<>>]
        OBVIOUS
      <4>2. x.at = shown.at
        BY <2>a, <4>1
      <4>3. shown' = x
        BY <3>2, <4>1 DEF ReceiveLegacyError
      <4> QED BY <2>a, <4>2, <4>3
    <3>3. ~Receive(q)
      BY <1>1 DEF Receive
    <3> QED BY <2>2, <3>1, <3>2, <3>3
  <2> QED BY <1>1, <2>1, <2>2, ScreenSteps
<1>2. ASSUME Inv, [Next]_vars PROVE [client = "legacy" => shown'.at >= shown.at]_vars
  BY <1>1, <1>2
<1> QED BY <1>2, InductiveInvariant, PTL DEF Spec, LegacyNeverGoesBack

============================================================================
