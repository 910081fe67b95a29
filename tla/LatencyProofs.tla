--------------------------- MODULE LatencyProofs ----------------------------
(***************************************************************************)
(* Proofs about Latency, for every set of latencies, batch sizes and       *)
(* percentile targets.                                                     *)
(*                                                                         *)
(* What the loops of PercentileFromBuckets compute is proved by induction  *)
(* over the buckets, in the form of LeastNatural: were a statement false   *)
(* of some bucket, it would be false of a first one.                       *)
(***************************************************************************)
EXTENDS Latency, WellFoundedInduction, TLAPS

-----------------------------------------------------------------------------
(* Numbers.                                                                 *)

LEMMA LeastNatural ==
    ASSUME NEW T \in SUBSET Nat, T # {}
    PROVE  \E n \in T : \A m \in T : n <= m
<1>1. PICK x \in T : \A y \in T : ~(<<y, x>> \in OpToRel(<, Nat))
  BY WFMin, NatLessThanWellFounded
<1>2. \A y \in T : ~(y < x)
  BY <1>1 DEF OpToRel
<1> QED
  BY <1>2

(* A set that holds 0 and, with each number, the next one up to k.          *)
LEMMA Upwards ==
    ASSUME NEW k \in Nat, NEW T, 0 \in T, \A i \in 1..k : i - 1 \in T => i \in T
    PROVE  \A i \in 0..k : i \in T
<1> SUFFICES ASSUME \E i \in 0..k : i \notin T PROVE FALSE
  OBVIOUS
<1> DEFINE U == {i \in 0..k : i \notin T}
<1>1. U \in SUBSET Nat /\ U # {}
  OBVIOUS
<1>2. PICK n \in U : \A m \in U : n <= m
  BY <1>1, LeastNatural
<1>3. n \in 1..k /\ n - 1 \in 0..k /\ n - 1 \notin U
  BY <1>2
<1> QED
  BY <1>2, <1>3

LEMMA MinOf ==
    ASSUME NEW T \in SUBSET Nat, T # {}
    PROVE  Min(T) \in T /\ \A m \in T : Min(T) <= m
  BY LeastNatural DEF Min

(* A part of a width is within the width, and grows with the part.          *)
LEMMA PartOfWidth ==
    ASSUME NEW a \in Nat, NEW d \in Nat \ {0}, NEW w \in Nat, a <= d
    PROVE  (a * w) \div d \in 0..w
<1>1. a * w \in Nat /\ d * w \in Nat /\ a * w <= d * w
  OBVIOUS
<1>2. (d * w) \div d = w
  OBVIOUS
<1> QED
  BY <1>1, <1>2

(* Of two fractions, the part of the width at the smaller is the smaller.   *)
LEMMA PartsOrdered ==
    ASSUME NEW a \in Nat, NEW d \in Nat \ {0}, NEW b \in Nat, NEW e \in Nat \ {0},
           NEW w \in Nat, a * e <= b * d
    PROVE  (a * w) \div d <= (b * w) \div e
<1> DEFINE q == (a * w) \div d
<1>1. a * w \in Nat /\ b * w \in Nat
  OBVIOUS
<1>2. q \in Nat /\ q * d <= a * w
  BY <1>1
<1> HIDE DEF q
<1>3. (q * d) * e <= (a * w) * e
  BY <1>1, <1>2
<1>4. (a * w) * e = (a * e) * w
  OBVIOUS
<1>5. (a * e) * w <= (b * d) * w
  OBVIOUS
<1>6. (b * d) * w = (b * w) * d /\ (q * d) * e = (q * e) * d
  BY <1>2
<1>7. (q * e) * d <= (b * w) * d
  BY <1>1, <1>2, <1>3, <1>4, <1>5, <1>6
<1>8. q * e <= b * w
  BY <1>1, <1>2, <1>7
<1>9. q <= (b * w) \div e
  BY <1>1, <1>2, <1>8
<1> QED
  BY <1>9 DEF q

(* When the part at the larger one is a whole number, strictly.             *)
LEMMA PartsApart ==
    ASSUME NEW a \in Nat, NEW d \in Nat \ {0}, NEW b \in Nat, NEW e \in Nat \ {0},
           NEW w \in Nat \ {0}, a * e <= b * d, a * e # b * d,
           ((b * w) \div e) * e = b * w
    PROVE  (a * w) \div d < (b * w) \div e
<1>1. a * w \in Nat /\ b * w \in Nat
  OBVIOUS
<1>2. PICK q \in Nat : q = (a * w) \div d /\ q * d <= a * w
  BY <1>1
<1>3. PICK k \in Nat : k = (b * w) \div e /\ k * e = b * w
  BY <1>1
<1>4. (q * d) * e <= (a * w) * e
  BY <1>1, <1>2
<1>5. (a * w) * e = (a * e) * w
  OBVIOUS
<1>6. (a * e) * w < (b * d) * w
  <2>1. PICK x \in Nat, y \in Nat : x = a * e /\ y = b * d /\ x < y
    OBVIOUS
  <2>2. x * w < y * w
    BY <2>1
  <2> QED
    BY <2>1, <2>2
<1>7. (b * d) * w = (k * e) * d
  BY <1>3
<1>8. (q * e) * d < (k * e) * d
  BY <1>1, <1>2, <1>3, <1>4, <1>5, <1>6, <1>7
<1>9. q * e < k * e
  BY <1>2, <1>3, <1>8
<1>10. q < k
  BY <1>2, <1>3, <1>9
<1> QED
  BY <1>2, <1>3, <1>10

LEMMA MaxOf ==
    ASSUME NEW k \in Nat, NEW T \in SUBSET (0..k), T # {}
    PROVE  Max(T) \in T /\ \A m \in T : m <= Max(T)
<1> DEFINE U == {i \in 0..k : \A m \in T : m <= i}
<1>1. U \in SUBSET Nat /\ k \in U
  OBVIOUS
<1>2. PICK n \in U : \A i \in U : n <= i
  BY <1>1, LeastNatural
<1>3. n \in T
  <2> SUFFICES ASSUME n \notin T PROVE FALSE
    OBVIOUS
  <2>0. \A m \in T : m \in Nat /\ m <= n /\ m # n
    BY <1>2
  <2>1. n \in Nat /\ \A m \in T : m \in Nat /\ m <= n - 1
    BY <1>2, <2>0
  <2>2. n - 1 >= 0
    <3>1. PICK m \in T : TRUE
      OBVIOUS
    <3> QED
      BY <2>1, <3>1
  <2>3. n - 1 \in U
    BY <1>2, <2>1, <2>2
  <2> QED
    BY <1>2, <2>1, <2>3
<1> QED
  BY <1>2, <1>3 DEF Max

-----------------------------------------------------------------------------
(* The buckets.                                                             *)

LEMMA BucketBounds ==
    /\ Buckets = 1..10 /\ Len(LatencyBuckets) = 10
    /\ LatencyBuckets[10] = InfBucket
    /\ \A b \in 1..9 : LatencyBuckets[b] > 0 /\ LatencyBuckets[b] <= 5000
    /\ \A b \in Buckets : LatencyBuckets[b] \in Nat
    /\ \A a, b \in Buckets : a < b => LatencyBuckets[a] < LatencyBuckets[b]
<1>1. Buckets = 1..10 /\ Len(LatencyBuckets) = 10
  BY DEF Buckets, LatencyBuckets
<1>2. LatencyBuckets[10] = InfBucket
  BY DEF LatencyBuckets
<1>3. \A b \in 1..9 : /\ LatencyBuckets[b] \in Nat
                     /\ LatencyBuckets[b] > 0 /\ LatencyBuckets[b] <= 5000
  BY DEF LatencyBuckets
<1>4. \A b \in Buckets : b \in 1..9 \/ b = 10
  BY <1>1
<1>5. \A b \in Buckets : LatencyBuckets[b] \in Nat
  BY <1>2, <1>3, <1>4, InfAssumption
<1>6. \A a, b \in 1..9 : a < b => LatencyBuckets[a] < LatencyBuckets[b]
  BY DEF LatencyBuckets
<1>7. ASSUME NEW a \in Buckets, NEW b \in Buckets, a < b
      PROVE  LatencyBuckets[a] < LatencyBuckets[b]
  <2>1. a \in 1..9
    BY <1>1, <1>4, <1>7
  <2>2. CASE b \in 1..9
    BY <1>6, <1>7, <2>1, <2>2
  <2>3. CASE b = 10
    BY <1>2, <1>3, <2>1, <2>3, InfAssumption
  <2> QED
    BY <1>4, <2>2, <2>3
<1> QED
  BY <1>1, <1>2, <1>3, <1>5, <1>7

(* BucketForLatency finds the first bucket that is large enough, and the    *)
(* last for what fits none.                                                 *)
LEMMA BucketFound ==
    ASSUME NEW ms \in Nat
    PROVE  /\ BucketForLatency(ms) \in Buckets
           /\ \A b \in Buckets :
                 BucketForLatency(ms) <= b <=> ms <= LatencyBuckets[b] \/ b = 10
<1> DEFINE fits == {b \in Buckets : ms <= LatencyBuckets[b]}
<1>1. fits \in SUBSET Nat
  BY BucketBounds
<1>2. CASE fits = {}
  <2>1. BucketForLatency(ms) = 10
    BY <1>2, BucketBounds DEF BucketForLatency
  <2> QED
    BY <1>2, <2>1, BucketBounds
<1>3. CASE fits # {}
  <2>1. BucketForLatency(ms) = Min(fits)
    BY <1>3 DEF BucketForLatency
  <2>2. Min(fits) \in fits /\ \A m \in fits : Min(fits) <= m
    BY <1>1, <1>3, MinOf
  <2>3. PICK c \in Buckets : c = Min(fits) /\ ms <= LatencyBuckets[c]
    BY <2>2
  <2>4. \A b \in Buckets : c <= b => ms <= LatencyBuckets[b]
    BY <2>3, BucketBounds
  <2>5. \A b \in Buckets : ms <= LatencyBuckets[b] => c <= b
    BY <2>2, <2>3
  <2>6. c <= 10
    BY <2>3, BucketBounds
  <2> QED
    BY <2>1, <2>3, <2>4, <2>5, <2>6
<1> QED
  BY <1>2, <1>3

-----------------------------------------------------------------------------
(* Sums of rows.                                                            *)

Histogram(rows) == DOMAIN rows \subseteq Buckets /\ \A b \in DOMAIN rows : rows[b] \in Nat

LEMMA CountNat ==
    ASSUME NEW rows, Histogram(rows) PROVE \A i : CountIn(rows, i) \in Nat
  BY DEF Histogram, CountIn

(* The partial sums exist,                                                  *)
LEMMA SumsExist ==
    ASSUME NEW rows, Histogram(rows)
    PROVE  \E f \in [0..10 -> Nat] :
              f = [i \in 0..10 |-> IF i = 0 THEN 0 ELSE f[i - 1] + CountIn(rows, i)]
<1> DEFINE Sums(f, k) == \A i \in 0..k : f[i] = IF i = 0 THEN 0 ELSE f[i - 1] + CountIn(rows, i)
<1> DEFINE T == {k \in 0..10 : \E f \in [0..10 -> Nat] : Sums(f, k)}
<1>1. 0 \in T
  <2>1. PICK z \in [0..10 -> Nat] : z[0] = 0
    <3>1. [i \in 0..10 |-> 0] \in [0..10 -> Nat] /\ [i \in 0..10 |-> 0][0] = 0
      OBVIOUS
    <3> QED
      BY <3>1
  <2>2. Sums(z, 0)
    BY <2>1
  <2> QED
    BY <2>2
<1>2. ASSUME NEW k \in 1..10, k - 1 \in T PROVE k \in T
  <2>1. PICK f \in [0..10 -> Nat] : Sums(f, k - 1)
    BY <1>2
  <2> DEFINE g == [f EXCEPT ![k] = f[k - 1] + CountIn(rows, k)]
  <2>2. f[k - 1] \in Nat /\ CountIn(rows, k) \in Nat
    BY <2>1, CountNat
  <2>3. g \in [0..10 -> Nat]
    BY <2>1, <2>2
  <2>4. g[k] = f[k - 1] + CountIn(rows, k) /\ \A i \in 0..(k - 1) : g[i] = f[i]
    BY <2>1
  <2> HIDE DEF g
  <2>5. Sums(g, k)
    <3> SUFFICES ASSUME NEW i \in 0..k
                 PROVE  g[i] = IF i = 0 THEN 0 ELSE g[i - 1] + CountIn(rows, i)
      OBVIOUS
    <3>1. CASE i = k
      BY <2>4, <3>1
    <3>2. CASE i \in 0..(k - 1)
      BY <2>1, <2>4, <3>2
    <3> QED
      BY <3>1, <3>2
  <2> QED
    BY <2>3, <2>5
<1> HIDE DEF T
<1>3. 10 \in T
  BY <1>1, <1>2, Upwards
<1>4. PICK f \in [0..10 -> Nat] : Sums(f, 10)
  BY <1>3 DEF T
<1>5. f = [i \in 0..10 |-> IF i = 0 THEN 0 ELSE f[i - 1] + CountIn(rows, i)]
  BY <1>4
<1> QED
  BY <1>5

(* and Cum returns them.                                                    *)
LEMMA CumSums ==
    ASSUME NEW rows, Histogram(rows)
    PROVE  /\ Cum(rows, 0) = 0
           /\ \A i \in 1..10 : Cum(rows, i) = Cum(rows, i - 1) + CountIn(rows, i)
           /\ \A i \in 0..10 : Cum(rows, i) \in Nat
<1> DEFINE IsSums(f) ==
             f = [i \in 0..Len(LatencyBuckets) |-> IF i = 0 THEN 0 ELSE f[i - 1] + CountIn(rows, i)]
<1> DEFINE cum == CHOOSE f : IsSums(f)
<1>1. \A i : Cum(rows, i) = cum[i]
  BY DEF Cum
<1>2. IsSums(cum)
  <2>1. Len(LatencyBuckets) = 10
    BY BucketBounds
  <2>2. PICK g \in [0..10 -> Nat] :
          g = [i \in 0..10 |-> IF i = 0 THEN 0 ELSE g[i - 1] + CountIn(rows, i)]
    BY SumsExist
  <2>3. IsSums(g)
    BY <2>1, <2>2
  <2> HIDE DEF IsSums
  <2> QED
    BY <2>3, Zenon
<1> HIDE DEF cum
<1>3. cum[0] = 0 /\ \A i \in 1..10 : cum[i] = cum[i - 1] + CountIn(rows, i)
  BY <1>2, BucketBounds
<1>4. \A i \in 0..10 : cum[i] \in Nat
  <2> DEFINE T == {i \in 0..10 : cum[i] \in Nat}
  <2>1. 0 \in T /\ \A i \in 1..10 : i - 1 \in T => i \in T
    BY <1>3, CountNat
  <2> HIDE DEF T
  <2>2. \A i \in 0..10 : i \in T
    BY <2>1, Upwards
  <2> QED
    BY <2>2 DEF T
<1> QED
  BY <1>1, <1>3, <1>4

LEMMA CumMonotone ==
    ASSUME NEW rows, Histogram(rows)
    PROVE  \A i, j \in 0..10 : i <= j => Cum(rows, i) <= Cum(rows, j)
<1> SUFFICES ASSUME NEW i \in 0..10
             PROVE  \A j \in 0..10 : i <= j => Cum(rows, i) <= Cum(rows, j)
  OBVIOUS
<1> DEFINE T == {j \in 0..10 : i <= j => Cum(rows, i) <= Cum(rows, j)}
<1>1. 0 \in T
  BY CumSums
<1>2. ASSUME NEW j \in 1..10, j - 1 \in T PROVE j \in T
  <2>1. Cum(rows, j) = Cum(rows, j - 1) + CountIn(rows, j) /\ CountIn(rows, j) \in Nat
    BY CumSums, CountNat
  <2>2. Cum(rows, i) \in Nat /\ Cum(rows, j - 1) \in Nat /\ Cum(rows, j) \in Nat
    BY CumSums
  <2>3. CASE i <= j - 1
    BY <1>2, <2>1, <2>2, <2>3
  <2>4. CASE i = j
    BY <2>2, <2>4
  <2>5. CASE i > j
    BY <2>5
  <2> QED
    BY <2>3, <2>4, <2>5
<1> HIDE DEF T
<1>3. \A j \in 0..10 : j \in T
  BY <1>1, <1>2, Upwards
<1> QED
  BY <1>3 DEF T

(* The sum up to a bucket is that up to the last row with requests.         *)
LEMMA CumJumps ==
    ASSUME NEW rows, Histogram(rows)
    PROVE  \A i \in 0..10 : Cum(rows, i) = 0
              \/ \E a \in DOMAIN rows : a <= i /\ rows[a] > 0 /\ Cum(rows, a) = Cum(rows, i)
<1> DEFINE P(i) == Cum(rows, i) = 0
              \/ \E a \in DOMAIN rows : a <= i /\ rows[a] > 0 /\ Cum(rows, a) = Cum(rows, i)
<1> DEFINE T == {i \in 0..10 : P(i)}
<1>1. 0 \in T
  BY CumSums
<1>2. ASSUME NEW i \in 1..10, i - 1 \in T PROVE i \in T
  <2>1. Cum(rows, i) = Cum(rows, i - 1) + CountIn(rows, i) /\ Cum(rows, i - 1) \in Nat
    BY CumSums
  <2>2. CASE i \in DOMAIN rows /\ rows[i] > 0
    BY <2>2
  <2>3. CASE ~(i \in DOMAIN rows /\ rows[i] > 0)
    <3>1. Cum(rows, i) = Cum(rows, i - 1)
      BY <2>1, <2>3 DEF CountIn, Histogram
    <3>2. DOMAIN rows \subseteq 1..10
      BY BucketBounds DEF Histogram
    <3> QED
      BY <1>2, <3>1, <3>2
  <2> QED
    BY <2>2, <2>3
<1> HIDE DEF T
<1>3. \A i \in 0..10 : i \in T
  BY <1>1, <1>2, Upwards
<1> QED
  BY <1>3 DEF T

(* The sums after n requests are added to one bucket.                       *)
LEMMA CumAdds ==
    ASSUME NEW rows, NEW more, Histogram(rows), Histogram(more), NEW c \in Buckets, NEW n \in Nat,
           \A i \in Buckets : CountIn(more, i) = IF i = c THEN CountIn(rows, i) + n
                                                 ELSE CountIn(rows, i)
    PROVE  \A i \in 0..10 : Cum(more, i) = IF c <= i THEN Cum(rows, i) + n ELSE Cum(rows, i)
<1> DEFINE T == {i \in 0..10 :
                   Cum(more, i) = IF c <= i THEN Cum(rows, i) + n ELSE Cum(rows, i)}
<1>0. c \in 1..10
  BY BucketBounds
<1>1. 0 \in T
  BY <1>0, CumSums
<1>2. ASSUME NEW i \in 1..10, i - 1 \in T PROVE i \in T
  <2>1. /\ Cum(more, i) = Cum(more, i - 1) + CountIn(more, i)
        /\ Cum(rows, i) = Cum(rows, i - 1) + CountIn(rows, i)
        /\ Cum(rows, i - 1) \in Nat /\ Cum(more, i - 1) \in Nat
    BY CumSums
  <2>2. CountIn(rows, i) \in Nat
    BY CountNat
  <2>3. CountIn(more, i) = IF i = c THEN CountIn(rows, i) + n ELSE CountIn(rows, i)
    BY BucketBounds
  <2>4. Cum(more, i - 1) = IF c <= i - 1 THEN Cum(rows, i - 1) + n ELSE Cum(rows, i - 1)
    BY <1>2
  <2> QED
    BY <1>0, <2>1, <2>2, <2>3, <2>4
<1> HIDE DEF T
<1>3. \A i \in 0..10 : i \in T
  BY <1>1, <1>2, Upwards
<1> QED
  BY <1>3 DEF T

(* Rows that are left out because they are empty do not change the sums.    *)
LEMMA CumSame ==
    ASSUME NEW rows, NEW other, Histogram(rows), Histogram(other),
           \A i \in Buckets : CountIn(other, i) = CountIn(rows, i)
    PROVE  \A i \in 0..10 : Cum(other, i) = Cum(rows, i)
<1>1. \A i \in Buckets : CountIn(other, i) = IF i = 1 THEN CountIn(rows, i) + 0
                                             ELSE CountIn(rows, i)
  BY CountNat
<1>2. 1 \in Buckets
  BY BucketBounds
<1>3. \A i \in 0..10 : Cum(other, i) = IF 1 <= i THEN Cum(rows, i) + 0 ELSE Cum(rows, i)
  BY <1>1, <1>2, CumAdds
<1> QED
  BY <1>3, CumSums

-----------------------------------------------------------------------------
(* The ends of a row.                                                       *)

LEMMA LowerEnd ==
    ASSUME NEW rows, Histogram(rows), NEW b \in Buckets
    PROVE  /\ PrevUpper(rows, b) \in Nat /\ PrevUpper(rows, b) <= 5000
           /\ PrevUpper(rows, b) < LatencyBuckets[b]
           /\ \A a \in DOMAIN rows : a < b => LatencyBuckets[a] <= PrevUpper(rows, b)
<1> DEFINE before == {a \in DOMAIN rows : a < b}
<1>0. DOMAIN rows \subseteq 1..10 /\ b \in 1..10 /\ before \in SUBSET (0..10)
  BY BucketBounds DEF Histogram
<1>1. LatencyBuckets[b] \in Nat /\ LatencyBuckets[b] > 0
  BY <1>0, BucketBounds, InfAssumption
<1>2. CASE before = {}
  <2>1. PrevUpper(rows, b) = 0
    BY <1>2 DEF PrevUpper
  <2> QED
    BY <1>1, <1>2, <2>1
<1>3. CASE before # {}
  <2>1. PICK m : m = Max(before)
    OBVIOUS
  <2>2. m \in before /\ \A a \in before : a <= m
    BY <1>0, <1>3, <2>1, MaxOf
  <2>3. PrevUpper(rows, b) = LatencyBuckets[m]
    BY <1>3, <2>1 DEF PrevUpper
  <2>4. m \in 1..9 /\ m < b /\ m \in Buckets
    BY <1>0, <2>2, BucketBounds
  <2>5. /\ LatencyBuckets[m] \in Nat /\ LatencyBuckets[m] <= 5000
        /\ LatencyBuckets[m] < LatencyBuckets[b]
    BY <2>4, BucketBounds
  <2>6. ASSUME NEW a \in DOMAIN rows, a < b PROVE LatencyBuckets[a] <= LatencyBuckets[m]
    <3>1. a \in before /\ a \in Buckets
      BY <1>0, <2>6, BucketBounds
    <3>2. a = m \/ a < m
      BY <1>0, <2>2, <3>1
    <3> QED
      BY <2>4, <3>1, <3>2, BucketBounds
  <2> QED
    BY <2>3, <2>5, <2>6
<1> QED
  BY <1>2, <1>3

LEMMA UpperEnd ==
    ASSUME NEW rows, Histogram(rows), NEW b \in Buckets
    PROVE  /\ DisplayUpper(rows, b) \in Nat /\ DisplayUpper(rows, b) <= 25000
           /\ DisplayUpper(rows, b) <= LatencyBuckets[b]
           /\ PrevUpper(rows, b) < DisplayUpper(rows, b)
<1>1. PrevUpper(rows, b) \in Nat /\ PrevUpper(rows, b) <= 5000
  BY LowerEnd
<1>2. PrevUpper(rows, b) < LatencyBuckets[b] /\ LatencyBuckets[b] \in Nat
  BY LowerEnd, BucketBounds
<1>3. CASE b = 10
  <2>1. LatencyBuckets[b] = InfBucket
    BY <1>3, BucketBounds
  <2> QED
    BY <1>1, <1>2, <2>1, InfAssumption DEF DisplayUpper
<1>4. CASE b \in 1..9
  <2>1. LatencyBuckets[b] <= 5000
    BY <1>4, BucketBounds
  <2>2. DisplayUpper(rows, b) = LatencyBuckets[b]
    BY <1>2, <2>1, InfAssumption DEF DisplayUpper
  <2> QED
    BY <1>1, <1>2, <2>1, <2>2
<1> QED
  BY <1>3, <1>4, BucketBounds

-----------------------------------------------------------------------------
(* The row a percentile falls in.                                           *)

LEMMA Clamped ==
    /\ \A t \in Int : Clamp(t) \in Nat /\ Clamp(t) <= 100
    /\ \A s, t \in Int : s <= t => Clamp(s) <= Clamp(t)
  BY DEF Clamp

Rank(rows, t) == Clamp(t) * Total(rows)

Into(rows, t, b) == Rank(rows, t) - 100 * Cum(rows, b - 1)

Width(rows, b) == DisplayUpper(rows, b) - PrevUpper(rows, b)

(* With the rank above by e, b is the first row with requests that reaches  *)
(* it; the exact rank lies within that row.                                 *)
Hits(rows, t, e, b) ==
    /\ b \in DOMAIN rows /\ rows[b] > 0 /\ 100 * Cum(rows, b) >= Rank(rows, t) + e
    /\ \A a \in DOMAIN rows : rows[a] > 0 /\ 100 * Cum(rows, a) >= Rank(rows, t) + e => b <= a
    /\ Into(rows, t, b) \in Nat /\ Into(rows, t, b) <= 100 * rows[b]

(* p is a result of the walk that ends in row b.                            *)
Shows(rows, t, e, b, p) == Hits(rows, t, e, b) /\ p \in Interpolate(rows, b, Rank(rows, t))

LEMMA RankNat ==
    ASSUME NEW rows, Histogram(rows), NEW t \in Int
    PROVE  Total(rows) \in Nat /\ Rank(rows, t) \in Nat /\ Rank(rows, t) <= 100 * Total(rows)
<1>1. PICK k \in Nat : k = Total(rows)
  BY CumSums, BucketBounds DEF Total
<1>2. PICK c \in Nat : c = Clamp(t) /\ c <= 100
  BY Clamped
<1>3. c * k \in Nat /\ c * k <= 100 * k
  BY <1>1, <1>2
<1> QED
  BY <1>1, <1>2, <1>3 DEF Rank

(* A rank that rounding takes past the exact one is still within the total, *)
(* and only positive targets below 1 have one.                              *)
LEMMA ExcessFits ==
    ASSUME NEW rows, Histogram(rows), NEW t \in Int, NEW e \in Excess(t), Total(rows) # 0
    PROVE  /\ e \in {0, 1} /\ Rank(rows, t) + e <= 100 * Total(rows)
           /\ e = 1 => Clamp(t) = t /\ t > 0
<1>1. PICK k \in Nat : k = Total(rows) /\ k > 0
  BY RankNat
<1>2. CASE e = 0
  BY <1>2, RankNat
<1>3. CASE e # 0
  <2>1. t \in RoundedUp /\ e = 1
    BY <1>3 DEF Excess
  <2>2. t \in 1..99 /\ Clamp(t) = t
    BY <2>1, RoundedUpAssumption DEF Clamp
  <2>3. t * k <= 99 * k
    BY <1>1, <2>2
  <2> QED
    BY <1>1, <2>1, <2>2, <2>3 DEF Rank
<1> QED
  BY <1>2, <1>3

(* While there are requests every percentile falls in a row: the fallback   *)
(* to the largest finite bound is never needed.                             *)
LEMMA SomeRowHit ==
    ASSUME NEW rows, Histogram(rows), NEW t \in Int, NEW e \in Excess(t), Total(rows) # 0
    PROVE  \E b \in DOMAIN rows :
              Hits(rows, t, e, b) /\ Walk(rows, Rank(rows, t), e) = Interpolate(rows, b, Rank(rows, t))
<1>1. DOMAIN rows \subseteq 1..10 /\ \A b \in DOMAIN rows : rows[b] \in Nat
  BY BucketBounds DEF Histogram
<1>2. Total(rows) = Cum(rows, 10) /\ Total(rows) \in Nat
  BY RankNat, BucketBounds DEF Total
<1>3. PICK rank \in Nat : rank = Rank(rows, t) /\ rank + e <= 100 * Total(rows) /\ e \in {0, 1}
  BY RankNat, ExcessFits
<1> DEFINE R == Reached(rows, rank + e)
<1>4. R = {a \in DOMAIN rows : 100 * Cum(rows, a) >= rank + e /\ rows[a] > 0}
  BY DEF Reached
<1>5. R # {}
  <2>1. PICK a \in DOMAIN rows : rows[a] > 0 /\ Cum(rows, a) = Cum(rows, 10)
    BY <1>2, CumJumps
  <2> QED
    BY <1>2, <1>3, <1>4, <2>1
<1>6. R \in SUBSET Nat
  BY <1>1, <1>4
<1>7. PICK b : b = Min(R)
  OBVIOUS
<1>8. b \in R /\ \A a \in R : b <= a
  BY <1>5, <1>6, <1>7, MinOf
<1>9. Walk(rows, Rank(rows, t), e) = Interpolate(rows, b, Rank(rows, t))
  BY <1>3, <1>5, <1>7 DEF Walk
<1>10. b \in DOMAIN rows /\ b \in 1..10 /\ rows[b] > 0 /\ 100 * Cum(rows, b) >= rank + e
  BY <1>1, <1>4, <1>8
<1>11. /\ Cum(rows, b - 1) \in Nat /\ Cum(rows, b) \in Nat
       /\ Cum(rows, b) = Cum(rows, b - 1) + rows[b]
  BY <1>10, CumSums DEF CountIn
<1>12. 100 * Cum(rows, b - 1) <= rank
  <2>1. CASE Cum(rows, b - 1) = 0
    BY <1>3, <2>1
  <2>2. CASE Cum(rows, b - 1) # 0
    <3>1. b - 1 \in 0..10
      BY <1>10
    <3>2. PICK a \in DOMAIN rows : a <= b - 1 /\ rows[a] > 0 /\ Cum(rows, a) = Cum(rows, b - 1)
      BY <2>2, <3>1, CumJumps
    <3>3. a \notin R
      BY <1>1, <1>8, <1>10, <3>2
    <3> QED
      BY <1>3, <1>4, <1>11, <3>2, <3>3
  <2> QED
    BY <2>1, <2>2
<1>13. Into(rows, t, b) = rank - 100 * Cum(rows, b - 1)
  BY <1>3 DEF Into
<1>14. Into(rows, t, b) \in Nat /\ Into(rows, t, b) <= 100 * rows[b]
  BY <1>1, <1>3, <1>10, <1>11, <1>12, <1>13
<1>15. \A a \in DOMAIN rows : rows[a] > 0 /\ 100 * Cum(rows, a) >= Rank(rows, t) + e => b <= a
  BY <1>3, <1>4, <1>8
<1> QED
  BY <1>3, <1>9, <1>10, <1>14, <1>15 DEF Hits

(* Every result is shown from some row.                                     *)
LEMMA ResultShown ==
    ASSUME NEW rows, Histogram(rows), NEW t \in Int, Total(rows) # 0,
           NEW p \in PercentileFromBuckets(rows, t)
    PROVE  \E e \in Excess(t), b \in DOMAIN rows : Shows(rows, t, e, b, p)
<1>1. PICK e \in Excess(t) : p \in Walk(rows, Clamp(t) * Total(rows), e)
  BY DEF PercentileFromBuckets
<1>2. PICK b \in DOMAIN rows :
        Hits(rows, t, e, b) /\ Walk(rows, Rank(rows, t), e) = Interpolate(rows, b, Rank(rows, t))
  BY SomeRowHit
<1> QED
  BY <1>1, <1>2 DEF Shows, Rank

(* What is shown: the lower end of the row and a part of its width, or one  *)
(* less when the part is a whole number and positive.                       *)
ShownAs(rows, t, b, p, low, w, d, i, part) ==
    /\ low = PrevUpper(rows, b) /\ w = Width(rows, b) /\ d = 100 * rows[b]
    /\ i = Into(rows, t, b) /\ part = (i * w) \div d
    /\ low + w = DisplayUpper(rows, b) /\ part <= w
    /\ p = low + part \/ (p = low + part - 1 /\ part > 0 /\ part * d = i * w)

LEMMA ShownPart ==
    ASSUME NEW rows, Histogram(rows), NEW t \in Int, NEW e, NEW b, NEW p,
           Shows(rows, t, e, b, p)
    PROVE  \E low \in Nat, w \in Nat \ {0}, d \in Nat \ {0}, i \in Nat, part \in Nat :
              ShownAs(rows, t, b, p, low, w, d, i, part)
<1>1. b \in Buckets /\ rows[b] \in Nat \ {0}
  BY DEF Shows, Hits, Histogram
<1>2. PICK low \in Nat : low = PrevUpper(rows, b)
  BY <1>1, LowerEnd
<1>3. PICK high \in Nat : high = DisplayUpper(rows, b) /\ low < high
  BY <1>1, <1>2, UpperEnd
<1>4. PICK w \in Nat \ {0} : w = Width(rows, b) /\ w = high - low
  BY <1>2, <1>3 DEF Width
<1>5. PICK d \in Nat \ {0} : d = 100 * rows[b]
  BY <1>1
<1>6. PICK i \in Nat : i = Into(rows, t, b) /\ i <= d
  BY <1>5 DEF Shows, Hits
<1>7. (i * w) \div d \in 0..w
  BY <1>6, PartOfWidth
<1>8. PICK part \in Nat : part = (i * w) \div d /\ part <= w
  BY <1>7
<1> DEFINE Exact(l, x, v, z) ==
             IF (x * v) \div z > 0 /\ ((x * v) \div z) * z = x * v
             THEN {l + (x * v) \div z, (l + (x * v) \div z) - 1} ELSE {l + (x * v) \div z}
<1>9. Interpolate(rows, b, Rank(rows, t))
        = Exact(PrevUpper(rows, b), Into(rows, t, b), Width(rows, b), 100 * rows[b])
  BY Zenon DEF Interpolate, Width, Into
<1>10. p \in Exact(low, i, w, d)
  <2> HIDE DEF Exact
  <2> QED
    BY <1>2, <1>4, <1>5, <1>6, <1>9 DEF Shows
<1>11. p = low + part \/ (p = low + part - 1 /\ part > 0 /\ part * d = i * w)
  BY <1>8, <1>10
<1>12. low + w = DisplayUpper(rows, b)
  BY <1>2, <1>3, <1>4
<1>13. ShownAs(rows, t, b, p, low, w, d, i, part)
  BY <1>2, <1>4, <1>5, <1>6, <1>8, <1>11, <1>12 DEF ShownAs
<1> QED
  BY <1>13

(* The percentile lies within its row.                                      *)
LEMMA WithinRow ==
    ASSUME NEW rows, Histogram(rows), NEW t \in Int, NEW e, NEW b, NEW p,
           Shows(rows, t, e, b, p)
    PROVE  p \in Nat /\ PrevUpper(rows, b) <= p /\ p <= DisplayUpper(rows, b)
<1>1. PICK low \in Nat, w \in Nat \ {0}, d \in Nat \ {0}, i \in Nat, part \in Nat :
        ShownAs(rows, t, b, p, low, w, d, i, part)
  BY ShownPart
<1> QED
  BY <1>1 DEF ShownAs

LEMMA NoRequests ==
    ASSUME NEW rows, NEW t, Total(rows) = 0 PROVE PercentileFromBuckets(rows, t) = {0}
  BY DEF PercentileFromBuckets

(* What the dashboard can show.                                             *)
LEMMA PercentileInRange ==
    ASSUME NEW rows, Histogram(rows), NEW t \in Int, NEW p \in PercentileFromBuckets(rows, t)
    PROVE  p \in Nat /\ p <= 25000
<1>1. CASE Total(rows) = 0
  BY <1>1, NoRequests
<1>2. CASE Total(rows) # 0
  <2>1. PICK e \in Excess(t), b \in DOMAIN rows : Shows(rows, t, e, b, p)
    BY <1>2, ResultShown
  <2>2. b \in Buckets
    BY <2>1 DEF Histogram
  <2>3. DisplayUpper(rows, b) \in Nat /\ DisplayUpper(rows, b) <= 25000
    BY <2>2, UpperEnd
  <2>4. p \in Nat /\ p <= DisplayUpper(rows, b)
    BY <2>1, WithinRow
  <2> QED
    BY <2>3, <2>4
<1> QED
  BY <1>1, <1>2

(* A percentile that falls in an earlier row is no larger.                  *)
LEMMA EarlierRow ==
    ASSUME NEW rows, NEW more, Histogram(rows), Histogram(more), NEW s \in Int, NEW t \in Int,
           NEW e, NEW f, NEW a, NEW b, NEW p, NEW q,
           Shows(rows, s, e, a, p), Shows(more, t, f, b, q), a \in DOMAIN more, a < b
    PROVE  p \in Nat /\ q \in Nat /\ p <= q
<1>1. a \in Buckets /\ b \in Buckets
  BY DEF Shows, Hits, Histogram
<1>2. p \in Nat /\ p <= DisplayUpper(rows, a)
  BY WithinRow
<1>3. DisplayUpper(rows, a) \in Nat /\ DisplayUpper(rows, a) <= LatencyBuckets[a]
  BY <1>1, UpperEnd
<1>4. LatencyBuckets[a] \in Nat /\ LatencyBuckets[a] <= PrevUpper(more, b)
  BY <1>1, LowerEnd, BucketBounds
<1>5. PrevUpper(more, b) \in Nat
  BY <1>1, LowerEnd
<1>6. q \in Nat /\ PrevUpper(more, b) <= q
  BY WithinRow
<1> QED
  BY <1>2, <1>3, <1>4, <1>5, <1>6

(* Percentiles in the same row, at two places, are in the order of places   *)
(* but for the millisecond that truncation may take off, and quite in that  *)
(* order if the places are not the same.                                    *)
LEMMA SameRow ==
    ASSUME NEW rows, NEW more, Histogram(rows), Histogram(more), NEW s \in Int, NEW t \in Int,
           NEW e, NEW f, NEW b, NEW p, NEW q,
           Shows(rows, s, e, b, p), Shows(more, t, f, b, q),
           PrevUpper(more, b) = PrevUpper(rows, b),
           Into(rows, s, b) * (100 * more[b]) <= Into(more, t, b) * (100 * rows[b])
    PROVE  /\ p \in Nat /\ q \in Nat /\ p <= q + 1
           /\ Into(rows, s, b) * (100 * more[b]) # Into(more, t, b) * (100 * rows[b]) => p <= q
<1>1. Width(more, b) = Width(rows, b)
  BY DEF Width, DisplayUpper
<1>2. PICK low \in Nat, w \in Nat \ {0}, d \in Nat \ {0}, i \in Nat, x \in Nat :
        ShownAs(rows, s, b, p, low, w, d, i, x)
  BY ShownPart
<1>3. PICK low2 \in Nat, w2 \in Nat \ {0}, g \in Nat \ {0}, j \in Nat, y \in Nat :
        ShownAs(more, t, b, q, low2, w2, g, j, y)
  BY ShownPart
<1>4. low2 = low /\ w2 = w
  BY <1>1, <1>2, <1>3 DEF ShownAs
<1>5. /\ i = Into(rows, s, b) /\ d = 100 * rows[b] /\ x = (i * w) \div d
      /\ p = low + x \/ p = low + x - 1
  BY <1>2 DEF ShownAs
<1>6. /\ j = Into(more, t, b) /\ g = 100 * more[b] /\ y = (j * w) \div g
      /\ q = low + y \/ (q = low + y - 1 /\ y * g = j * w)
  BY <1>3, <1>4 DEF ShownAs
<1>7. i * g <= j * d
  BY <1>5, <1>6
<1>8. (i * w) \div d <= (j * w) \div g
  BY <1>7, PartsOrdered
<1>9. x <= y
  BY <1>5, <1>6, <1>8
<1>10. i * g # j * d /\ y * g = j * w => x < y
  BY <1>5, <1>6, <1>7, PartsApart
<1>11. Into(rows, s, b) * (100 * more[b]) # Into(more, t, b) * (100 * rows[b]) => i * g # j * d
  BY <1>5, <1>6
<1>12. p = low + x \/ p = low + x - 1
  BY <1>5
<1>13. q = low + y \/ (q = low + y - 1 /\ y * g = j * w)
  BY <1>6
<1>14. p <= q + 1
  BY <1>9, <1>12, <1>13
<1>15. i * g # j * d => p <= q
  <2>1. CASE q = low + y
    BY <1>9, <1>12, <2>1
  <2>2. CASE q = low + y - 1 /\ y * g = j * w
    BY <1>10, <1>12, <2>2
  <2> QED
    BY <1>13, <2>1, <2>2
<1>16. p \in Nat /\ q \in Nat
  BY WithinRow
<1> QED
  BY <1>11, <1>14, <1>15, <1>16

(* A higher target never gives a lower percentile.                          *)
LEMMA TargetsOrdered ==
    ASSUME NEW rows, Histogram(rows), NEW s \in Int, NEW t \in Int, Clamp(s) < Clamp(t),
           NEW p \in PercentileFromBuckets(rows, s), NEW q \in PercentileFromBuckets(rows, t)
    PROVE  p <= q
<1>1. CASE Total(rows) = 0
  BY <1>1, NoRequests
<1>2. CASE Total(rows) # 0
  <2>1. PICK e \in Excess(s), a \in DOMAIN rows : Shows(rows, s, e, a, p)
    BY <1>2, ResultShown
  <2>2. PICK f \in Excess(t), b \in DOMAIN rows : Shows(rows, t, f, b, q)
    BY <1>2, ResultShown
  <2>3. e \in {0, 1} /\ f \in {0, 1}
    BY <1>2, ExcessFits
  <2>4. Rank(rows, s) \in Nat /\ Rank(rows, t) \in Nat /\ Rank(rows, s) + 1 <= Rank(rows, t)
    <3>1. PICK k \in Nat : k = Total(rows) /\ k >= 1
      BY <1>2, RankNat
    <3>2. PICK x \in Nat, y \in Nat : x = Clamp(s) /\ y = Clamp(t) /\ x + 1 <= y
      BY Clamped
    <3>3. (x + 1) * k <= y * k /\ x * k \in Nat /\ y * k \in Nat
      BY <3>1, <3>2
    <3>4. (x + 1) * k = x * k + k
      OBVIOUS
    <3> QED
      BY <3>1, <3>2, <3>3, <3>4 DEF Rank
  <2>5. a \in 1..10 /\ b \in 1..10 /\ rows[a] \in Nat /\ rows[a] > 0
    BY <2>1, BucketBounds DEF Histogram, Shows, Hits
  <2>6. Cum(rows, b) \in Nat /\ Cum(rows, a - 1) \in Nat
    BY <2>5, CumSums
  <2>7. a <= b
    <3>1. rows[b] > 0 /\ 100 * Cum(rows, b) >= Rank(rows, t) + f
      BY <2>2 DEF Shows, Hits
    <3>2. 100 * Cum(rows, b) >= Rank(rows, s) + e
      BY <2>3, <2>4, <2>6, <3>1
    <3> QED
      BY <2>1, <3>1, <3>2 DEF Shows, Hits
  <2>8. CASE a < b
    BY <2>1, <2>2, <2>8, EarlierRow
  <2>9. CASE a = b
    <3>1. PICK i \in Nat, j \in Nat : i = Into(rows, s, a) /\ j = Into(rows, t, a)
      BY <2>1, <2>2, <2>9 DEF Shows, Hits
    <3>2. i < j
      BY <2>4, <2>6, <3>1 DEF Into
    <3>3. PICK d \in Nat : d = 100 * rows[a] /\ d > 0
      BY <2>5
    <3>4. i * d < j * d
      BY <3>1, <3>2, <3>3
    <3>5. /\ Into(rows, s, a) * (100 * rows[a]) <= Into(rows, t, a) * (100 * rows[a])
          /\ Into(rows, s, a) * (100 * rows[a]) # Into(rows, t, a) * (100 * rows[a])
      BY <3>1, <3>3, <3>4
    <3>6. Shows(rows, t, f, a, q)
      BY <2>2, <2>9
    <3> QED
      BY <2>1, <3>5, <3>6, SameRow
  <2> QED
    BY <2>5, <2>7, <2>8, <2>9
<1> QED
  BY <1>1, <1>2

(* In the last row with requests, the fraction that lies below a percentile *)
(* does not fall when the row grows.                                        *)
LEMMA LastRowGrows ==
    ASSUME NEW k \in Nat, k <= 100, NEW below \in Nat, NEW size \in Nat, NEW n \in Nat
    PROVE  (k * (below + size) - 100 * below) * (100 * (size + n))
             <= (k * ((below + size) + n) - 100 * below) * (100 * size)
<1>1. PICK r \in Nat : r = 100 - k
  OBVIOUS
<1>2. k * (below + size) - 100 * below = k * size - r * below
  BY <1>1
<1>3. k * ((below + size) + n) - 100 * below = k * (size + n) - r * below
  BY <1>1
<1>4. (k * size - r * below) * (size + n)
        = k * size * (size + n) - r * below * size - r * below * n
  OBVIOUS
<1>5. (k * (size + n) - r * below) * size = k * size * (size + n) - r * below * size
  OBVIOUS
<1>6. r * below * n \in Nat
  OBVIOUS
<1>7. PICK x \in Int, y \in Int :
        /\ x = (k * size - r * below) * (size + n)
        /\ y = (k * (size + n) - r * below) * size
        /\ x <= y
  BY <1>4, <1>5, <1>6
<1>8. (k * size - r * below) * (100 * (size + n)) = 100 * x
  BY <1>7
<1>9. (k * (size + n) - r * below) * (100 * size) = 100 * y
  BY <1>7
<1> QED
  BY <1>2, <1>3, <1>7, <1>8, <1>9

(* Requests added to a bucket at or beyond all rows with requests lower no  *)
(* percentile by more than truncation does.                                 *)
LEMMA SlowerRows ==
    ASSUME NEW rows, NEW more, Histogram(rows), Histogram(more), NEW t \in Int,
           NEW c \in Buckets, NEW n \in Nat, n > 0,
           DOMAIN rows \subseteq DOMAIN more, DOMAIN more \subseteq DOMAIN rows \cup {c},
           \A i \in Buckets : CountIn(more, i) = IF i = c THEN CountIn(rows, i) + n
                                                 ELSE CountIn(rows, i),
           \A b \in DOMAIN rows : rows[b] > 0 => b <= c,
           NEW p \in PercentileFromBuckets(rows, t), NEW q \in PercentileFromBuckets(more, t)
    PROVE  p <= q + 1
<1>1. CASE Total(rows) = 0
  <2>1. p = 0
    BY <1>1, NoRequests
  <2>2. q \in Nat
    BY PercentileInRange
  <2> QED
    BY <2>1, <2>2
<1>2. CASE Total(rows) # 0
  <2>1. \A i \in 0..10 : /\ Cum(rows, i) \in Nat /\ Cum(more, i) \in Nat
                         /\ Cum(more, i) = IF c <= i THEN Cum(rows, i) + n ELSE Cum(rows, i)
    BY CumAdds, CumSums
  <2>2. c \in 1..10 /\ DOMAIN rows \subseteq 1..10 /\ DOMAIN more \subseteq 1..10
    BY BucketBounds DEF Histogram
  <2>3. /\ Total(rows) = Cum(rows, 10) /\ Total(more) = Cum(rows, 10) + n
        /\ Cum(rows, 10) \in Nat
    BY <2>1, <2>2, BucketBounds DEF Total
  <2>4. Total(more) # 0
    BY <1>2, <2>3
  <2>5. PICK e \in Excess(t), a \in DOMAIN rows : Shows(rows, t, e, a, p)
    BY <1>2, ResultShown
  <2>6. PICK f \in Excess(t), b \in DOMAIN more : Shows(more, t, f, b, q)
    BY <2>4, ResultShown
  <2>7. a \in 1..10 /\ b \in 1..10 /\ a <= c /\ a \in DOMAIN more /\ a \in Buckets /\ b \in Buckets
    BY <2>2, <2>5, <2>6, BucketBounds DEF Shows, Hits
  <2>8. PICK k \in Nat : k = Clamp(t) /\ k <= 100
    BY Clamped
  <2>9. /\ Rank(rows, t) = k * Cum(rows, 10) /\ Rank(more, t) = k * (Cum(rows, 10) + n)
        /\ Rank(rows, t) \in Nat /\ Rank(more, t) \in Nat /\ Rank(rows, t) <= Rank(more, t)
        /\ e \in {0, 1} /\ f \in {0, 1} /\ Rank(rows, t) + e <= Rank(more, t)
    <3>1. Rank(rows, t) = k * Cum(rows, 10) /\ Rank(more, t) = k * (Cum(rows, 10) + n)
      BY <2>3, <2>8 DEF Rank
    <3>2. PICK x \in Nat : x = Cum(rows, 10)
      BY <2>3
    <3>3. k * x \in Nat /\ k * n \in Nat /\ k * (x + n) = k * x + k * n
      BY <3>2
    <3>4. e \in {0, 1} /\ f \in {0, 1} /\ (e = 1 => k > 0)
      BY <1>2, <2>4, <2>8, ExcessFits
    <3>5. k > 0 => k * n >= 1
      OBVIOUS
    <3> QED
      BY <3>1, <3>2, <3>3, <3>4, <3>5
  <2>10. ~(b < a)
    <3> SUFFICES ASSUME b < a PROVE FALSE
      OBVIOUS
    <3>1. b < c /\ b # c
      BY <2>2, <2>7
    <3>2. b \in DOMAIN rows /\ rows[b] = more[b]
      BY <2>6, <2>7, <3>1 DEF CountIn
    <3>3. Cum(more, b) = Cum(rows, b) /\ Cum(rows, b) \in Nat
      BY <2>1, <2>2, <2>7, <3>1
    <3>4. rows[b] > 0 /\ 100 * Cum(rows, b) >= Rank(rows, t) + e
      BY <2>6, <2>9, <3>2, <3>3 DEF Shows, Hits
    <3>5. a <= b
      BY <2>5, <3>2, <3>4 DEF Shows, Hits
    <3> QED
      BY <2>7, <3>5
  <2>11. CASE a < b
    <3>1. p \in Nat /\ q \in Nat /\ p <= q
      BY <2>5, <2>6, <2>7, <2>11, EarlierRow
    <3> QED
      BY <3>1
  <2>12. CASE a = b
    <3>1. Shows(more, t, f, a, q)
      BY <2>6, <2>12
    <3>2. {x \in DOMAIN more : x < a} = {x \in DOMAIN rows : x < a}
      BY <2>2, <2>7
    <3>3. PrevUpper(more, a) = PrevUpper(rows, a)
      BY <3>2 DEF PrevUpper
    <3>4. PICK below \in Nat : below = Cum(rows, a - 1) /\ below = Cum(more, a - 1)
      BY <2>1, <2>2, <2>7
    <3>5. PICK size \in Nat : size = rows[a]
      BY <2>5 DEF Histogram
    <3>6. /\ Into(rows, t, a) = k * Cum(rows, 10) - 100 * below
          /\ Into(more, t, a) = k * (Cum(rows, 10) + n) - 100 * below
      BY <2>9, <3>4 DEF Into
    <3>7. Into(rows, t, a) * (100 * more[a]) <= Into(more, t, a) * (100 * rows[a])
      <4>1. CASE a = c
        <5>1. more[a] = size + n
          BY <2>5, <2>7, <3>5, <4>1 DEF CountIn
        <5>2. Cum(rows, 10) = below + size
          <6>1. Cum(rows, a) = below + size
            BY <2>5, <2>7, <3>4, <3>5, CumSums DEF CountIn
          <6>2. PICK z \in DOMAIN rows : rows[z] > 0 /\ Cum(rows, z) = Cum(rows, 10)
            BY <1>2, <2>3, CumJumps
          <6>3. z \in 0..10 /\ z <= a
            BY <2>2, <4>1, <6>2
          <6>4. Cum(rows, z) <= Cum(rows, a) /\ Cum(rows, a) <= Cum(rows, 10)
            BY <2>7, <6>3, CumMonotone
          <6> QED
            BY <2>1, <2>7, <6>1, <6>2, <6>4
        <5>3. (k * (below + size) - 100 * below) * (100 * (size + n))
                <= (k * ((below + size) + n) - 100 * below) * (100 * size)
          BY <2>8, LastRowGrows
        <5> QED
          BY <3>5, <3>6, <5>1, <5>2, <5>3
      <4>2. CASE a # c
        <5>1. more[a] = size
          BY <2>5, <2>7, <3>5, <4>2 DEF CountIn
        <5>2. PICK i \in Nat, j \in Nat : i = Into(rows, t, a) /\ j = Into(more, t, a)
          BY <2>5, <3>1 DEF Shows, Hits
        <5>3. i <= j
          BY <2>9, <3>4, <5>2 DEF Into
        <5>4. i * (100 * size) <= j * (100 * size)
          BY <5>3
        <5> QED
          BY <3>5, <5>1, <5>2, <5>4
      <4> QED
        BY <4>1, <4>2
    <3> QED
      BY <2>5, <3>1, <3>3, <3>7, SameRow
  <2> QED
    BY <2>7, <2>10, <2>11, <2>12
<1> QED
  BY <1>1, <1>2

-----------------------------------------------------------------------------
(* The inductive invariant.                                                 *)

Shapes ==
    /\ count \in [Buckets -> Nat]
    /\ atMost \in [Latencies -> Nat]
    /\ requests \in Nat
    /\ batches \in 0..MaxBatches

(* ms belongs in bucket b or in an earlier one.                             *)
Fits(ms, b) == ms <= LatencyBuckets[b] \/ b = 10

(* The buckets and the record of latencies agree: a latency's requests are  *)
(* in the buckets up to its own, and what is in the buckets up to one is    *)
(* what some latency of these buckets has, the slowest that was recorded.   *)
Linked ==
    /\ Total(count) = requests
    /\ \A x, y \in Latencies : x <= y => atMost[x] <= atMost[y]
    /\ \A x \in Latencies, b \in Buckets : Fits(x, b) => atMost[x] <= Cum(count, b)
    /\ \A b \in Buckets : Cum(count, b) > 0 =>
          \E y \in Latencies : Fits(y, b) /\ atMost[y] = Cum(count, b)

Inv == Shapes /\ Linked

LEMMA CountIsHistogram ==
    ASSUME NEW f \in [Buckets -> Nat]
    PROVE  Histogram(f) /\ \A i \in Buckets : CountIn(f, i) = f[i]
  BY DEF Histogram, CountIn

LEMMA InitInv == Init => Inv
<1> SUFFICES ASSUME Init PROVE Inv
  OBVIOUS
<1>1. Shapes
  BY MaxBatchesAssumption DEF Init, Shapes
<1>2. Histogram(count) /\ \A i \in DOMAIN count : count[i] = 0
  BY <1>1, CountIsHistogram DEF Init, Shapes
<1>3. \A i \in 0..10 : Cum(count, i) = 0
  BY <1>2, CumJumps
<1>4. Total(count) = requests
  BY <1>3, BucketBounds DEF Total, Init
<1>5. \A b \in Buckets : Cum(count, b) = 0
  BY <1>3, BucketBounds
<1>6. \A x \in Latencies : atMost[x] = 0
  BY DEF Init
<1> QED
  BY <1>1, <1>4, <1>5, <1>6 DEF Inv, Linked

(* What a batch changes.                                                    *)
LEMMA RecordCum ==
    ASSUME Shapes, NEW ms \in Latencies, NEW n \in BatchSizes, Record(ms, n)
    PROVE  /\ n \in Nat /\ n > 0
           /\ Histogram(count) /\ Histogram(count')
           /\ count' \in [Buckets -> Nat]
           /\ BucketForLatency(ms) \in Buckets
           /\ \A i \in Buckets : count'[i] = IF i = BucketForLatency(ms) THEN count[i] + n
                                             ELSE count[i]
           /\ \A i \in 0..10 : /\ Cum(count, i) \in Nat
                               /\ Cum(count', i) = IF BucketForLatency(ms) <= i
                                                   THEN Cum(count, i) + n ELSE Cum(count, i)
<1>1. n \in Nat /\ n > 0 /\ ms \in Nat
  BY BatchAssumption, LatenciesAssumption
<1>2. PICK c \in Buckets : c = BucketForLatency(ms)
  BY <1>1, BucketFound
<1>3. count \in [Buckets -> Nat] /\ count' = [count EXCEPT ![c] = count[c] + n]
  BY <1>2 DEF Shapes, Record
<1>4. /\ count' \in [Buckets -> Nat]
      /\ \A i \in Buckets : count'[i] = IF i = c THEN count[i] + n ELSE count[i]
  BY <1>1, <1>3
<1>5. /\ Histogram(count) /\ Histogram(count')
      /\ \A i \in Buckets : CountIn(count, i) = count[i] /\ CountIn(count', i) = count'[i]
  BY <1>3, <1>4, CountIsHistogram
<1>6. \A i \in 0..10 : Cum(count', i) = IF c <= i THEN Cum(count, i) + n ELSE Cum(count, i)
  <2>1. \A i \in Buckets : CountIn(count', i) = IF i = c THEN CountIn(count, i) + n
                                                ELSE CountIn(count, i)
    BY <1>4, <1>5
  <2> QED
    BY <1>1, <1>5, <2>1, CumAdds
<1>7. \A i \in 0..10 : Cum(count, i) \in Nat
  BY <1>5, CumSums
<1> QED
  BY <1>1, <1>2, <1>4, <1>5, <1>6, <1>7

LEMMA RecordInv ==
    ASSUME Inv, NEW ms \in Latencies, NEW n \in BatchSizes, Record(ms, n)
    PROVE  Inv'
<1>0. Shapes /\ Linked /\ ms \in Nat /\ \A x \in Latencies : x \in Nat /\ atMost[x] \in Nat
  BY LatenciesAssumption DEF Inv, Shapes
<1>1. /\ n \in Nat /\ n > 0 /\ count' \in [Buckets -> Nat]
      /\ \A i \in 0..10 : /\ Cum(count, i) \in Nat
                          /\ Cum(count', i) = IF BucketForLatency(ms) <= i
                                              THEN Cum(count, i) + n ELSE Cum(count, i)
  BY <1>0, RecordCum
<1>2. \A b \in Buckets : /\ Cum(count, b) \in Nat
                         /\ Cum(count', b) = IF Fits(ms, b) THEN Cum(count, b) + n
                                             ELSE Cum(count, b)
  BY <1>0, <1>1, BucketFound, BucketBounds DEF Fits
<1>3. \A x \in Latencies : atMost'[x] = IF ms <= x THEN atMost[x] + n ELSE atMost[x]
  BY DEF Record
<1>4. Shapes'
  <2>1. atMost' \in [Latencies -> Nat]
    BY <1>0, <1>1 DEF Record
  <2>2. requests' \in Nat /\ batches' \in 0..MaxBatches
    BY <1>0, <1>1, MaxBatchesAssumption DEF Shapes, Record
  <2> QED
    BY <1>1, <2>1, <2>2 DEF Shapes, Buckets, LatencyBuckets
<1>5. Total(count') = requests'
  <2>1. BucketForLatency(ms) <= 10
    BY <1>0, BucketFound, BucketBounds
  <2>2. Total(count') = Cum(count', 10) /\ Total(count) = Cum(count, 10)
    BY BucketBounds DEF Total
  <2> QED
    BY <1>0, <1>1, <2>1, <2>2 DEF Linked, Record
<1>6. \A x, y \in Latencies : x <= y => atMost'[x] <= atMost'[y]
  <2> SUFFICES ASSUME NEW x \in Latencies, NEW y \in Latencies, x <= y
               PROVE  atMost'[x] <= atMost'[y]
    OBVIOUS
  <2>1. atMost[x] <= atMost[y]
    BY <1>0 DEF Linked
  <2>2. ms <= x => ms <= y
    BY <1>0
  <2> QED
    BY <1>0, <1>1, <1>3, <2>1, <2>2
<1>7. ASSUME NEW x \in Latencies, NEW b \in Buckets, Fits(x, b)
      PROVE  atMost'[x] <= Cum(count', b)
  <2>1. atMost[x] <= Cum(count, b)
    BY <1>0, <1>7 DEF Linked
  <2>2. ms <= x => Fits(ms, b)
    BY <1>0, <1>7, BucketBounds DEF Fits
  <2> QED
    BY <1>0, <1>1, <1>2, <1>3, <2>1, <2>2
<1>8. ASSUME NEW b \in Buckets, Cum(count', b) > 0
      PROVE  \E y \in Latencies : Fits(y, b) /\ atMost'[y] = Cum(count', b)
  <2>1. CASE ~Fits(ms, b)
    <3>1. Cum(count', b) = Cum(count, b)
      BY <1>2, <2>1
    <3>2. PICK y \in Latencies : Fits(y, b) /\ atMost[y] = Cum(count, b)
      BY <1>0, <1>8, <3>1 DEF Linked
    <3>3. ~(ms <= y)
      BY <1>0, <2>1, <3>2, BucketBounds DEF Fits
    <3> QED
      BY <1>3, <3>1, <3>2, <3>3
  <2>2. CASE Fits(ms, b) /\ \E y \in Latencies : ms <= y /\ Fits(y, b) /\ atMost[y] = Cum(count, b)
    BY <1>2, <1>3, <2>2
  <2>3. CASE Fits(ms, b) /\ ~\E y \in Latencies : ms <= y /\ Fits(y, b) /\ atMost[y] = Cum(count, b)
    <3>1. atMost[ms] <= Cum(count, b)
      BY <1>0, <2>3 DEF Linked
    <3>2. atMost[ms] = Cum(count, b)
      <4>1. CASE Cum(count, b) = 0
        BY <1>0, <3>1, <4>1
      <4>2. CASE Cum(count, b) # 0
        <5>1. Cum(count, b) > 0
          BY <1>2, <4>2
        <5>2. PICK y \in Latencies : Fits(y, b) /\ atMost[y] = Cum(count, b)
          BY <1>0, <5>1 DEF Linked
        <5>3. y <= ms
          BY <1>0, <2>3, <5>2
        <5>4. atMost[y] <= atMost[ms]
          BY <1>0, <5>3 DEF Linked
        <5> QED
          BY <1>0, <3>1, <5>2, <5>4
      <4> QED
        BY <4>1, <4>2
    <3> QED
      BY <1>0, <2>3, <3>2
  <2> QED
    BY <2>1, <2>2, <2>3
<1>9. Linked'
  BY <1>5, <1>6, <1>7, <1>8 DEF Linked, Fits, Buckets, LatencyBuckets, Total
<1> QED
  BY <1>4, <1>9 DEF Inv

LEMMA NextInv == Inv /\ [Next]_vars => Inv'
<1> SUFFICES ASSUME Inv, [Next]_vars PROVE Inv'
  OBVIOUS
<1>1. CASE \E ms \in Latencies, n \in BatchSizes : Record(ms, n)
  BY <1>1, RecordInv
<1>2. CASE Full \/ UNCHANGED vars
  <2>1. UNCHANGED vars
    BY <1>2 DEF Full
  <2> QED
    BY <2>1 DEF vars, Inv, Shapes, Linked, Total
<1> QED
  BY <1>1, <1>2 DEF Next

(* The invariant holds throughout.                                          *)
THEOREM Invariance == Spec => []Inv
<1> QED
  BY InitInv, NextInv, PTL DEF Spec

(* Both kinds of rows are histograms with the same sums.                    *)
LEMMA RowsOf ==
    ASSUME NEW f \in [Buckets -> Nat]
    PROVE  LET some == Restrict(f, {b \in Buckets : f[b] > 0})
           IN  /\ Histogram(f) /\ Histogram(some)
               /\ DOMAIN some = {b \in Buckets : f[b] > 0}
               /\ \A b \in DOMAIN some : some[b] = f[b]
               /\ \A i \in Buckets : CountIn(some, i) = CountIn(f, i)
               /\ Total(some) = Total(f)
<1> DEFINE some == Restrict(f, {b \in Buckets : f[b] > 0})
<1>1. /\ DOMAIN some = {b \in Buckets : f[b] > 0}
      /\ \A b \in DOMAIN some : some[b] = f[b]
  BY DEF Restrict
<1> HIDE DEF some
<1>2. Histogram(f) /\ Histogram(some)
  BY <1>1 DEF Histogram
<1>3. \A i \in Buckets : CountIn(some, i) = CountIn(f, i)
  BY <1>1 DEF CountIn
<1>4. Total(some) = Total(f)
  BY <1>2, <1>3, CumSame, BucketBounds DEF Total
<1> QED
  BY <1>1, <1>2, <1>3, <1>4 DEF some

LEMMA BothHistograms ==
    ASSUME Shapes
    PROVE  /\ Histogram(AllRows) /\ Histogram(NonEmptyRows)
           /\ Total(NonEmptyRows) = Total(AllRows)
  BY RowsOf DEF Shapes, AllRows, NonEmptyRows

(* The counts have their shapes, every request is counted in one bucket,    *)
(* and no percentile is below 0 or above 25 seconds, whatever target is     *)
(* asked for: PercentileFromBuckets never shows the infinity bucket's       *)
(* bound.                                                                   *)
THEOREM TypeCorrect == Spec => []TypeOK
<1>1. Inv => TypeOK
  <2> SUFFICES ASSUME Inv PROVE TypeOK
    OBVIOUS
  <2>1. Shapes /\ Total(count) = requests
    BY DEF Inv, Linked
  <2>2. /\ Histogram(AllRows) /\ Histogram(NonEmptyRows)
        /\ Total(AllRows) = requests /\ Total(NonEmptyRows) = requests
    BY <2>1, BothHistograms DEF AllRows
  <2>3. ASSUME NEW t \in Targets, NEW rows \in {AllRows, NonEmptyRows}
        PROVE  PercentileFromBuckets(rows, t) \subseteq 0..MaxDisplayed
    <3>1. Histogram(rows) /\ t \in Int
      BY <2>2, TargetsAssumption
    <3>2. \A p \in PercentileFromBuckets(rows, t) :
            p \in Nat /\ p <= MaxDisplayed /\ MaxDisplayed \in Nat
      BY <3>1, PercentileInRange DEF MaxDisplayed
    <3> QED
      BY <3>2
  <2> QED
    BY <2>1, <2>2, <2>3 DEF Shapes, TypeOK
<1> QED
  BY <1>1, Invariance, PTL

(* The interpolated percentile lies between the bucket bounds that enclose  *)
(* the nearest-rank percentile of the requests themselves; a target whose   *)
(* float64 is above it may, from a rank on a bucket's end, go on to the     *)
(* bucket of the next slower request, and to no other.                      *)
THEOREM RightBucket == Spec => []InRightBucket
<1>1. Inv => InRightBucket
  <2> SUFFICES ASSUME Inv, requests > 0, NEW t \in Targets,
                      NEW p \in PercentileFromBuckets(AllRows, t)
               PROVE  \E e \in Excess(t) : SameBucket(p, NearestRank(t, e))
    BY DEF InRightBucket
  <2>1. /\ Histogram(count) /\ t \in Int /\ DOMAIN count = Buckets
        /\ \A x \in Latencies : x \in Nat /\ atMost[x] \in Nat
    BY CountIsHistogram, TargetsAssumption, LatenciesAssumption DEF Inv, Shapes
  <2>2. /\ requests \in Nat /\ Total(count) = requests /\ Cum(count, 10) = requests
        /\ \A i \in 0..10 : Cum(count, i) \in Nat
    BY <2>1, CumSums, BucketBounds DEF Inv, Shapes, Linked, Total
  <2>3. PICK e \in Excess(t), i \in DOMAIN count : Shows(count, t, e, i, p)
    BY <2>1, <2>2, ResultShown DEF AllRows
  <2>4. PICK rank \in Nat : /\ rank = Rank(count, t) + e
                            /\ rank = Clamp(t) * requests + e
                            /\ rank <= 100 * requests
    BY <2>1, <2>2, RankNat, ExcessFits DEF Rank
  <2> DEFINE S == {ms \in Latencies : atMost[ms] > 0 /\ 100 * atMost[ms] >= rank}
  <2>5. PICK x : x = NearestRank(t, e)
    OBVIOUS
  <2>6. x = Min(S)
    BY <2>4, <2>5 DEF NearestRank
  <2>7. S \in SUBSET Nat
    BY <2>1
  <2>8. S # {}
    <3>1. PICK y \in Latencies : atMost[y] = Cum(count, 10)
      BY <2>2, BucketBounds DEF Inv, Linked
    <3> QED
      BY <2>2, <2>4, <3>1
  <2>9. x \in S /\ \A y \in S : x <= y
    BY <2>6, <2>7, <2>8, MinOf
  <2>10. SUFFICES ASSUME NEW b \in Buckets
                  PROVE  IF x <= LatencyBuckets[b] THEN p <= LatencyBuckets[b]
                         ELSE LatencyBuckets[b] <= p \/ LatencyBuckets[b] = InfBucket
    BY <2>5 DEF SameBucket
  <2>11. /\ i \in 1..10 /\ i \in Buckets /\ b \in 1..10 /\ count[i] \in Nat
         /\ LatencyBuckets[i] \in Nat /\ LatencyBuckets[b] \in Nat /\ x \in Nat
    BY <2>1, <2>9, <2>3, BucketBounds DEF Histogram
  <2>12. p \in Nat /\ PrevUpper(count, i) <= p /\ p <= DisplayUpper(count, i)
    BY <2>1, <2>3, WithinRow
  <2>13. ASSUME x <= LatencyBuckets[b] PROVE p <= LatencyBuckets[b]
    <3>1. atMost[x] > 0 /\ 100 * atMost[x] >= rank /\ x \in Latencies
      BY <2>9
    <3>2. atMost[x] <= Cum(count, b)
      BY <2>13, <3>1 DEF Inv, Linked, Fits
    <3>3. Cum(count, b) \in Nat /\ Cum(count, b) > 0 /\ 100 * Cum(count, b) >= rank
      BY <2>1, <2>2, <2>11, <3>1, <3>2
    <3>4. PICK a \in DOMAIN count : a <= b /\ count[a] > 0 /\ Cum(count, a) = Cum(count, b)
      BY <2>1, <2>11, <3>3, CumJumps
    <3>5. i <= a
      BY <2>4, <2>3, <3>3, <3>4 DEF Shows, Hits
    <3>6. i = b \/ i < b
      BY <2>1, <2>11, <3>4, <3>5, BucketBounds
    <3>7. LatencyBuckets[i] <= LatencyBuckets[b]
      BY <2>11, <3>6, BucketBounds
    <3>8. DisplayUpper(count, i) \in Nat /\ DisplayUpper(count, i) <= LatencyBuckets[i]
      BY <2>1, <2>11, UpperEnd
    <3> QED
      BY <2>11, <2>12, <3>7, <3>8
  <2>14. ASSUME ~(x <= LatencyBuckets[b]), b # 10 PROVE LatencyBuckets[b] <= p
    <3>1. b < i
      <4> SUFFICES ASSUME i <= b PROVE FALSE
        BY <2>11
      <4>1. 100 * Cum(count, i) >= rank /\ count[i] > 0
        BY <2>4, <2>3 DEF Shows, Hits
      <4>2. Cum(count, i) > 0
        <5>1. Cum(count, i) = Cum(count, i - 1) + count[i] /\ Cum(count, i - 1) \in Nat
          BY <2>1, <2>3, <2>11, CumSums DEF CountIn
        <5> QED
          BY <2>11, <4>1, <5>1
      <4>3. PICK y \in Latencies : Fits(y, i) /\ atMost[y] = Cum(count, i)
        BY <2>11, <4>2 DEF Inv, Linked
      <4>4. y \in S
        BY <4>1, <4>2, <4>3
      <4>5. y <= LatencyBuckets[i] /\ y \in Nat /\ x <= y
        BY <2>1, <2>9, <2>11, <2>14, <4>3, <4>4 DEF Fits
      <4>6. i = b \/ i < b
        BY <2>11
      <4>7. LatencyBuckets[i] <= LatencyBuckets[b]
        BY <2>11, <4>6, BucketBounds
      <4> QED
        BY <2>11, <2>14, <4>5, <4>7
    <3>2. LatencyBuckets[b] <= PrevUpper(count, i) /\ PrevUpper(count, i) \in Nat
      BY <2>1, <2>11, <3>1, LowerEnd
    <3> QED
      BY <2>11, <2>12, <3>2
  <2>15. b = 10 => LatencyBuckets[b] = InfBucket
    BY BucketBounds
  <2> QED
    BY <2>13, <2>14, <2>15
<1> QED
  BY <1>1, Invariance, PTL

(* A higher percentile of one histogram is never the smaller number, with   *)
(* rows for empty buckets or without, however the two are rounded.          *)
THEOREM Ordered == Spec => []PercentilesOrdered
<1>1. Inv => PercentilesOrdered
  <2> SUFFICES ASSUME Inv, NEW s \in Targets, NEW t \in Targets,
                      NEW rows \in {AllRows, NonEmptyRows}, Clamp(s) < Clamp(t),
                      NEW p \in PercentileFromBuckets(rows, s),
                      NEW q \in PercentileFromBuckets(rows, t)
               PROVE  p <= q
    BY DEF PercentilesOrdered
  <2>1. Histogram(rows) /\ s \in Int /\ t \in Int
    BY BothHistograms, TargetsAssumption DEF Inv
  <2> QED
    BY <2>1, TargetsOrdered
<1> QED
  BY <1>1, Invariance, PTL

(* A batch at least as slow as all requests before it lowers no percentile  *)
(* by more than the millisecond that truncation may take off, with rows for *)
(* empty buckets or without.                                                *)
THEOREM SlowerIsNotFaster == Spec => SlowerHardlyLowers
<1>1. ASSUME Inv, NEW ms \in Latencies, NEW n \in BatchSizes, NEW t \in Targets,
             Record(ms, n), atMost[ms] = requests
      PROVE  /\ \A p \in PercentileFromBuckets(AllRows, t),
                   q \in PercentileFromBuckets(AllRows', t) : p <= q + 1
             /\ \A p \in PercentileFromBuckets(NonEmptyRows, t),
                   q \in PercentileFromBuckets(NonEmptyRows', t) : p <= q + 1
  <2>1. Shapes /\ Linked /\ t \in Int /\ ms \in Nat
    BY <1>1, TargetsAssumption, LatenciesAssumption DEF Inv
  <2>2. PICK c \in Buckets : c = BucketForLatency(ms)
    BY <2>1, BucketFound
  <2>3. /\ n \in Nat /\ n > 0 /\ Histogram(count) /\ Histogram(count')
        /\ count \in [Buckets -> Nat] /\ count' \in [Buckets -> Nat]
        /\ \A i \in Buckets : count'[i] = IF i = c THEN count[i] + n ELSE count[i]
    BY <1>1, <2>1, <2>2, RecordCum DEF Shapes
  <2>4. c \in 1..10 /\ Buckets = 1..10 /\ DOMAIN count = Buckets /\ DOMAIN count' = Buckets
    BY <2>2, <2>3, BucketBounds
  <2>5. \A b \in Buckets : count[b] > 0 => b <= c
    <3> SUFFICES ASSUME NEW b \in Buckets, count[b] > 0, c < b PROVE FALSE
      BY <2>4
    <3>1. Fits(ms, c)
      BY <2>1, <2>2, <2>4, BucketFound DEF Fits
    <3>2. requests <= Cum(count, c) /\ Cum(count, 10) = requests
      BY <1>1, <2>1, <3>1, BucketBounds DEF Linked, Total
    <3>3. b - 1 \in 0..10 /\ c \in 0..10 /\ c <= b - 1 /\ b \in 1..10
      BY <2>4
    <3>4. Cum(count, c) <= Cum(count, b - 1) /\ Cum(count, b) <= Cum(count, 10)
      BY <2>3, <3>3, CumMonotone
    <3>5. Cum(count, b) = Cum(count, b - 1) + count[b] /\ count[b] \in Nat
      BY <2>3, <2>4, <3>3, CumSums DEF CountIn
    <3>6. /\ Cum(count, c) \in Nat /\ Cum(count, b - 1) \in Nat
          /\ Cum(count, b) \in Nat /\ Cum(count, 10) \in Nat
      BY <2>3, <3>3, CumSums
    <3> QED
      BY <3>2, <3>4, <3>5, <3>6
  <2>6. \A i \in Buckets : CountIn(count', i) = IF i = c THEN CountIn(count, i) + n
                                                ELSE CountIn(count, i)
    BY <2>3, <2>4 DEF CountIn
  <2>7. \A p \in PercentileFromBuckets(count, t), q \in PercentileFromBuckets(count', t) :
          p <= q + 1
    BY <2>1, <2>2, <2>3, <2>4, <2>5, <2>6, SlowerRows
  <2>8. PICK few, many : few = NonEmptyRows /\ many = NonEmptyRows'
    OBVIOUS
  <2>9. /\ Histogram(few) /\ DOMAIN few = {b \in Buckets : count[b] > 0}
        /\ \A b \in DOMAIN few : few[b] = count[b]
        /\ \A i \in Buckets : CountIn(few, i) = CountIn(count, i)
    BY <2>3, <2>8, RowsOf DEF NonEmptyRows
  <2>10. /\ Histogram(many) /\ DOMAIN many = {b \in Buckets : count'[b] > 0}
         /\ \A i \in Buckets : CountIn(many, i) = CountIn(count', i)
    <3>1. many = Restrict(count', {b \in Buckets : count'[b] > 0})
      BY <2>8 DEF NonEmptyRows, Restrict, Buckets, LatencyBuckets
    <3> QED
      BY <2>3, <3>1, RowsOf
  <2>11. DOMAIN few \subseteq DOMAIN many /\ DOMAIN many \subseteq DOMAIN few \cup {c}
    BY <2>3, <2>9, <2>10
  <2>12. \A i \in Buckets : CountIn(many, i) = IF i = c THEN CountIn(few, i) + n
                                               ELSE CountIn(few, i)
    BY <2>6, <2>9, <2>10
  <2>13. \A b \in DOMAIN few : few[b] > 0 => b <= c
    BY <2>5, <2>9
  <2>14. \A p \in PercentileFromBuckets(few, t), q \in PercentileFromBuckets(many, t) :
           p <= q + 1
    BY <2>1, <2>2, <2>3, <2>9, <2>10, <2>11, <2>12, <2>13, SlowerRows
  <2> QED
    BY <2>7, <2>8, <2>14 DEF AllRows
<1>2. Inv /\ [Next]_vars =>
        [\A ms \in Latencies, n \in BatchSizes, t \in Targets :
           Record(ms, n) /\ atMost[ms] = requests =>
             /\ \A p \in PercentileFromBuckets(AllRows, t),
                   q \in PercentileFromBuckets(AllRows', t) : p <= q + 1
             /\ \A p \in PercentileFromBuckets(NonEmptyRows, t),
                   q \in PercentileFromBuckets(NonEmptyRows', t) : p <= q + 1]_vars
  BY <1>1
<1> QED
  BY <1>2, Invariance, PTL DEF Spec, SlowerHardlyLowers
=============================================================================
