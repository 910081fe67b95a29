------------------------------ MODULE Latency -------------------------------
(***************************************************************************)
(* The latency histogram (config/latency.go): the bucket a latency is      *)
(* counted in, and the percentile interpolated from the counts.            *)
(*                                                                         *)
(* The rollup that keeps the counts (veto-cloud) is external: it adds a    *)
(* batch of requests to the bucket that BucketForLatency names.  A query   *)
(* returns a row for every bucket, or only for those with requests.        *)
(*                                                                         *)
(* Percentile targets are in hundredths, as float64 cannot hold them: what *)
(* the code computes with rounding at each step, the model has as the set  *)
(* of results that rounding may give.  Below 2^28 requests a rounded value *)
(* is on the wrong side of a whole number only if the exact value is that  *)
(* number, which leaves two ways to differ from the exact result: the rank *)
(* of a target whose float64 is above it may come out above a whole rank,  *)
(* and a whole number of milliseconds may be truncated to the one below.   *)
(***************************************************************************)
EXTENDS Integers, Sequences, Functions, FiniteSetsExt

CONSTANTS
    InfBucket,    \* infBucket, the last bucket's bound
    Latencies,    \* the latencies requests may have, in ms
    BatchSizes,   \* how many requests a batch may hold
    Targets,      \* percentiles asked for, in hundredths
    RoundedUp,    \* targets whose float64 is above them, such as 0.07 and 0.28
    MaxBatches    \* bound on the batches recorded

(* LatencyBuckets: upper bounds, inclusive.                                 *)
LatencyBuckets == <<10, 25, 50, 100, 250, 500, 1000, 2500, 5000, InfBucket>>

ASSUME InfAssumption == InfBucket \in Nat /\ InfBucket > 25000
ASSUME LatenciesAssumption == Latencies \subseteq Nat
ASSUME BatchAssumption == BatchSizes \subseteq Nat \ {0}
ASSUME TargetsAssumption == Targets \subseteq Int
ASSUME RoundedUpAssumption == RoundedUp \subseteq 1..99
ASSUME MaxBatchesAssumption == MaxBatches \in Nat

VARIABLES
    count,     \* requests per bucket
    atMost,    \* history: requests that took no longer than each latency
    requests,  \* history: requests recorded
    batches    \* batches recorded

vars == <<count, atMost, requests, batches>>

Buckets == DOMAIN LatencyBuckets

Init ==
    /\ count = [b \in Buckets |-> 0]
    /\ atMost = [ms \in Latencies |-> 0]
    /\ requests = 0
    /\ batches = 0

-----------------------------------------------------------------------------

(* Variant of BucketForLatency: the bounds are exclusive.                   *)
BucketExclusive(ms) ==
    LET fits == {b \in Buckets : ms < LatencyBuckets[b]}
    IN  IF fits = {} THEN Len(LatencyBuckets) ELSE Min(fits)

(* Variant of BucketForLatency: what fits no finite bucket goes to the      *)
(* first one.                                                               *)
BucketWrapped(ms) ==
    LET fits == {b \in Buckets : ms <= LatencyBuckets[b] /\ LatencyBuckets[b] < InfBucket}
    IN  IF fits = {} THEN 1 ELSE Min(fits)

(* BucketForLatency, by index: the first bucket that is large enough.       *)
BucketForLatency(ms) ==
    LET fits == {b \in Buckets : ms <= LatencyBuckets[b]}
    IN  IF fits = {} THEN Len(LatencyBuckets) ELSE Min(fits)

(* The rollup adds a batch of n requests that took ms each.                 *)
Record(ms, n) ==
    /\ batches < MaxBatches
    /\ batches' = batches + 1
    /\ count' = [count EXCEPT ![BucketForLatency(ms)] = @ + n]
    /\ atMost' = [x \in Latencies |-> IF ms <= x THEN atMost[x] + n ELSE atMost[x]]
    /\ requests' = requests + n

Full == batches = MaxBatches /\ UNCHANGED vars

Next == (\E ms \in Latencies, n \in BatchSizes : Record(ms, n)) \/ Full

Spec == Init /\ [][Next]_vars

-----------------------------------------------------------------------------
(* PercentileFromBuckets.  Its rows, in ascending order of their bounds,    *)
(* are a function: the count of every bucket that has a row.                *)

AllRows == count

NonEmptyRows == Restrict(count, {b \in Buckets : count[b] > 0})

CountIn(rows, b) == IF b \in DOMAIN rows THEN rows[b] ELSE 0

(* Requests in the rows up to bucket b.                                     *)
Cum(rows, b) ==
    LET cum[i \in 0..Len(LatencyBuckets)] ==
            IF i = 0 THEN 0 ELSE cum[i - 1] + CountIn(rows, i)
    IN  cum[b]

Total(rows) == Cum(rows, Len(LatencyBuckets))

Clamp(target) == CASE target < 0 -> 0 [] target > 100 -> 100 [] OTHER -> target

(* Variant of PrevUpper: the lower end is not advanced with the rows.       *)
PrevUpperZero(rows, b) == 0

(* The lower end of a row, as far as the rows tell.                         *)
PrevUpper(rows, b) ==
    LET before == {a \in DOMAIN rows : a < b}
    IN  IF before = {} THEN 0 ELSE LatencyBuckets[Max(before)]

(* Variant of DisplayUpper: the infinity bucket is taken at its bound.      *)
DisplayUpperRaw(rows, b) == LatencyBuckets[b]

(* The upper end of a row; the infinity bucket's is five times its lower.   *)
DisplayUpper(rows, b) ==
    CASE LatencyBuckets[b] < InfBucket -> LatencyBuckets[b]
      [] LatencyBuckets[b] >= InfBucket /\ PrevUpper(rows, b) = 0 -> 5000
      [] OTHER -> PrevUpper(rows, b) * 5

(* Where the rank falls in a row, truncated to whole milliseconds: rounding *)
(* may leave a product that is a whole number just below it.                *)
Interpolate(rows, b, rank) ==
    LET into  == rank - 100 * Cum(rows, b - 1)
        width == DisplayUpper(rows, b) - PrevUpper(rows, b)
        part  == (into * width) \div (100 * rows[b])
        exact == PrevUpper(rows, b) + part
    IN  IF part > 0 /\ part * (100 * rows[b]) = into * width
        THEN {exact, exact - 1} ELSE {exact}

(* The rows that hold requests and reach the rank.                          *)
Reached(rows, rank) == {b \in DOMAIN rows : 100 * Cum(rows, b) >= rank /\ rows[b] > 0}

(* When no row is reached: the last finite bound.                           *)
LargestFinite(rows) ==
    LET finite == {b \in DOMAIN rows : LatencyBuckets[b] < InfBucket}
    IN  IF finite = {} THEN 0 ELSE LatencyBuckets[Max(finite)]

(* How far rounding may take the rank of a target, in hundredths: 1 stands  *)
(* for anything above the rank that is below the next hundredth.            *)
Excess(target) == IF target \in RoundedUp THEN {0, 1} ELSE {0}

(* What the loop over the rows returns once the rank is above by excess.    *)
Walk(rows, rank, excess) ==
    IF Reached(rows, rank + excess) # {}
    THEN Interpolate(rows, Min(Reached(rows, rank + excess)), rank)
    ELSE {LargestFinite(rows)}

(* The results that PercentileFromBuckets may have.                         *)
PercentileFromBuckets(rows, target) ==
    IF Total(rows) = 0 THEN {0}
    ELSE UNION {Walk(rows, Clamp(target) * Total(rows), e) : e \in Excess(target)}

-----------------------------------------------------------------------------
(* Properties.                                                              *)

(* The most a percentile can be: five times the largest finite bound.       *)
MaxDisplayed == 25000

(* Shapes of the state.  Every request is counted in one bucket, and no     *)
(* percentile is beyond what the dashboard can show: in particular the      *)
(* infinity bucket's bound is never reported as a latency.                  *)
TypeOK ==
    /\ count \in [Buckets -> Nat]
    /\ atMost \in [Latencies -> Nat]
    /\ requests \in Nat
    /\ batches \in 0..MaxBatches
    /\ Total(AllRows) = requests /\ Total(NonEmptyRows) = requests
    /\ \A t \in Targets, rows \in {AllRows, NonEmptyRows} :
          PercentileFromBuckets(rows, t) \subseteq 0..MaxDisplayed

(* The nearest-rank percentile: the smallest latency that at least target   *)
(* hundredths of the requests, and one at least, did not exceed.  With an   *)
(* excess of 1, more than target hundredths.                                *)
NearestRank(target, excess) ==
    Min({ms \in Latencies : /\ atMost[ms] > 0
                            /\ 100 * atMost[ms] >= Clamp(target) * requests + excess})

(* p lies between the bounds that enclose the latency x.                    *)
SameBucket(p, x) ==
    \A b \in Buckets :
        IF x <= LatencyBuckets[b] THEN p <= LatencyBuckets[b]
        ELSE LatencyBuckets[b] <= p \/ LatencyBuckets[b] = InfBucket

(* Interpolation stays in the right bucket: with a row for each bucket, the *)
(* reported percentile lies between the bounds that enclose the nearest-    *)
(* rank percentile of the requests themselves, however they fall on the     *)
(* bucket bounds and however many buckets are empty.  Only a target whose   *)
(* float64 is above it may, when exactly that share of the requests is at   *)
(* most one latency, lie with the next slower request.                      *)
InRightBucket ==
    requests > 0 =>
        \A t \in Targets : \A p \in PercentileFromBuckets(AllRows, t) :
            \E e \in Excess(t) : SameBucket(p, NearestRank(t, e))

(* The percentiles of one histogram are in order: a higher target never     *)
(* gives a lower latency, with or without rows for empty buckets and        *)
(* however either of them is rounded.                                       *)
PercentilesOrdered ==
    \A s, t \in Targets, rows \in {AllRows, NonEmptyRows} :
        Clamp(s) < Clamp(t) =>
            \A p \in PercentileFromBuckets(rows, s), q \in PercentileFromBuckets(rows, t) :
                p <= q

(* Slower requests do not make the service look faster: when a batch at     *)
(* least as slow as all before it is recorded, no percentile falls by more  *)
(* than the millisecond that truncation may take off, with or without rows  *)
(* for empty buckets.                                                       *)
SlowerHardlyLowers ==
    [][ \A ms \in Latencies, n \in BatchSizes, t \in Targets :
          Record(ms, n) /\ atMost[ms] = requests =>
            /\ \A p \in PercentileFromBuckets(AllRows, t),
                  q \in PercentileFromBuckets(AllRows', t) : p <= q + 1
            /\ \A p \in PercentileFromBuckets(NonEmptyRows, t),
                  q \in PercentileFromBuckets(NonEmptyRows', t) : p <= q + 1 ]_vars
=============================================================================
