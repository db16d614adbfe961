--------------------------- MODULE LatencyHistogram ---------------------------
(***************************************************************************)
(* LatencyHistogram (src/src/monitor/latency_histogram.h): record() on the *)
(* thread that handles messages against snapshot_and_reset() on the        *)
(* reporter's, one atomic access per step.  A bucket is the set of samples *)
(* it has counted; its counter is their number.  Latencies have kBuckets   *)
(* bits, as they have 64 bits in the code.                                 *)
(***************************************************************************)
EXTENDS Integers, FiniteSets

CONSTANT kBuckets   \* 64

ASSUME HistogramSize == kBuckets \in Nat \ {0}

VARIABLES buckets,   \* buckets_
          max_us,    \* max_us_
          rec,       \* record(): its step, the sample and the local cur
          snap,      \* snapshot_and_reset(): its step, i, local
          reports,   \* history: the snapshot taken last with its samples, if any
          reported,  \* history: the samples of all snapshots
          topMax     \* history: the greatest maximum of all snapshots

histVars == <<buckets, max_us, rec, snap, reports, reported, topMax>>

Buckets == 0..(kBuckets - 1)

(* 1 << n. *)
Shifted[n \in Nat] == IF n = 0 THEN 1 ELSE 2 * Shifted[n - 1]

ULLONG_MAX == Shifted[kBuckets] - 1
None == [id |-> 0, us |-> 0]

HistInit ==
    /\ buckets = [i \in Buckets |-> {}] /\ max_us = 0
    /\ rec = [at |-> "idle", sample |-> None, cur |-> 0]
    /\ snap = [at |-> "idle", i |-> 0, local |-> [i \in Buckets |-> {}]]
    /\ reports = {} /\ reported = {} /\ topMax = 0

-------------------------------------------------------------------------------
(* The bucket of a latency is the position of its highest bit. *)
Idx(us) == IF us = 0 THEN 0 ELSE CHOOSE i \in Buckets : Shifted[i] <= us /\ us < Shifted[i + 1]

RecordBegin(sample) ==
    /\ rec.at = "idle"
    /\ rec' = [at |-> "bucket", sample |-> sample, cur |-> 0]
    /\ UNCHANGED <<buckets, max_us, snap, reports, reported, topMax>>

RecordBucket ==
    /\ rec.at = "bucket"
    /\ buckets' = [buckets EXCEPT ![Idx(rec.sample.us)] = @ \cup {rec.sample}]
    /\ rec' = [rec EXCEPT !.at = "load"]
    /\ UNCHANGED <<max_us, snap, reports, reported, topMax>>

RecordIdle == [at |-> "idle", sample |-> None, cur |-> 0]
RaiseOver(cur) == IF rec.sample.us > cur THEN [rec EXCEPT !.at = "cas", !.cur = cur]
                                         ELSE RecordIdle

RecordLoad ==
    /\ rec.at = "load"
    /\ rec' = RaiseOver(max_us)
    /\ UNCHANGED <<buckets, max_us, snap, reports, reported, topMax>>

(* A failed compare_exchange_weak leaves the present value in cur and the loop
   goes on.  Mutation: one attempt only. *)
AfterFailedCasGivesUp == RecordIdle
AfterFailedCas == RaiseOver(max_us)

RecordCas ==
    /\ rec.at = "cas" /\ max_us = rec.cur
    /\ max_us' = rec.sample.us
    /\ rec' = RecordIdle
    /\ UNCHANGED <<buckets, snap, reports, reported, topMax>>

(* The maximum is another one by now.  (When the weak exchange fails for no
   reason the loop is back where it was.) *)
RecordCasFails ==
    /\ rec.at = "cas" /\ max_us # rec.cur
    /\ rec' = AfterFailedCas
    /\ UNCHANGED <<buckets, max_us, snap, reports, reported, topMax>>

-------------------------------------------------------------------------------
CumulativeCount(counts, i) == Cardinality(UNION {counts[k] : k \in 0..i})

(* The rank of a percentile, rounded up.  Mutation: rounded down. *)
TargetFloor(total, part, whole) == (total * part) \div whole
Target(total, part, whole) == (total * part + whole - 1) \div whole

(* percentile_target: the upper bound of the first bucket that reaches the
   rank; the last one has no bound but the largest integer. *)
PercentileTarget(local, target) ==
    LET first == CHOOSE i \in Buckets :
                    /\ CumulativeCount(local, i) >= target
                    /\ \A k \in 0..(i - 1) : CumulativeCount(local, k) < target
    IN  IF first = kBuckets - 1 THEN ULLONG_MAX ELSE Shifted[first + 1]

(* Each reported percentile: its part of the whole. *)
Percentiles == [p50 |-> <<50, 100>>, p95 |-> <<95, 100>>,
                p99 |-> <<99, 100>>, p999 |-> <<999, 1000>>]

PercentileOf(local, p) ==
    LET total == CumulativeCount(local, kBuckets - 1)
    IN  PercentileTarget(local, Target(total, Percentiles[p][1], Percentiles[p][2]))

SnapshotBegin ==
    /\ snap.at = "idle"
    /\ snap' = [at |-> "bucket", i |-> 0, local |-> [i \in Buckets |-> {}]]
    /\ reports' = {}
    /\ UNCHANGED <<buckets, max_us, rec, reported, topMax>>

(* exchange(0).  Mutation: load() in its place. *)
ResetBucketNot(i) == buckets
ResetBucket(i) == [buckets EXCEPT ![i] = {}]

SnapshotBucket ==
    /\ snap.at = "bucket"
    /\ snap' = [at |-> IF snap.i = kBuckets - 1 THEN "max" ELSE "bucket",
                i |-> snap.i + 1,
                local |-> [snap.local EXCEPT ![snap.i] = buckets[snap.i]]]
    /\ buckets' = ResetBucket(snap.i)
    /\ UNCHANGED <<max_us, rec, reports, reported, topMax>>

(* The snapshot takes the maximum and computes the percentiles. *)
SnapshotMax ==
    /\ snap.at = "max"
    /\ max_us' = 0
    /\ snap' = [at |-> "idle", i |-> 0, local |-> [i \in Buckets |-> {}]]
    /\ reports' = {[samples |-> UNION {snap.local[i] : i \in Buckets},
                    est |-> IF \A i \in Buckets : snap.local[i] = {}
                            THEN [p \in DOMAIN Percentiles |-> 0]
                            ELSE [p \in DOMAIN Percentiles |-> PercentileOf(snap.local, p)]]}
    /\ reported' = reported \cup UNION {snap.local[i] : i \in Buckets}
    /\ topMax' = IF max_us > topMax THEN max_us ELSE topMax
    /\ UNCHANGED <<buckets, rec>>

-------------------------------------------------------------------------------
Counted == UNION {buckets[i] : i \in Buckets}
Taken == UNION {snap.local[i] : i \in Buckets}
===============================================================================
