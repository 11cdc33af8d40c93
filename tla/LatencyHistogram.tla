-------------------------- MODULE LatencyHistogram --------------------------
(***************************************************************************)
(* LatencyHistogram: the audio latencies of a run in buckets that are a    *)
(* factor of the square root of 2 wide, read off as percentiles at the     *)
(* end.  Histograms can be merged.                                         *)
(*                                                                         *)
(* The code computes with log2 and pow; here bucket bounds are compared    *)
(* squared, so everything is exact: the square of the lower bound of       *)
(* bucket b is 2^b.  Percentiles are given in thousandths.                 *)
(***************************************************************************)
EXTENDS Integers, FiniteSetsExt

CONSTANTS
  Histogram,    \* the histograms of the program
  BucketCount,  \* kBucketCount: 50
  Latency,      \* what may be recorded, in microseconds
  Permille,     \* the percentiles asked for
  MaxSamples    \* bound: samples held by all histograms together

ASSUME BucketAssumption == BucketCount \in Nat \ {0}
ASSUME LatencyAssumption == IsFiniteSet(Latency) /\ Latency \subseteq Int
ASSUME PermilleAssumption == Permille \subseteq Int /\ MaxSamples \in Nat

VARIABLES
  hist,     \* per histogram, its counts_, total_, max_ and sum_for_mean
  samples   \* history: per histogram, how often each latency was recorded

histVars == <<hist, samples>>

Buckets == 0..(BucketCount - 1)

Empty == [counts |-> [b \in Buckets |-> 0], total |-> 0, max |-> 0, sum |-> 0]

HistInit ==
  /\ hist = [h \in Histogram |-> Empty]
  /\ samples = [h \in Histogram |-> [us \in Latency |-> 0]]

-----------------------------------------------------------------------------
\* record() takes a negative latency for 0.
Clamped(us) == Max({us, 0})

\* bucket_for(): the last bucket takes everything beyond it.
BucketFor(us) == IF us <= 0 THEN 0 ELSE Max({b \in Buckets : 2^b <= us * us})

\* upper_bound_of(): the square root of 2^(b + 1), truncated.
UpperBoundOf(b) == Max({us \in 0..2^(b \div 2 + 1) : us * us <= 2^(b + 1)})

\* record()
Recorded(h, us) ==
  [h EXCEPT !.counts[BucketFor(us)] = @ + 1,
            !.total = @ + 1,
            !.max   = Max({@, us}),
            !.sum   = @ + us]

\* Mutant: the counts are added, their total is not.
MergedCounts(h, o) ==
  [h EXCEPT !.counts = [b \in Buckets |-> @[b] + o.counts[b]], !.max = Max({@, o.max})]

\* merge()
Merged(h, o) ==
  [counts |-> [b \in Buckets |-> h.counts[b] + o.counts[b]],
   total  |-> h.total + o.total,
   max    |-> Max({h.max, o.max}),
   sum    |-> h.sum + o.sum]

\* percentile() takes what is out of range for the least or the greatest.
InRange(p) == Min({Max({p, 0}), 1000})

\* Mutant: the rank is rounded down.
TargetRoundedDown(h, p) == Max({(InRange(p) * h.total) \div 1000, 1})

\* The rank of the sample that percentile() looks for, from 1.
Target(h, p) == Max({(InRange(p) * h.total + 999) \div 1000, 1})

Cumulated(h, b) == SumFunctionOnSet(h.counts, 0..b)

Percentile(h, p) ==
  LET reached == {b \in Buckets : Cumulated(h, b) >= Target(h, p)}
  IN IF h.total = 0 THEN 0
     ELSE IF reached = {} THEN h.max ELSE UpperBoundOf(Min(reached))

-----------------------------------------------------------------------------
Held == SumFunctionOnSet([h \in Histogram |-> hist[h].total], Histogram)

Record(h, us) ==
  /\ Held < MaxSamples
  /\ hist' = [hist EXCEPT ![h] = Recorded(@, Clamped(us))]
  /\ samples' = [samples EXCEPT ![h][us] = @ + 1]

Merge(h, o) ==
  /\ h # o
  /\ Held + hist[o].total <= MaxSamples
  /\ hist' = [hist EXCEPT ![h] = Merged(@, hist[o])]
  /\ samples' = [samples EXCEPT ![h] = [us \in Latency |-> @[us] + samples[o][us]]]

HistNext ==
  \/ \E h \in Histogram, us \in Latency : Record(h, us)
  \/ \E h, o \in Histogram : Merge(h, o)

HistSpec == HistInit /\ [][HistNext]_histVars
-----------------------------------------------------------------------------
\* The latencies counted in a histogram, negative ones as 0.
Recordings(h, S) == SumFunctionOnSet(samples[h], S)

\* Those that do not exceed us.
UpTo(us) == {v \in Latency : v <= us}

\* The smallest latency that at least p of every 1000 samples do not exceed.
ExactPercentile(h, p) ==
  Clamped(Min({us \in Latency :
    /\ Recordings(h, UpTo(us)) > 0
    /\ 1000 * Recordings(h, UpTo(us)) >= InRange(p) * Recordings(h, Latency)}))

(***************************************************************************)
(* latency_histogram.hpp: a percentile is that of the samples, "rounded UP *)
(* to the bucket's upper bound", so it is never too optimistic and never   *)
(* off by more than a factor of the square root of 2 -- for latencies up   *)
(* to the bound of the last bucket; what is beyond is reported as that     *)
(* bound, and 0 as 1.  After any number of records and merges.             *)
(***************************************************************************)
PercentileRoundsUp ==
  \A h \in Histogram, p \in Permille :
    IF Recordings(h, Latency) = 0 THEN Percentile(hist[h], p) = 0
    ELSE LET exact    == ExactPercentile(h, p)
             reported == Percentile(hist[h], p)
             last     == UpperBoundOf(BucketCount - 1)
         IN IF exact > last THEN reported = last
            ELSE /\ reported >= exact
                 /\ reported * reported <= 2 * Max({exact * exact, 1})

(***************************************************************************)
(* A merged histogram is the one that would have recorded the samples of   *)
(* both itself: count, maximum, mean and every bucket.                     *)
(***************************************************************************)
MergeLosesNothing ==
  \A h \in Histogram :
    /\ hist[h].total = Recordings(h, Latency)
    /\ hist[h].sum = SumFunctionOnSet([us \in Latency |-> samples[h][us] * Clamped(us)], Latency)
    /\ hist[h].max = Max({0} \cup {us \in Latency : samples[h][us] > 0})
    /\ \A b \in Buckets :
         hist[h].counts[b] = Recordings(h, {us \in Latency : BucketFor(Clamped(us)) = b})
=============================================================================
