----------------------------- MODULE LatencyHarness -----------------------------
(***************************************************************************)
(* The measuring loop of include/exec_core/latency_harness.hpp and the     *)
(* reduction of src/latency_harness.cpp: untimed calls, timed calls, and   *)
(* percentiles by nearest rank in integer arithmetic.                      *)
(*                                                                         *)
(* A percentage is a double.  Here it is a multiple of a hundredth of a    *)
(* percent divided by Fine, so that the values next to a hundredth, which  *)
(* are what a decimal literal becomes, are inputs too.  The mean is left   *)
(* out: it is floating point and nothing depends on it.                    *)
(***************************************************************************)
EXTENDS Integers, SequencesExt

CONSTANTS Durations,       \* what the clock may show for one call
          WarmupIters,     \* warmup_iters
          MaxMeasured,     \* bound: measured_iters is at most this
          Percentages,     \* what callers of nearest_rank_percentile pass
          Fine             \* steps of a percentage per hundredth of a percent

ASSUME DurationsAssumption == Durations \subseteq Nat
ASSUME ItersAssumption == WarmupIters \in Nat /\ MaxMeasured \in Nat
ASSUME PercentagesAssumption == Percentages \subseteq Int /\ Fine \in Nat \ {0}

VARIABLES measured_iters,  \* the argument
          calls,           \* how long each call of the workload took, in order
          samples_ns,      \* what has been recorded
          stats,           \* what measure_latency_ns returned, or <<>>
          answer           \* the last nearest_rank_percentile of the sorted samples

vars == <<measured_iters, calls, samples_ns, stats, answer>>

--------------------------------------------------------------------------------
Hundred == 10000 * Fine                          \* 100.0
Clamped(p) == IF p < 0 THEN 0 ELSE IF p > Hundred THEN Hundred ELSE p

(* Lines 50, 69-72 of latency_harness.cpp: std::llround, then the ceiling  *)
(* of p_scaled_1e2 * n / 10000.  What is half way is rounded up.           *)
Truncated(p) == p \div Fine                      \* variant: a cast instead of llround
Rounded(p) == (2 * p + Fine) \div (2 * Fine)
Floor(numerator) == numerator \div 10000         \* variant: ranks rounded down
Ceiling(numerator) == (numerator + 9999) \div 10000

(* Lines 7-79.                                                             *)
nearest_rank_percentile(sorted, p) ==
    LET n == Len(sorted)
        rank128 == Ceiling(Rounded(Clamped(p)) * n)
        rank == IF rank128 < 1 THEN 1 ELSE IF rank128 > n THEN n ELSE rank128
    IN IF n = 0 THEN 0 ELSE sorted[rank]

(* std::sort: each sample goes where as many precede it as do in the       *)
(* order.  (SortSeq of the TLC module is not visible to the provers.)      *)
Preceding(samples, k) ==
    {j \in DOMAIN samples : \/ samples[j] < samples[k]
                            \/ samples[j] = samples[k] /\ j < k}
SampleAt(samples, r) == CHOOSE k \in DOMAIN samples : Cardinality(Preceding(samples, k)) = r - 1
Unsorted(samples) == samples                     \* variant: std::sort is left out
Sorted(samples) == [r \in DOMAIN samples |-> samples[SampleAt(samples, r)]]

(* Lines 81-111: the percentiles 50, 90, 99, 99.9 and 99.99.               *)
Reported == {5000, 9000, 9900, 9990, 9999}
compute_latency_stats(samples) ==
    LET sorted == Sorted(samples)
    IN [count |-> Len(samples),
        min_ns |-> IF samples = <<>> THEN 0 ELSE sorted[1],
        max_ns |-> IF samples = <<>> THEN 0 ELSE sorted[Len(samples)],
        percentile |-> [h \in Reported |-> nearest_rank_percentile(sorted, h * Fine)]]

Init ==
    /\ measured_iters \in 0 .. MaxMeasured
    /\ calls = <<>> /\ samples_ns = <<>> /\ stats = <<>> /\ answer = <<>>

(* Lines 174-176 of latency_harness.hpp: the call is not timed.            *)
Warmup(d) ==
    /\ Len(calls) < WarmupIters
    /\ calls' = Append(calls, d)
    /\ UNCHANGED <<measured_iters, samples_ns, stats, answer>>

(* Lines 184-190.                                                          *)
Measure(d) ==
    /\ Len(calls) >= WarmupIters
    /\ Len(samples_ns) < measured_iters
    /\ calls' = Append(calls, d)
    /\ samples_ns' = Append(samples_ns, d)
    /\ UNCHANGED <<measured_iters, stats, answer>>

(* Line 192.                                                               *)
Reduce ==
    /\ Len(calls) >= WarmupIters
    /\ Len(samples_ns) = measured_iters
    /\ stats = <<>>
    /\ stats' = compute_latency_stats(samples_ns)
    /\ UNCHANGED <<measured_iters, calls, samples_ns, answer>>

(* A caller asks for a percentile of its own of the sorted samples.        *)
Ask(p) ==
    /\ stats # <<>> /\ answer = <<>>
    /\ answer' = [p |-> p, value |-> nearest_rank_percentile(Sorted(samples_ns), p)]
    /\ UNCHANGED <<measured_iters, calls, samples_ns, stats>>

Next ==
    \/ \E d \in Durations : Warmup(d) \/ Measure(d)
    \/ Reduce
    \/ \E p \in Percentages : Ask(p)

Spec == Init /\ [][Next]_vars

--------------------------------------------------------------------------------
(* The calls that count: those after the warm-up.                          *)
Timed == SubSeq(calls, WarmupIters + 1, Len(calls))

(* The nearest rank without ranks: the least observed duration that at     *)
(* least h hundredths of a percent of the calls did not exceed.            *)
IsPercentile(value, h) ==
    LET share(v) == 10000 * Cardinality({k \in DOMAIN Timed : Timed[k] <= v})
        enough(v) == share(v) >= h * Len(Timed)
    IN IF Timed = <<>> THEN value = 0
       ELSE /\ value \in ToSet(Timed) /\ enough(value)
            /\ \A v \in ToSet(Timed) : enough(v) => value <= v

(* The summary is of all timed calls and of no other, in particular of     *)
(* none of the warm-up, and each percentile is the nearest rank            *)
(* (latency_harness.hpp:27-28, 51-56).                                     *)
StatsDescribeTimedCalls ==
    stats # <<>> =>
        /\ stats.count = measured_iters /\ Len(Timed) = measured_iters
        /\ IsPercentile(stats.min_ns, 0) /\ IsPercentile(stats.max_ns, 10000)
        /\ \A h \in Reported : IsPercentile(stats.percentile[h], h)

(* A percentage that misses a hundredth by less than half of one, as the   *)
(* double nearest to 99.9 misses 99.9, is answered as that hundredth; a    *)
(* rank that is exact is not moved to its neighbour, and percentages out   *)
(* of range are as 0 and 100 (latency_harness.hpp:59-75).                  *)
AnswerIsNearestRank ==
    answer # <<>> =>
        LET p == answer.p
            nearby == {p \div Fine, p \div Fine + 1}
        IN /\ p < 0 => IsPercentile(answer.value, 0)
           /\ p > Hundred => IsPercentile(answer.value, 10000)
           /\ \A h \in nearby \cap 0 .. 10000 :
                 2 * p > (2 * h - 1) * Fine /\ 2 * p < (2 * h + 1) * Fine => IsPercentile(answer.value, h)
================================================================================
