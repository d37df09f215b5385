---------------------------- MODULE MCLatencyHarness ----------------------------
EXTENDS LatencyHarness

(* Hundredths of a percent at which a rank of one to six samples is exact, *)
(* with their neighbours on both sides, and the ends of the range.         *)
Exact == {0, 1, 1667, 2000, 2500, 3333, 4000, 5000, 6000, 6667, 7500, 8000, 9990, 9999, 10000}
MCPercentages == {h * Fine + e : h \in Exact, e \in {-1, 0, 1}} \cup {-2 * Fine, 10001 * Fine}
================================================================================
