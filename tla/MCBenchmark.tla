----------------------------- MODULE MCBenchmark -----------------------------
(* A small instance of Benchmark, with the report of Percentile, for TLC. *)
EXTENDS Benchmark, Percentile

(* The latencies of all requests but those that were not built. *)
Latencies == TotalRequests - metrics["not built"]

(* What the sorted latencies can be: three values in every proportion, and *)
(* where one request of the model stands for seven, twenty or forty, all   *)
(* different: there the rounding of 95 and 99 percent shows.               *)
Samples ==
    {s \in [1..Latencies -> 1..3] : Sorted(s)} \cup
    {[i \in 1..n |-> i] : n \in {m * Latencies : m \in {7, 20, 40}}}

(* The report a load test ends with: p50, p95, p99 and max are in order,   *)
(* p50 is a median, and p95 and p99 are off by at most half a sample.      *)
PercentilesSound ==
    over /\ ~Running =>
        \A s \in Samples :
            InOrder(s) /\ MedianAt50(s) /\ \A p \in {50, 95, 99} : Covers(s, p)
=============================================================================
