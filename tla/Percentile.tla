----------------------------- MODULE Percentile -----------------------------
(***************************************************************************)
(* The percentiles of the load test's report (loadtest.rs): the sorted     *)
(* latencies are indexed at p percent of the last index, rounded to the    *)
(* nearest integer, a half upwards.                                        *)
(***************************************************************************)
EXTENDS Integers, Sequences, FiniteSets

(* The index of the code, counted from zero, among n >= 1 values.  Where   *)
(* the code uses it (p = 50, 95, 99) its floating-point product rounds to  *)
(* the same integer.                                                       *)
\* Variant: cut off instead of rounded.
IndexTruncated(p, n) == (p * (n - 1)) \div 100

Index(p, n) == (2 * p * (n - 1) + 100) \div 200

PercentileOf(values, p) ==
    IF values = <<>> THEN 0 ELSE values[Index(p, Len(values)) + 1]
-----------------------------------------------------------------------------
(* What sort_unstable leaves. *)
Sorted(values) == \A i, j \in DOMAIN values : i <= j => values[i] <= values[j]

(* The summary is in order, and never beyond a measured value. *)
InOrder(values) ==
    values # <<>> =>
        LET n == Len(values)
        IN  /\ values[1] <= PercentileOf(values, 50)
            /\ PercentileOf(values, 50) <= PercentileOf(values, 95)
            /\ PercentileOf(values, 95) <= PercentileOf(values, 99)
            /\ PercentileOf(values, 99) <= values[n]

(* At least half of the values are at most p50, and half at least. *)
MedianAt50(values) ==
    LET p50 == PercentileOf(values, 50)
    IN  /\ 2 * Cardinality({i \in DOMAIN values : values[i] <= p50}) >= Len(values)
        /\ 2 * Cardinality({i \in DOMAIN values : values[i] >= p50}) >= Len(values)

(* p percent of the other values are at most the p-th percentile, but for  *)
(* half a value.                                                           *)
Covers(values, p) ==
    LET v == PercentileOf(values, p)
    IN  values # <<>> =>
            200 * (Cardinality({i \in DOMAIN values : values[i] <= v}) - 1)
                >= 2 * p * (Len(values) - 1) - 100
=============================================================================
