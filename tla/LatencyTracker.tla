--------------------------- MODULE LatencyTracker ---------------------------
(***************************************************************************)
(* LatencyTracker.h as operators: recording into a vector of reserved      *)
(* capacity, and the figures of report() over the sorted samples.          *)
(***************************************************************************)
EXTENDS Integers, Sequences, FiniteSets, Functions

Record_Unbounded(samples, capacity, cycles) == Append(samples, cycles)

\* record(): beyond the reserved capacity a sample is dropped.
Record(samples, capacity, cycles) ==
  IF Len(samples) < capacity THEN Append(samples, cycles) ELSE samples

\* std::sort of a copy: some order of the elements in which none is above a
\* later one.
IsSorted(s) == \A j, k \in 1 .. Len(s) : j <= k => s[j] <= s[k]

Permuted(s, order) == [k \in 1 .. Len(s) |-> s[order[k]]]

SortingOrder(s) ==
  CHOOSE order \in Bijection(1 .. Len(s), 1 .. Len(s)) : IsSorted(Permuted(s, order))

Sorted(s) == Permuted(s, SortingOrder(s))

Rank_FromOne(n, p) == (n * p) \div 100

\* The index n * p / 100 of report(), counted from 1 as sequences are.
Rank(n, p) == (n * p) \div 100 + 1

Average(s) ==
  LET sum[n \in 0 .. Len(s)] == IF n = 0 THEN 0 ELSE sum[n - 1] + s[n]
  IN  sum[Len(s)] \div Len(s)

\* report() of a non-empty tracker.
Report(s) ==
  [avg |-> Average(s),
   p50 |-> Sorted(s)[Rank(Len(s), 50)],
   p95 |-> Sorted(s)[Rank(Len(s), 95)],
   p99 |-> Sorted(s)[Rank(Len(s), 99)],
   max |-> Sorted(s)[Len(s)]]

-----------------------------------------------------------------------------

\* The reference definition: v is a p-th percentile of s if at most p percent
\* of the samples are below it and more than p percent are at or below it.
IsPercentile(v, s, p) ==
  /\ 100 * Cardinality({k \in 1 .. Len(s) : s[k] < v}) <= p * Len(s)
  /\ 100 * Cardinality({k \in 1 .. Len(s) : s[k] <= v}) > p * Len(s)

=============================================================================
