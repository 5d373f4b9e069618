------------------------------ MODULE Latency ------------------------------
(***************************************************************************)
(* The latency histogram of one route (server/latency.py): what            *)
(* RequestLatencyMiddleware records and GET /v1/slo/latency renders as     *)
(* p50, p95 and p99.  A request is counted in every bucket it fits in.     *)
(***************************************************************************)
EXTENDS Naturals, FiniteSetsExt

CONSTANTS
    NumBuckets,     \* LATENCY_BUCKETS, numbered from the shortest
    MaxRequests     \* bound: requests recorded

Buckets == 1..NumBuckets

\* How long a request took: the first bucket it fits in, or none.
Latencies == 1..(NumBuckets + 1)

VARIABLES
    counts,     \* counts of _RouteLatency
    n,
    took        \* history: requests by latency

latency == <<counts, n, took>>

LatencyInit ==
    /\ counts = [b \in Buckets |-> 0]
    /\ n = 0
    /\ took = [l \in Latencies |-> 0]

Record(l) ==
    /\ n < MaxRequests
    /\ n' = n + 1
    /\ counts' = [b \in Buckets |-> IF l <= b THEN counts[b] + 1 ELSE counts[b]]
    /\ took' = [took EXCEPT ![l] = @ + 1]

LatencyNext == \E l \in Latencies : Record(l)

LatencySpec == LatencyInit /\ [][LatencyNext]_latency

-----------------------------------------------------------------------------

\* cum of percentile() once it has come to bucket b.
Cum(b) == MapThenSumSet(LAMBDA c : counts[c], 1..b)

\* percentile(p) of a route that served a request.
Percentile(p) ==
    LET reached == {b \in Buckets : 100 * Cum(b) >= p * n}
    IN  IF reached = {} THEN NumBuckets ELSE Min(reached)

\* Requests that took no longer than bucket b.
Within(b) == MapThenSumSet(LAMBDA l : took[l], 1..b)

\* routers/slo.py, "per-route HTTP request latency percentiles (p50/p95/p99)":
\* the latency rendered as a percentile is one that so many requests kept.
PercentilesAreKept ==
    \A p \in {50, 95, 99} :
        n > 0 /\ Percentile(p) < NumBuckets
            => 100 * Within(Percentile(p)) >= p * n

=============================================================================
