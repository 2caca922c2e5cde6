--------------------------------- MODULE Metrics ---------------------------------
(***************************************************************************)
(* The request metrics of daemon/src/state.rs and what GET /metrics and    *)
(* GET /metrics/prometheus make of them (http.rs): five counters that are  *)
(* kept apart, three of them tables that only have the endpoints met.      *)
(***************************************************************************)
EXTENDS Naturals, Sequences, FiniteSets, SequencesExt

CONSTANTS
  Endpoints,      \* "<method> <path>" keys
  Label,          \* endpoint -> its Prometheus label: ' ', '/' and '-' all become '_'
  Successes,      \* statuses that are no error, below 400
  Failures,       \* and those that are one
  Durations,
  MaxServed       \* bound: requests between two clears

VARIABLES
  request_counts, error_counts, duration_totals,   \* endpoint -> number
  total_requests, total_errors,
  seen            \* history: what was served since the last clear, in order

counters == <<request_counts, error_counts, duration_totals, total_requests, total_errors>>
vars == <<counters, seen>>

Empty == [e \in {} |-> 0]
ValueOf(table, e) == IF e \in DOMAIN table THEN table[e] ELSE 0
Plus(table, e, n) ==
  [x \in DOMAIN table \cup {e} |-> IF x = e THEN ValueOf(table, e) + n ELSE table[x]]

\* Mutation: a status of exactly 400 is no error.
IsErrorAbove(status) == status > 400

IsError(status) == status >= 400

\* Metrics::to_json: the totals, and a line per endpoint met.
Json ==
  [requests |-> total_requests, errors |-> total_errors,
   endpoints |-> [e \in DOMAIN request_counts |->
     [requests |-> request_counts[e], errors |-> ValueOf(error_counts, e),
      avg_ms |-> ValueOf(duration_totals, e) \div request_counts[e]]]]

\* metrics_prometheus: the totals, then a series per endpoint met and one per endpoint
\* that failed, each in the table's order, which is any.
Series(table) ==
  LET order == SetToSeq(DOMAIN table) IN [i \in DOMAIN order |-> <<Label[order[i]], table[order[i]]>>]
Prometheus ==
  [requests |-> total_requests, errors |-> total_errors,
   endpoints |-> Series(request_counts), failures |-> Series(error_counts)]

---------------------------------------------------------------------------------

Init ==
  /\ request_counts = Empty /\ error_counts = Empty /\ duration_totals = Empty
  /\ total_requests = 0 /\ total_errors = 0
  /\ seen = <<>>

\* Metrics::record
Record(e, status, ms) ==
  /\ Len(seen) < MaxServed
  /\ request_counts' = Plus(request_counts, e, 1)
  /\ duration_totals' = Plus(duration_totals, e, ms)
  /\ total_requests' = total_requests + 1
  /\ error_counts' = IF IsError(status) THEN Plus(error_counts, e, 1) ELSE error_counts
  /\ total_errors' = total_errors + IF IsError(status) THEN 1 ELSE 0
  /\ seen' = Append(seen, [endpoint |-> e, failed |-> status \in Failures, ms |-> ms])

\* metrics_clear
Clear ==
  /\ request_counts' = Empty /\ error_counts' = Empty /\ duration_totals' = Empty
  /\ total_requests' = 0 /\ total_errors' = 0
  /\ seen' = <<>>

Next ==
  \/ \E e \in Endpoints, status \in Successes \cup Failures, ms \in Durations : Record(e, status, ms)
  \/ Clear

Spec == Init /\ [][Next]_vars

---------------------------------------------------------------------------------

\* Where in seen an endpoint was asked, and where a request failed.
Of(e) == {i \in DOMAIN seen : seen[i].endpoint = e}
Failed == {i \in DOMAIN seen : seen[i].failed}

Sum(s) ==
  LET sum[i \in 0 .. Len(s)] == IF i = 0 THEN 0 ELSE sum[i - 1] + s[i]
  IN sum[Len(s)]
\* The numbers of a view's lines.
Numbers(series) == [i \in DOMAIN series |-> series[i][2]]

\* Both views tell what was served since the metrics were cleared ("Global counters"
\* and the counts "by method+path key" of state.rs): the totals, the requests and the
\* failures of every endpoint met and of no other, and an average between the fastest
\* and the slowest.  The two views' series add up to the same totals, though two
\* endpoints may have one label.
MetricsTellWhatWasServed ==
  /\ Json.requests = Len(seen) /\ Json.errors = Cardinality(Failed)
  /\ DOMAIN Json.endpoints = {seen[i].endpoint : i \in DOMAIN seen}
  /\ \A e \in DOMAIN Json.endpoints :
       /\ Json.endpoints[e].requests = Cardinality(Of(e))
       /\ Json.endpoints[e].errors = Cardinality(Of(e) \cap Failed)
       /\ \E fast, slow \in Of(e) :
            seen[fast].ms <= Json.endpoints[e].avg_ms /\ Json.endpoints[e].avg_ms <= seen[slow].ms
  /\ Sum(Numbers(Prometheus.endpoints)) = Json.requests
  /\ Sum(Numbers(Prometheus.failures)) = Json.errors

=================================================================================
