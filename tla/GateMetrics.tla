------------------------------ MODULE GateMetrics ------------------------------
(***************************************************************************)
(* The table agent_metrics and the summary of it that GET /metrics/gates   *)
(* answers with (app/db/metrics.py): count, p50, p95, minimum and maximum  *)
(* per metric name, with linearly interpolated percentiles.                *)
(*                                                                         *)
(* A latency is an integer number of tenths of a microsecond.  Percentiles *)
(* are integers in hundredths of that, so that interpolation is exact; the *)
(* summary rounds to microseconds, the round(..., 3) of the code.          *)
(* gate_latency_summary is one SELECT: it sees the table at one moment.    *)
(***************************************************************************)
EXTENDS Ordering

CONSTANTS
  MetricNames,   \* values of metric_name
  Latencies,     \* values of metric_ms
  Histories,     \* the tables that earlier calls may have left
  Lengths        \* bound: the numbers of rows a table may grow to

MetricRow == [metric_name : MetricNames, metric_ms : Latencies]

ASSUME MetricsAssumption ==
  /\ Latencies \subseteq Nat
  /\ Lengths \subseteq Nat
  /\ \A history \in Histories : history \in Seq(MetricRow)

VARIABLE agent_metrics   \* the rows, in the order of their insertion

MetricsInit == agent_metrics \in Histories

RecordInvokeLatency(name, ms) ==
  /\ Len(agent_metrics) + 1 \in Lengths
  /\ agent_metrics' = Append(agent_metrics, [metric_name |-> name, metric_ms |-> ms])

MetricsNext ==
  \E name \in MetricNames, ms \in Latencies : RecordInvokeLatency(name, ms)

MetricsSpec == MetricsInit /\ [][MetricsNext]_agent_metrics

------------------------------------------------------------------------------
\* Mutated form: the value at the rounded-down rank.
PercentileNotInterpolated(sorted_vals, pct) ==
  100 * sorted_vals[(pct * (Len(sorted_vals) - 1)) \div 100 + 1]

(***************************************************************************)
(* The summary.  rank is in hundredths of a position; the two early        *)
(* returns of the code, for one value and for an integral rank, are what   *)
(* interpolation gives there.                                              *)
(***************************************************************************)
_percentile(sorted_vals, pct) ==
  LET rank == pct * (Len(sorted_vals) - 1)
      lo   == sorted_vals[rank \div 100 + 1]
      hi   == sorted_vals[(rank + 99) \div 100 + 1]
  IN  IF sorted_vals = <<>> THEN 0 ELSE 100 * lo + (hi - lo) * (rank % 100)

\* round(..., 3): to thousandths of a millisecond, half to even.
Rounded(x) ==
  LET q == x \div 1000
      r == x % 1000
  IN  IF r > 500 \/ (r = 500 /\ q % 2 = 1) THEN q + 1 ELSE q

\* Mutated form: one list for all names.
ValuesOfAll(rows, name) == [i \in 1..Len(rows) |-> rows[i].metric_ms]

\* by_name[name], before vals.sort() and after.
Values(rows, name) ==
  LET own == Selected(rows, {r \in Elements(rows) : r.metric_name = name})
  IN  [i \in 1..Len(own) |-> own[i].metric_ms]

\* Mutated form: the values of a name in the order of the SELECT.
UnsortedValues(rows, name) == Values(rows, name)

SortedValues(rows, name) ==
  LET vals == Values(rows, name)
  IN  Descending(vals, [i \in 1..Len(vals) |-> -vals[i]])

NamesOf(rows) == {rows[i].metric_name : i \in DOMAIN rows}

gate_latency_summary(rows) ==
  [name \in NamesOf(rows) |->
     LET vals == SortedValues(rows, name)
     IN  [count  |-> Len(vals),
          p50_ms |-> Rounded(_percentile(vals, 50)),
          p95_ms |-> Rounded(_percentile(vals, 95)),
          min_ms |-> Rounded(100 * vals[1]),
          max_ms |-> Rounded(100 * vals[Len(vals)])]]

------------------------------------------------------------------------------
(***************************************************************************)
(* Properties.                                                             *)
(***************************************************************************)
Reported == {50, 95}

Percentile(rows, name, pct) == _percentile(SortedValues(rows, name), pct)

Mirrored(rows) ==
  [i \in DOMAIN rows |-> [rows[i] EXCEPT !.metric_ms = -@]]

(***************************************************************************)
(* The percentile of _percentile (metrics.py:37-48) is one, at every       *)
(* length, with one value and at an integral rank: counted over the rows   *)
(* and without their order, it has at least the values up to its rank      *)
(* below or at it and the others above or at it; and it favours neither    *)
(* end, so that looking at the sample from above changes nothing.          *)
(***************************************************************************)
PercentilesSplitTheSample ==
  \A name \in NamesOf(agent_metrics), pct \in Reported :
    LET vals == Values(agent_metrics, name)
        P    == Percentile(agent_metrics, name, pct)
        n    == Len(vals)
    IN  /\ 100 * Cardinality({i \in 1..n : 100 * vals[i] <= P}) > pct * (n - 1)
        /\ 100 * Cardinality({i \in 1..n : 100 * vals[i] >= P}) > (100 - pct) * (n - 1)
        /\ Percentile(Mirrored(agent_metrics), name, 100 - pct) = -P

(***************************************************************************)
(* What /metrics/gates answers is consistent after its rounding: minimum,  *)
(* p50, p95 and maximum in this order, equal when there is one value, and  *)
(* every row counted under one name (metrics.py:51-70).                    *)
(***************************************************************************)
SummaryIsConsistent ==
  LET summary == gate_latency_summary(agent_metrics)
  IN  /\ \A name \in DOMAIN summary :
           /\ summary[name].min_ms <= summary[name].p50_ms
           /\ summary[name].p50_ms <= summary[name].p95_ms
           /\ summary[name].p95_ms <= summary[name].max_ms
           /\ summary[name].count = 1 => summary[name].min_ms = summary[name].max_ms
           /\ \E i \in DOMAIN agent_metrics :
                summary[name].max_ms = Rounded(100 * agent_metrics[i].metric_ms)
      /\ \A i \in DOMAIN agent_metrics : agent_metrics[i].metric_name \in DOMAIN summary
      /\ Len(agent_metrics) =
           Cardinality({x \in (DOMAIN summary) \X (1..Len(agent_metrics)) :
                          x[2] <= summary[x[1]].count})

(***************************************************************************)
(* A gate's figures move with its calls: one at least as slow as all       *)
(* before it lowers no percentile, one at least as fast raises none, and   *)
(* the figures of the other gates stay (metrics.py:51-70).                 *)
(***************************************************************************)
FiguresFollowTheCalls ==
  [][\A name \in NamesOf(agent_metrics), pct \in Reported :
       LET new    == agent_metrics'[Len(agent_metrics')]
           before == Values(agent_metrics, name)
           p      == Percentile(agent_metrics, name, pct)
           q      == Percentile(agent_metrics', name, pct)
       IN  /\ new.metric_name # name => q = p
           /\ (\A i \in DOMAIN before : before[i] <= new.metric_ms) /\ new.metric_name = name
                => q >= p
           /\ (\A i \in DOMAIN before : before[i] >= new.metric_ms) /\ new.metric_name = name
                => q <= p]_agent_metrics

==============================================================================
