------------------------------ MODULE MCReports ------------------------------
(***************************************************************************)
(* The two reporters of the repository, which share nothing: the summary   *)
(* of the gate metrics and the permit scripts.  A behaviour exercises one  *)
(* of them and leaves the other in its initial state.                      *)
(***************************************************************************)
EXTENDS GateMetrics, Pipeline

MCNames == {"invoke", "other"}

MCLatencies == {4, 15, 20, 2005}

Row(name, ms) == [metric_name |-> name, metric_ms |-> ms]

\* Nothing, or twenty calls of one gate of which the first k were slow: one
\* more makes the rank of p95 integral.
MCHistories ==
  {<<>>} \cup {[i \in 1..20 |-> Row("invoke", IF i <= k THEN 2005 ELSE 15)] : k \in {1, 9}}

MCLengths == (0..4) \cup {20, 21}

Home == "New Construction - Residential"
Cellar == "Foundation"
Wiring == "Electrical"

Permit(name, town, type, valuation) ==
  [name |-> name, municipality |-> town, permit_type |-> type, valuation |-> valuation]

\* Days at the edges: none, nothing strategic, both sides of every threshold,
\* equal valuations, fewer critical permits than are alerted and more, more
\* permits, towns and rows than are listed.
MCDays ==
  {<<>>,
   <<Permit(1, "Lynn", Wiring, 1000000), Permit(2, "Lynn", Wiring, 1000000),
     Permit(3, "Lynn", Wiring, 1000000)>>,
   <<Permit(1, "Essex", Cellar, 99999), Permit(2, "Essex", Home, 500000),
     Permit(3, "Lynn", Wiring, 100000), Permit(4, "Lynn", Cellar, 999999)>>,
   <<Permit(1, "Essex", Home, 500000), Permit(2, "Essex", Cellar, 3000000),
     Permit(3, "Lynn", Home, 1000000), Permit(4, "Lynn", Cellar, 1500000),
     Permit(5, "Salem", Home, 600000), Permit(6, "Salem", Home, 1500000),
     Permit(7, "Salem", Cellar, 1000000)>>}

------------------------------------------------------------------------------
Metrics(name, ms) ==
  /\ RecordInvokeLatency(name, ms)
  /\ starts = 0
  /\ UNCHANGED vars

\* The table has as many rows as it may, or the scripts have been started as
\* often as they may.
Over ==
  /\ IF starts = 0 THEN Len(agent_metrics) + 1 \notin Lengths
     ELSE starts = MaxStarts /\ \A s \in Scripts : pc[s] \in Resting
  /\ UNCHANGED <<agent_metrics, vars>>

\* The scripts run beside an empty table.
Aside == agent_metrics = <<>> /\ UNCHANGED agent_metrics

ReportsInit == MetricsInit /\ Init

ReportsNext ==
  \/ \E name \in MetricNames, ms \in Latencies : Metrics(name, ms)
  \/ Aside /\ Fetch
  \/ Aside /\ SavePermits
  \/ Aside /\ Load
  \/ Aside /\ Unreadable("process", "permits")
  \/ Aside /\ SaveProcessed
  \/ Aside /\ SendDaily
  \/ Aside /\ SendBreakdown
  \/ Aside /\ SendStrategic
  \/ Aside /\ SkipStrategic
  \/ Aside /\ SendAlert
  \/ Aside /\ Report
  \/ Aside /\ LoadProcessed
  \/ Aside /\ Unreadable("digest", "processed")
  \/ Aside /\ LoadRaw
  \/ Aside /\ SaveMarkdown
  \/ Aside /\ Convert
  \/ \E s \in Scripts : Aside /\ Dies(s)
  \/ Over

ReportsSpec == ReportsInit /\ [][ReportsNext]_<<agent_metrics, vars>>

FairReportsSpec ==
  /\ ReportsSpec
  /\ \A s \in Scripts : WF_<<agent_metrics, vars>>(Aside /\ Step(s))

==============================================================================
