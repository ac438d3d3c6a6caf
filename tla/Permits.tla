------------------------------- MODULE Permits -------------------------------
(***************************************************************************)
(* What the permit scripts compute (scripts/fetch_permits.py,              *)
(* process_and_notify.py, generate_digest.py): the report of a day, the    *)
(* classification of its permits, the notifications and the digest.        *)
(*                                                                         *)
(* A day is the sequence of the permits the municipalities issued, in the  *)
(* order of the fetch.  Of a permit the model keeps a name, municipality,  *)
(* type and valuation; amounts are left in dollars (format_valuation).     *)
(***************************************************************************)
EXTENDS Ordering

CONSTANTS
  BatchSize,      \* critical permits per alert (5)
  AlertCap,       \* critical permits that are alerted at all (25)
  TopPermits,     \* permits named in the daily summary (5)
  TopTowns,       \* municipalities in the breakdown (15)
  TopOfType,      \* permits named per strategic type (3)
  CriticalRows,   \* critical permits in the digest's table (30)
  TableRows       \* rows of that table (40)

ASSUME PermitsAssumption ==
  /\ {BatchSize, AlertCap, TopPermits, TopTowns, TopOfType, CriticalRows, TableRows}
       \subseteq Nat \ {0}
  /\ AlertCap % BatchSize = 0
  /\ CriticalRows <= TableRows

CRITICAL_THRESHOLD == 1000000
HIGH_THRESHOLD == 500000
MEDIUM_THRESHOLD == 100000

STRATEGIC_TYPES ==
  {"New Construction - Residential", "New Construction - Commercial",
   "Addition / Alteration - Commercial", "Demolition", "Foundation",
   "Renovation - Interior", "Renovation - Exterior"}

\* The types of HIGH permits that the digest lists.
ListedTypes ==
  {"New Construction - Residential", "New Construction - Commercial",
   "Addition / Alteration - Commercial"}

classify_priority(p) ==
  IF p.valuation >= CRITICAL_THRESHOLD THEN "CRITICAL"
  ELSE IF p.valuation >= HIGH_THRESHOLD THEN "HIGH"
  ELSE IF p.valuation >= MEDIUM_THRESHOLD THEN "MEDIUM"
  ELSE "LOW"

is_strategic(p) == p.permit_type \in STRATEGIC_TYPES

Smaller(a, b) == IF a <= b THEN a ELSE b

\* s[:n]
Top(s, n) == SubSeq(s, 1, Smaller(n, Len(s)))

Valuations(permits) == [i \in 1..Len(permits) |-> permits[i].valuation]

------------------------------------------------------------------------------
(***************************************************************************)
(* A table with a line per value of a field, a municipality or a type: how *)
(* many permits, and their total.  Lines come in the order of first        *)
(* appearance and are then sorted by their totals, which keeps that order  *)
(* between equals.                                                         *)
(***************************************************************************)
FirstOf(permits, field) ==
  {i \in 1..Len(permits) : \A j \in 1..i - 1 : permits[j][field] # permits[i][field]}

ValueOf(permits, field, key) ==
  Total([i \in 1..Len(permits) |->
           IF permits[i][field] = key THEN permits[i].valuation ELSE 0])

LineOf(permits, field, key) ==
  [key     |-> key,
   permits |-> Selected(permits, {p \in Elements(permits) : p[field] = key}),
   count   |-> Cardinality({i \in 1..Len(permits) : permits[i][field] = key}),
   val     |-> ValueOf(permits, field, key)]

TableBy(permits, field) ==
  LET firsts == FirstOf(permits, field)
  IN  Pick([i \in firsts |-> LineOf(permits, field, permits[i][field])],
           InOrder(firsts, [i \in firsts |-> ValueOf(permits, field, permits[i][field])]))

------------------------------------------------------------------------------
(***************************************************************************)
(* fetch_permits.py: the permits of all municipalities, the most valuable  *)
(* first, and the totals.  The fetch is a function of the date.            *)
(***************************************************************************)
ByValuation(permits) == Descending(permits, Valuations(permits))

fetch_all_permits(day) ==
  [total_permits         |-> Len(day),
   total_valuation       |-> Total(Valuations(day)),
   active_municipalities |-> Cardinality({day[i].municipality : i \in DOMAIN day}),
   permits               |-> ByValuation(day)]

(***************************************************************************)
(* process_and_notify.py: the lists, the file saved of them and what the   *)
(* notifications say.                                                      *)
(***************************************************************************)
\* Mutated form: > in place of >= for the critical ones.
OfPriorityStrict(permits, priority) ==
  Selected(permits, {p \in Elements(permits) : /\ classify_priority(p) = priority
                                               /\ p.valuation # CRITICAL_THRESHOLD})

OfPriority(permits, priority) ==
  Selected(permits, {p \in Elements(permits) : classify_priority(p) = priority})

Strategic(permits) == Selected(permits, {p \in Elements(permits) : is_strategic(p)})

process_permits(permits) ==
  [critical  |-> OfPriority(permits, "CRITICAL"),
   high      |-> OfPriority(permits, "HIGH"),
   medium    |-> OfPriority(permits, "MEDIUM"),
   low       |-> OfPriority(permits, "LOW"),
   strategic |-> Strategic(permits),
   all       |-> permits]

ProcessedOutput(processed, data) ==
  [summary |-> [total           |-> data.total_permits,
                total_valuation |-> data.total_valuation,
                critical        |-> Len(processed.critical),
                high            |-> Len(processed.high),
                medium          |-> Len(processed.medium),
                low             |-> Len(processed.low),
                strategic       |-> Len(processed.strategic)],
   critical_permits |-> processed.critical,
   high_permits     |-> processed.high]

\* alerts: "{critical_count} individual critical alerts sent", said before the
\* first is.
DailySummary(processed, data) ==
  [total           |-> data.total_permits,
   total_valuation |-> data.total_valuation,
   active          |-> data.active_municipalities,
   critical        |-> Len(processed.critical),
   high            |-> Len(processed.high),
   strategic       |-> Len(processed.strategic),
   top             |-> Top(processed.all, TopPermits),
   alerts          |-> Len(processed.critical)]

\* inactive: "Municipalities with no activity today", whatever the day.
MunicipalityBreakdown(processed) ==
  LET towns == TableBy(processed.all, "municipality")
  IN  [active   |-> Len(towns),
       lines    |-> Top(towns, TopTowns),
       more     |-> Len(towns) - Smaller(TopTowns, Len(towns)),
       inactive |-> {"Georgetown", "Lynn", "Marblehead", "Salem"}]

StrategicSummary(processed) ==
  LET types == TableBy(processed.strategic, "permit_type")
  IN  [count |-> Len(processed.strategic),
       lines |-> [i \in 1..Len(types) |->
                    [types[i] EXCEPT !.permits = Top(ByValuation(@), TopOfType)]]]

Alerted(critical) == Smaller(Len(critical), AlertCap)

\* critical[batch_start:batch_start + batch_size], with what the alert says of
\* its place; the slice ends with the list, not with the cap.
Batch(critical, batch_start) ==
  LET last == Smaller(batch_start + BatchSize, Len(critical))
  IN  [first   |-> batch_start + 1,
       last    |-> last,
       number  |-> batch_start \div BatchSize + 1,
       of      |-> (Alerted(critical) + BatchSize - 1) \div BatchSize,
       total   |-> Len(critical),
       permits |-> SubSeq(critical, batch_start + 1, last)]

------------------------------------------------------------------------------
(***************************************************************************)
(* generate_digest.py: the report over the two files.                      *)
(***************************************************************************)
ListedHigh(processed) ==
  LET high == processed.high_permits
  IN  Selected(high, {p \in Elements(high) : p.permit_type \in ListedTypes})

\* Mutated form: the second loop counts its own rows only.
StrategicRowsUncounted(processed) ==
  Top(processed.critical_permits, CriticalRows) \o Top(ListedHigh(processed), TableRows)

StrategicRows(processed) ==
  LET critical == Top(processed.critical_permits, CriticalRows)
  IN  critical \o Top(ListedHigh(processed), TableRows - Len(critical))

generate_markdown(processed, raw) ==
  [total           |-> raw.total_permits,
   total_valuation |-> raw.total_valuation,
   critical        |-> processed.summary.critical,
   high            |-> processed.summary.high,
   strategic       |-> processed.summary.strategic,
   active          |-> raw.active_municipalities,
   rows            |-> StrategicRows(processed),
   towns           |-> TableBy(raw.permits, "municipality"),
   types           |-> TableBy(raw.permits, "permit_type"),
   register        |-> raw.permits]

==============================================================================
