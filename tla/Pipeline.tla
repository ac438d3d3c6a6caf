------------------------------- MODULE Pipeline -------------------------------
(***************************************************************************)
(* The permit scripts as three programs that work on one directory: fetch  *)
(* (fetch_permits.py) writes the day's report, process                     *)
(* (process_and_notify.py) reads it, writes the processed lists and        *)
(* notifies the owner, digest (generate_digest.py) reads both and writes   *)
(* the digest, which an external tool converts to PDF.                     *)
(*                                                                         *)
(* Nothing orders the scripts or keeps two of them apart.  A file is       *)
(* opened with "w" in place, so that until it is closed it holds a part of *)
(* the new text and nothing of the old.  json.load raises on a part of a   *)
(* JSON file; a part of the digest can be read by whoever opens it.  A     *)
(* script may die at any point, and each is run once at a time.            *)
(***************************************************************************)
EXTENDS Permits

CONSTANTS
  Days,          \* the days there may be, each a sequence of permits
  Absent,        \* a file that does not exist
  Partial,       \* a file that was not written to its end
  MaxStarts      \* bound: how often a script is started, in all

Scripts == {"fetch", "process", "digest"}

Files == {"permits", "processed", "markdown", "pdf"}

Summaries == {"daily", "breakdown", "strategic"}

\* What the Slack tool says of an alert (one that failed may have arrived all
\* the same).  Of a summary it is printed and not kept: the script goes on
\* whatever it is.
Outcomes == {"sent", "failed"}

\* The name of a permit stands for its record (the ids are not always unique),
\* so that a day has each once.  A valuation is at least 5000.
ASSUME PipelineAssumption ==
  /\ Absent # Partial
  /\ MaxStarts \in Nat
  /\ \A day \in Days :
       /\ day \in Seq(Elements(day))
       /\ \A i \in 1..Len(day) : day[i].valuation \in Nat
       /\ \A i, j \in 1..Len(day) : day[i] = day[j] => i = j
  /\ \A day \in Days :
       LET report == fetch_all_permits(day)
       IN  /\ report \notin {Absent, Partial}
           /\ ProcessedOutput(process_permits(report.permits), report) \notin {Absent, Partial}

VARIABLES
  portal,      \* the permits issued this day
  file,        \* the files' contents
  pc,          \* where each script is
  starts,      \* how often one was started
  data,        \* process: the report it has loaded
  processed,   \* process: the lists it has made of it
  alerts,      \* process: the alerts it has tried to send, with their outcomes
  sent,        \* process: the alerts it counts as sent
  failed,      \* process: and as failed
  told,        \* what the summaries say
  lists,       \* digest: the processed lists it has loaded
  draft        \* digest: the text it writes

counts == <<sent, failed>>
notices == <<alerts, told>>
vars == <<portal, file, pc, starts, data, processed, notices, counts, lists, draft>>

Resting == {"idle", "done"}

Init ==
  /\ portal \in Days
  /\ file = [f \in Files |-> Absent]
  /\ pc = [s \in Scripts |-> "idle"]
  /\ starts = 0
  /\ data = Absent
  /\ processed = Absent
  /\ alerts = <<>>
  /\ sent = 0 /\ failed = 0
  /\ told = [k \in Summaries |-> Absent]
  /\ lists = Absent
  /\ draft = Absent

Goto(s, l) == pc' = [pc EXCEPT ![s] = l]

Start(s) ==
  /\ pc[s] \in Resting
  /\ starts < MaxStarts
  /\ starts' = starts + 1

\* json.load does not raise: used of the JSON files only.
Readable(f) == file[f] \notin {Absent, Partial}

Write(f, content) == file' = [file EXCEPT ![f] = content]

\* A script ends with an exception: a traceback, or killed.
Dies(s) ==
  /\ pc[s] \notin Resting
  /\ Goto(s, "idle")
  /\ UNCHANGED <<portal, file, starts, data, processed, notices, counts, lists, draft>>

\* A script is started and raises at its first file.
Unreadable(s, f) ==
  /\ Start(s)
  /\ ~Readable(f)
  /\ Goto(s, "idle")
  /\ UNCHANGED <<portal, file, data, processed, notices, counts, lists, draft>>

------------------------------------------------------------------------------
(* fetch_permits.py *)

\* Mutated form: the file is written as the permits come in.
FetchIncrementally ==
  /\ Start("fetch")
  /\ Goto("fetch", "save")
  /\ Write("permits", fetch_all_permits(Top(portal, 1)))
  /\ UNCHANGED <<portal, data, processed, notices, counts, lists, draft>>

Fetch ==
  /\ Start("fetch")
  /\ Goto("fetch", "save")
  /\ Write("permits", Partial)
  /\ UNCHANGED <<portal, data, processed, notices, counts, lists, draft>>

SavePermits ==
  /\ pc["fetch"] = "save"
  /\ Write("permits", fetch_all_permits(portal))
  /\ Goto("fetch", "done")
  /\ UNCHANGED <<portal, starts, data, processed, notices, counts, lists, draft>>

------------------------------------------------------------------------------
(* process_and_notify.py *)

Load ==
  /\ Start("process")
  /\ Readable("permits")
  /\ data' = file["permits"]
  /\ processed' = process_permits(file["permits"].permits)
  /\ Write("processed", Partial)
  /\ Goto("process", "save")
  /\ told' = [k \in Summaries |-> Absent]
  /\ alerts' = <<>>
  /\ sent' = 0 /\ failed' = 0
  /\ UNCHANGED <<portal, lists, draft>>

SaveProcessed ==
  /\ pc["process"] = "save"
  /\ Write("processed", ProcessedOutput(processed, data))
  /\ Goto("process", "daily")
  /\ UNCHANGED <<portal, starts, data, processed, notices, counts, lists, draft>>

SendSummary(k, next, message) ==
  /\ told' = [told EXCEPT ![k] = message]
  /\ Goto("process", next)
  /\ UNCHANGED <<portal, file, starts, data, processed, alerts, counts, lists, draft>>

SendDaily ==
  /\ pc["process"] = "daily"
  /\ SendSummary("daily", "breakdown", DailySummary(processed, data))

SendBreakdown ==
  /\ pc["process"] = "breakdown"
  /\ SendSummary("breakdown", "strategic", MunicipalityBreakdown(processed))

SendStrategic ==
  /\ pc["process"] = "strategic"
  /\ processed.strategic # <<>>
  /\ SendSummary("strategic", "alerts", StrategicSummary(processed))

\* "No strategic permits": nothing is sent, and True returned.
SkipStrategic ==
  /\ pc["process"] = "strategic"
  /\ processed.strategic = <<>>
  /\ Goto("process", "alerts")
  /\ UNCHANGED <<portal, file, starts, data, processed, notices, counts, lists, draft>>

\* The loop of send_critical_permit_notifications; its round is told by the
\* alerts it has tried.
batch_start == Len(alerts) * BatchSize

\* Mutated form: the loop runs over all critical permits.
MoreAlertsUncapped == batch_start < Len(processed.critical)

\* Mutated form: the loop ends with the first alert that fails.
MoreAlertsUntilFailure == batch_start < Alerted(processed.critical) /\ failed = 0

MoreAlerts == batch_start < Alerted(processed.critical)

SendAlert ==
  /\ pc["process"] = "alerts"
  /\ MoreAlerts
  /\ \E outcome \in Outcomes :
       /\ alerts' = Append(alerts, [batch   |-> Batch(processed.critical, batch_start),
                                    outcome |-> outcome])
       /\ sent' = IF outcome = "sent" THEN sent + 1 ELSE sent
       /\ failed' = IF outcome = "sent" THEN failed ELSE failed + 1
  /\ UNCHANGED <<portal, file, pc, starts, data, processed, told, lists, draft>>

\* Prints the counts, and sent + 3 as the total.
Report ==
  /\ pc["process"] = "alerts"
  /\ ~MoreAlerts
  /\ Goto("process", "done")
  /\ UNCHANGED <<portal, file, starts, data, processed, notices, counts, lists, draft>>

------------------------------------------------------------------------------
(* generate_digest.py *)

LoadProcessed ==
  /\ Start("digest")
  /\ Readable("processed")
  /\ lists' = file["processed"]
  /\ Goto("digest", "raw")
  /\ UNCHANGED <<portal, file, data, processed, notices, counts, draft>>

LoadRaw ==
  /\ pc["digest"] = "raw"
  /\ Readable("permits")
  /\ draft' = generate_markdown(lists, file["permits"])
  /\ Write("markdown", Partial)
  /\ Goto("digest", "save")
  /\ UNCHANGED <<portal, starts, data, processed, notices, counts, lists>>

\* Mutated form: the digest waits for the report.
AwaitRaw == pc["digest"] = "raw" /\ ~Readable("permits") /\ UNCHANGED vars

\* json.load, or open, raises.
NoRaw == pc["digest"] = "raw" /\ ~Readable("permits") /\ Dies("digest")

SaveMarkdown ==
  /\ pc["digest"] = "save"
  /\ Write("markdown", draft)
  /\ Goto("digest", "convert")
  /\ UNCHANGED <<portal, starts, data, processed, notices, counts, lists, draft>>

\* manus-md-to-pdf: done, or failed with or without having touched the file.
Convert ==
  /\ pc["digest"] = "convert"
  /\ \E pdf \in {file["markdown"], Partial, file["pdf"]} : Write("pdf", pdf)
  /\ Goto("digest", "done")
  /\ UNCHANGED <<portal, starts, data, processed, notices, counts, lists, draft>>

------------------------------------------------------------------------------
Step(s) ==
  CASE s = "fetch"   -> SavePermits
    [] s = "process" -> \/ SaveProcessed \/ SendDaily \/ SendBreakdown \/ SendStrategic
                        \/ SkipStrategic \/ SendAlert \/ Report
    [] s = "digest"  -> LoadRaw \/ SaveMarkdown \/ Convert \/ NoRaw

Terminating ==
  /\ \A s \in Scripts : pc[s] \in Resting
  /\ starts = MaxStarts
  /\ UNCHANGED vars

Next ==
  \/ Fetch \/ SavePermits
  \/ Load \/ Unreadable("process", "permits") \/ SaveProcessed
  \/ SendDaily \/ SendBreakdown \/ SendStrategic \/ SkipStrategic \/ SendAlert \/ Report
  \/ LoadProcessed \/ Unreadable("digest", "processed") \/ LoadRaw \/ SaveMarkdown \/ Convert
  \/ \E s \in Scripts : Dies(s)
  \/ Terminating

Spec == Init /\ [][Next]_vars

(***************************************************************************)
(* A script that was started is run on, and the tools it calls answer.     *)
(***************************************************************************)
FairSpec == Spec /\ \A s \in Scripts : WF_vars(Step(s))


------------------------------------------------------------------------------
(***************************************************************************)
(* Properties.  They are stated over the day itself, portal.               *)
(***************************************************************************)
TheReport == fetch_all_permits(portal)

ListsOf(report) == ProcessedOutput(process_permits(report.permits), report)

TheLists == LET report == TheReport IN ListsOf(report)

TheDigest == LET report == TheReport IN generate_markdown(ListsOf(report), report)

(***************************************************************************)
(* Whatever order the scripts are run in, and whatever dies half-way: a    *)
(* JSON file that can be read is the day's, whole, and so is all that a    *)
(* script works with.  There is no lock and no rename, only json.load,     *)
(* which raises on a part (process_and_notify.py:33-36,                    *)
(* generate_digest.py:14-20).  Of the digest and its PDF only the first is *)
(* vouched for, and only from the end of its script's own write            *)
(* (generate_digest.py:137-139): what is in them is the day's or a part    *)
(* that nothing refuses.                                                   *)
(***************************************************************************)
NobodyWorksOnHalfAFile ==
  /\ Readable("permits") => file["permits"] = TheReport
  /\ Readable("processed") => file["processed"] = TheLists
  /\ \A f \in {"markdown", "pdf"} : file[f] \in {Absent, Partial, TheDigest}
  /\ pc["digest"] \in {"convert", "done"} => file["markdown"] = TheDigest
  /\ data \in {Absent, TheReport}
  /\ processed \in {Absent, process_permits(TheReport.permits)}
  /\ lists \in {Absent, TheLists}
  /\ pc["process"] # "idle" =>
       data = TheReport /\ processed = process_permits(TheReport.permits)
  /\ pc["digest"] # "idle" => lists = TheLists

Critical == OfPriority(TheReport.permits, "CRITICAL")

(***************************************************************************)
(* The alerts of a run tile the critical permits: each goes on where the   *)
(* one before ended, whether that was sent or not, none goes past the cap  *)
(* of 25, none is larger than 5, and the numbers they announce ("Batch     *)
(* 2/3", "Showing 6-10 of 12") are those that come                         *)
(* (process_and_notify.py:118-137).                                        *)
(***************************************************************************)
AlertsTileTheCriticals ==
  /\ \A i \in DOMAIN alerts :
       LET b == alerts[i].batch
       IN  /\ b.first = IF i = 1 THEN 1 ELSE alerts[i - 1].batch.last + 1
           /\ b.last \in b.first..b.first + BatchSize - 1
           /\ b.last <= Alerted(Critical)
           /\ b.permits = SubSeq(Critical, b.first, b.last)
           /\ b.number = i /\ b.of >= Len(alerts) /\ b.total = Len(Critical)
  /\ pc["process"] = "done" =>
       IF alerts = <<>> THEN Alerted(Critical) = 0
       ELSE LET b == alerts[Len(alerts)].batch
            IN  b.last = Alerted(Critical) /\ b.of = Len(alerts)

------------------------------------------------------------------------------
\* How many permits of the day are in S, and what they are worth.
HowMany(S) == Cardinality({i \in 1..Len(portal) : portal[i] \in S})

Worth(S) ==
  Total([i \in 1..Len(portal) |-> IF portal[i] \in S THEN portal[i].valuation ELSE 0])

AllPermits == Elements(portal)

StrategicOnes == {p \in AllPermits : is_strategic(p)}

CriticalOnes == {p \in AllPermits : p.valuation >= 1000000}

HighOnes == {p \in AllPermits : 500000 <= p.valuation /\ p.valuation < 1000000}

AlertsWith(outcome) == {i \in DOMAIN alerts : alerts[i].outcome = outcome}

\* The permits that the alerts of one outcome name.
PermitsIn(outcome) ==
  UNION {Elements(alerts[i].batch.permits) : i \in AlertsWith(outcome)}

(***************************************************************************)
(* The daily summary says how many critical alerts were sent before any    *)
(* is, and says the number of critical permits (process_and_notify.py:191, *)
(* 215).  When the run is over, each of those is in exactly one of three   *)
(* places: named in an alert that was acknowledged, named in one that      *)
(* failed, or beyond the cap; and the counts printed at the end (line 322) *)
(* are of alerts, by their outcomes.  An alert that fails neither ends the *)
(* loop nor is sent again.                                                 *)
(***************************************************************************)
AnnouncedAlertsAreAccountedFor ==
  pc["process"] = "done" =>
    LET beyond == HowMany(CriticalOnes) - Smaller(AlertCap, HowMany(CriticalOnes))
    IN  /\ told["daily"].alerts =
             Cardinality(PermitsIn("sent")) + Cardinality(PermitsIn("failed")) + beyond
        /\ PermitsIn("sent") \cap PermitsIn("failed") = {}
        /\ sent = Cardinality(AlertsWith("sent"))
        /\ failed = Cardinality(AlertsWith("failed"))

Having(S, field, key) == {p \in S : p[field] = key}

\* s lists n of the permits in S, or all there are, each once, and leaves out
\* none that is worth more.
MostValuable(s, n, S) ==
  /\ Elements(s) \subseteq S
  /\ Cardinality(Elements(s)) = Len(s)
  /\ Len(s) = Smaller(n, HowMany(S))
  /\ \A p \in S \ Elements(s) : \A i \in 1..Len(s) : s[i].valuation >= p.valuation

\* The lines count the permits in S by a field, the largest total first.
LinesAgree(lines, n, field, S) ==
  /\ \A i \in 1..Len(lines) :
       /\ lines[i].count = HowMany(Having(S, field, lines[i].key))
       /\ lines[i].val = Worth(Having(S, field, lines[i].key))
  /\ \A i, j \in 1..Len(lines) :
       i < j => lines[i].key # lines[j].key /\ lines[i].val >= lines[j].val
  /\ Len(lines) = Smaller(n, Cardinality({p[field] : p \in S}))
  /\ \A p \in S :
       \/ \E i \in 1..Len(lines) : lines[i].key = p[field]
       \/ \A i \in 1..Len(lines) : lines[i].val >= Worth(Having(S, field, p[field]))

(***************************************************************************)
(* The counts and totals of the summaries are those of all permits, their  *)
(* capped lists are the top of what they are taken from, "... and n more"  *)
(* counts the rest, and the alerts of a finished run name the most         *)
(* valuable critical permits (process_and_notify.py:109-260).  This is not *)
(* all that the summaries say.  Two of their sentences are not true of     *)
(* every day and are left out here: how many alerts were sent (line 215;   *)
(* what becomes of that number is AnnouncedAlertsAreAccountedFor) and      *)
(* which municipalities had no activity (line 258, a fixed list).          *)
(***************************************************************************)
MessagesTellTheDay ==
  /\ told["daily"] # Absent =>
       LET m == told["daily"]
       IN  /\ m.total = Len(portal) /\ m.total_valuation = Worth(AllPermits)
           /\ m.critical = HowMany(CriticalOnes) /\ m.high = HowMany(HighOnes)
           /\ m.strategic = HowMany(StrategicOnes)
           /\ m.active = Cardinality({p.municipality : p \in AllPermits})
           /\ MostValuable(m.top, TopPermits, AllPermits)
  /\ told["breakdown"] # Absent =>
       LET m == told["breakdown"]
       IN  /\ LinesAgree(m.lines, TopTowns, "municipality", AllPermits)
           /\ m.active = Len(m.lines) + m.more
           /\ m.active = Cardinality({p.municipality : p \in AllPermits})
  /\ told["strategic"] # Absent =>
       LET m == told["strategic"]
       IN  /\ m.count = HowMany(StrategicOnes)
           /\ LinesAgree(m.lines, m.count, "permit_type", StrategicOnes)
           /\ \A i \in 1..Len(m.lines) :
                MostValuable(m.lines[i].permits, TopOfType, Having(AllPermits, "permit_type", m.lines[i].key))
  /\ pc["process"] = "done" =>
       LET named == [i \in 1..Alerted(Critical) |->
                       LET a == CHOOSE a \in DOMAIN alerts :
                                  i \in alerts[a].batch.first..alerts[a].batch.last
                       IN  alerts[a].batch.permits[i - alerts[a].batch.first + 1]]
       IN  MostValuable(named, AlertCap, CriticalOnes)

(***************************************************************************)
(* From the moment generate_digest.py has written it to its end, the       *)
(* digest agrees with the day: its counts are those of all permits, its    *)
(* other tables and the register cover every permit once.  Its table of    *)
(* opportunities is in two parts, and each is the top of its own kind: the *)
(* critical permits, at most 30 of them, and then, up to 40 rows in all,   *)
(* the HIGH ones of three types.  The parts are not compared: when there   *)
(* are more than 30 critical permits the table leaves critical ones out    *)
(* and lists HIGH ones all the same (generate_digest.py:30-124).           *)
(***************************************************************************)
DigestTellsTheDay ==
  pc["digest"] \in {"convert", "done"} =>
    LET d        == file["markdown"]
        c        == Smaller(CriticalRows, HowMany(CriticalOnes))
        critical == SubSeq(d.rows, 1, c)
        high     == SubSeq(d.rows, c + 1, Len(d.rows))
    IN  /\ d.total = Len(portal) /\ d.total_valuation = Worth(AllPermits)
        /\ d.critical = HowMany(CriticalOnes) /\ d.high = HowMany(HighOnes)
        /\ d.strategic = HowMany(StrategicOnes)
        /\ d.active = Cardinality({p.municipality : p \in AllPermits})
        /\ MostValuable(critical, CriticalRows, CriticalOnes)
        /\ MostValuable(high, TableRows - c, {p \in HighOnes : p.permit_type \in ListedTypes})
        /\ LinesAgree(d.towns, Len(portal), "municipality", AllPermits)
        /\ LinesAgree(d.types, Len(portal), "permit_type", AllPermits)
        /\ MostValuable(d.register, Len(portal), AllPermits)
        /\ \A i, j \in 1..Len(d.register) :
             i < j => d.register[i].valuation >= d.register[j].valuation

(***************************************************************************)
(* A script that was started ends, with its work done or with an exception *)
(* (the tools it waits for are assumed to answer: subprocess.run has no    *)
(* timeout, process_and_notify.py:55).                                     *)
(***************************************************************************)
ScriptsEnd == \A s \in Scripts : pc[s] \notin Resting ~> pc[s] \in Resting

==============================================================================
