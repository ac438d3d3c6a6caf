\* Gate metrics up to the first integral rank of p95, and the permit scripts
\* over four days, started four times in any order and dying anywhere.
SPECIFICATION FairReportsSpec
CONSTANTS
  MetricNames <- MCNames
  Latencies <- MCLatencies
  Histories <- MCHistories
  Lengths <- MCLengths
  Days <- MCDays
  Absent = Absent
  Partial = Partial
  MaxStarts = 4
  BatchSize = 2
  AlertCap = 4
  TopPermits = 2
  TopTowns = 2
  TopOfType = 1
  CriticalRows = 3
  TableRows = 4
INVARIANT PercentilesSplitTheSample
INVARIANT SummaryIsConsistent
INVARIANT NobodyWorksOnHalfAFile
INVARIANT AlertsTileTheCriticals
INVARIANT AnnouncedAlertsAreAccountedFor
INVARIANT MessagesTellTheDay
INVARIANT DigestTellsTheDay
PROPERTY FiguresFollowTheCalls
PROPERTY ScriptsEnd
