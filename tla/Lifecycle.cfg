\* Two requests at a time, and two lifespans in one process, whose
\* environment may change at any time.
SPECIFICATION FairSpec
CONSTANTS
  Requests = {r1, r2}
  Lifespan = lifespan
  Statements = 2
  MaxObjects = 4
INVARIANT LifecycleTypeOK
INVARIANT RequestsFindTheDatabaseReady
INVARIANT PartsBelongTogether
INVARIANT ReadyChecksTheBusInUse
INVARIANT NothingStaysOpen
PROPERTY StartsAndStopsEnd
