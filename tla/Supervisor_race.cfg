\* Two overlapping invocations and a kill of one thread; nothing fails, and every
\* await is answered in the end.  (No symmetry: EveryCallEnds is a liveness property.)
SPECIFICATION FairHistorySpec
CONSTANTS
  NoRow = NoRow
  Threads = {t1}
  Requests = {r1, r2}
  Killers = {k1}
  MaxSteps = 2
  Graphs = {"default", "custom"}
  Overlap = TRUE
  Faults = {}
INVARIANT TypeOK
INVARIANT CheckpointChain
INVARIANT KilledOnlyWhenAsked
INVARIANT KillStopsWithinOneStep
INVARIANT PreemptiveKillIsObserved
PROPERTY EveryCallEnds
