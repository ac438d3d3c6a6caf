\* Clients that wait for their answers, and a kill at any time; calls are
\* cancelled and the process dies.
SPECIFICATION Spec
CONSTANTS
  NoRow = NoRow
  Threads = {t1}
  Requests = {r1, r2}
  Killers = {k1}
  MaxSteps = 2
  Graphs = {"default", "custom"}
  Overlap = FALSE
  Faults = {"cancel", "crash"}
SYMMETRY Symmetry
INVARIANT StepsAreCheckpointed
INVARIANT LinearHistory
INVARIANT KilledStaysKilled
