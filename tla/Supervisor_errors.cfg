\* Two overlapping invocations and a kill of one thread; the database, the bus
\* and the step function may raise wherever they are awaited.
SPECIFICATION Spec
CONSTANTS
  NoRow = NoRow
  Threads = {t1}
  Requests = {r1, r2}
  Killers = {k1}
  MaxSteps = 1
  Graphs = {"default", "custom"}
  Overlap = TRUE
  Faults = {"database", "bus", "step"}
SYMMETRY Symmetry
INVARIANT AuditFirst
INVARIANT RefusedLeavesNoTrace
INVARIANT EventProtocol
INVARIANT MetricOnce
