\* Against step 5 of the contract of invoke (runtime.py:119).
SPECIFICATION Spec
CONSTANTS
  NoRow = NoRow
  Threads = {t1}
  Requests = {r1}
  Killers = {}
  MaxSteps = 1
  Graphs = {"default", "custom"}
  Overlap = TRUE
  Faults = {}
INVARIANT EndOrKilled
