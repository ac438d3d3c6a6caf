\* Calls of state.py one at a time, against the atomic specification.
SPECIFICATION SerialSpec
CONSTANTS
  NoRow = NoRow
  Threads = {t1, t2}
  Callers = {c1, c2}
PROPERTY SerialCallsAreAtomic
