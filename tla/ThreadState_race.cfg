\* Overlapping calls of state.py.
SPECIFICATION Spec
CONSTANTS
  NoRow = NoRow
  Threads = {t1}
  Callers = {c1, c2, c3}
SYMMETRY Symmetry
INVARIANT CallerTypeOK
PROPERTY SettledKillIsPermanent
