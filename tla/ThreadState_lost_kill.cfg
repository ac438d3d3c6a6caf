\* Overlapping calls against the comment "Preserve a previously-set kill flag".
SPECIFICATION Spec
CONSTANTS
  NoRow = NoRow
  Threads = {t1}
  Callers = {c1, c2}
PROPERTY KillFlagPreserved
