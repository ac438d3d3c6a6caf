\* Three overlapping writes, on SQLite and on a pool of two connections;
\* statements and commits are refused, calls are cancelled, connections are
\* lost and the process dies.
SPECIFICATION FairSpec
CONSTANTS
  NoWrite = NoWrite
  Writes = {w1, w2, w3}
  Connections = {c1, c2}
  MayCrash = TRUE
INVARIANT DatabaseTypeOK
INVARIANT AcknowledgedIsDurable
PROPERTY WritesAreAtomic
PROPERTY EveryWriteEnds
