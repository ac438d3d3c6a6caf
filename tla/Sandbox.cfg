\* A call that is allowed and one that is not; calls do not share anything.
SPECIFICATION FairSpec
CONSTANTS
  Calls = {c1, c2}
  Allowed = {c1}
  MaxOutput = 3
INVARIANT SandboxTypeOK
INVARIANT ResultIsComplete
INVARIANT NoChildIsLeft
PROPERTY EveryCommandEnds
