\* Against "Enforces a wall-clock timeout": the loop and the clock are fair, the
\* helper that holds the pipes may run for ever.
SPECIFICATION LoopSpec
CONSTANTS
  Calls = {c1}
  Allowed = {c1}
  MaxOutput = 1
PROPERTY TimeoutIsEnforced
