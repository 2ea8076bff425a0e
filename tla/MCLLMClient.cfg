SPECIFICATION FairSpec
CONSTANTS
  c1 = c1
  c2 = c2
  Calls = {c1, c2}
  MaxAttempts = 3
  MaxFailures = 2
INVARIANTS
    RecordedAttemptsContiguous
    OpenedByFailures
    OpenCircuitBoundsLoad
PROPERTIES
    CallReturns
