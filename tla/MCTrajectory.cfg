SPECIFICATION Spec
CONSTANTS
  MaxModelCalls = 2
  MaxAttempts = 2
  MaxToolCalls = 3
  Jobs = {0, 1}
  MaxRetries = 2
  Steps = {1, 2}
CHECK_DEADLOCK FALSE
INVARIANTS
    CostPartitioned
    TerminalIsLast
    StepsInOrder
    
PROPERTIES
    PlacesAreKept
