\* A client sends the same resume twice.
SPECIFICATION Spec
CONSTANTS
    Procs = {p1, p2, p3}
    Cancels = {}
    MaxTurns = 1
    MaxModelCalls = 1
    CallsPerTurn = 1
    MaxCalls = 1
    MaxFaults = 0
    DuplicateResume = TRUE
    NoProc = NoProc
CHECK_DEADLOCK FALSE
INVARIANT OneResultPerCall
