SPECIFICATION FairSpec
CONSTANTS
    Procs = {p1, p2, p3}
    Cancels = {k1}
    MaxTurns = 3
    MaxModelCalls = 1
    CallsPerTurn = 2
    MaxCalls = 3
    MaxFaults = 2
    DuplicateResume = FALSE
    NoProc = NoProc
CHECK_DEADLOCK FALSE
INVARIANTS
    OneOutcome
    OneWriter
    TranscriptConsistent
    CancelReachesDriver
PROPERTIES
    CancelIsFinal
    
    EndIsAnnounced
