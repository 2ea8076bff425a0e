\* Two consumers and one fault, on one batch of two jobs.
SPECIFICATION Spec
CONSTANTS
    Workers = {w1, w2}
    Jobs = {1, 2}
    Batches = {1}
    BatchOf <- OneBatchOf
    Limit <- OneBatchLimit
    Protected = {2}
    MaxAttempts = 2
    MaxFaults = 1
    NoOwner = NoOwner
SYMMETRY WorkerSymmetry
INVARIANTS
    TerminalBatchSettled
    BatchVerdictSound
    StaleWorkerFenced
    RunsAgreeWithJobs
PROPERTIES
    LiveLeaseExclusive
    ImplementsLifecycle
