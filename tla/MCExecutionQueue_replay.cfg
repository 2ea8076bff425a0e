\* Two consumers polling while the lease of a protected job has expired.
SPECIFICATION Spec
CONSTANTS
    Workers = {w1, w2, w3}
    Jobs = {1}
    Batches = {1}
    BatchOf <- SoloBatchOf
    Limit <- SerialLimit
    Protected = {1}
    MaxAttempts = 2
    MaxFaults = 0
    NoOwner = NoOwner
INVARIANT ProtectedNeverReplayed
