\* One run: two plan versions, two generations, one wasted call, one failing
\* save, insert or model call, a cancel request, a foreign batch.
SPECIFICATION Spec
CONSTANTS
    Definitions <- MCDefinitions
    Probes <- MCProbes
    Results <- MCResults
    Foreign <- MCForeign
    Outcomes <- MCOutcomes
    DraftKinds = {0, 3}
    MaxVersions = 2
    MaxGens = 2
    MaxWork = 3
    MaxWasted = 1
    MaxFaults = 1
    MaxRunPage = 1
    MaxRunFlow = 1
    MaxPlanPage = 1
    MaxPlanFlow = 1
CHECK_DEADLOCK FALSE
INVARIANTS
    TypeOK
    ReadyIsGrounded
    BindingFitsStep
    ExecutedAsApproved
    ApprovalIsCurrent
    CompletedHasVerdict
    RunWideProbeLimit
PROPERTIES
    CancelStartsNothing
