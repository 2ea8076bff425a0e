SPECIFICATION Spec
CONSTANTS
  p1 = p1
  p2 = p2
  MaxGenerations = 1
  SHA <- SameSHA
  Repetitions = 1
  Warmups = 1
  Requests = {p1, p2}
  Verdicts = {"pass"}
  ClientLinks <- LinkPrefixes
  Measured = {2}
  Offered <- Requested
  AgentEndings = {"completed"}
  ExecutionEndings = {"passed", "lost"}
SYMMETRY Symmetry
CHECK_DEADLOCK FALSE
INVARIANTS
    
    OneOutcomeReported
    CompletedExperimentIsDone
    StartedMeansScheduled
PROPERTIES
    MeasuredEvidenceFrozen
    ProjectionNeverRegresses
