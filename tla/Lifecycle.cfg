SPECIFICATION Spec
SYMMETRY Symmetry
CONSTANTS
  Jobs = {1}
  Workers = {w1, w2}
  Requests = {r1}
  w1 = w1
  w2 = w2
  r1 = r1
  NoWorker = NoWorker
  NoJob = NoJob
  NoHandler = {}
  BatchJobs = {1}
  BatchItems = 2
  ApiOps = {"submit", "cancel", "retry"}
  MaxCalls = 1
  DefaultMaxAttempts = 2
  DeadLetterMaxLen = 1
  BatchSize = 1
  ClockSkew = FALSE
  FaultKinds = {"crash", "stop", "redis", "drop"}
  MaxFaults = 2
INVARIANT ExclusiveExecution
INVARIANT AttemptBudget
INVARIANT ProgressTruthful
PROPERTY LifecycleImplemented
