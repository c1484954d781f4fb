SPECIFICATION Spec
SYMMETRY Symmetry
CONSTANTS
  Jobs = {1}
  Workers = {w1, w2}
  Requests = {r1, r2}
  w1 = w1
  w2 = w2
  r1 = r1
  r2 = r2
  NoWorker = NoWorker
  NoJob = NoJob
  NoHandler = {}
  BatchJobs = {}
  BatchItems = 2
  ApiOps = {"submit", "cancel", "retry"}
  MaxCalls = 2
  DefaultMaxAttempts = 1
  DeadLetterMaxLen = 1
  BatchSize = 1
  ClockSkew = FALSE
  FaultKinds = {"crash", "stall", "stop"}
  MaxFaults = 1
INVARIANT TypeOK
INVARIANT ProcessingOwned
INVARIANT AttemptUnique
INVARIANT HolderNamesTask
