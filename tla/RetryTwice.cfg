SPECIFICATION Spec
CONSTANTS
  Jobs = {1}
  w1 = w1
  w2 = w2
  r1 = r1
  r2 = r2
  Workers = {w1, w2}
  Requests = {r1, r2}
  NoWorker = NoWorker
  NoJob = NoJob
  NoHandler = {}
  BatchJobs = {}
  BatchItems = 2
  ApiOps = {"submit", "retry"}
  MaxCalls = 2
  DefaultMaxAttempts = 1
  DeadLetterMaxLen = 1
  BatchSize = 1
  ClockSkew = FALSE
  FaultKinds = {}
  MaxFaults = 0
INVARIANT ExclusiveExecution
