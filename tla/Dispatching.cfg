SPECIFICATION FairSpec
CONSTANTS
  Jobs = {1, 2}
  Workers = {w1, w2}
  Requests = {r1}
  w1 = w1
  w2 = w2
  r1 = r1
  NoWorker = NoWorker
  NoJob = NoJob
  NoHandler = {2}
  BatchJobs = {}
  BatchItems = 2
  ApiOps = {"submit"}
  MaxCalls = 0
  DefaultMaxAttempts = 1
  DeadLetterMaxLen = 1
  BatchSize = 1
  ClockSkew = FALSE
  FaultKinds = {"restart", "drop"}
  MaxFaults = 1
INVARIANT DeadLetterIndex
PROPERTY JobsSettle
PROPERTY PendingDrained
