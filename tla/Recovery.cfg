SPECIFICATION FairSpec
CONSTANTS
  Jobs = {1}
  Workers = {w1, w2}
  Requests = {r1}
  w1 = w1
  w2 = w2
  r1 = r1
  NoWorker = NoWorker
  NoJob = NoJob
  NoHandler = {}
  BatchJobs = {}
  BatchItems = 2
  ApiOps = {"submit", "retry"}
  MaxCalls = 1
  DefaultMaxAttempts = 2
  DeadLetterMaxLen = 1
  BatchSize = 1
  ClockSkew = FALSE
  FaultKinds = {"crash", "stop", "redis", "restart", "drop"}
  MaxFaults = 1
PROPERTY JobsSettle
PROPERTY LifecycleLive
