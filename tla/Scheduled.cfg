SPECIFICATION FairSpec
CONSTANTS
  Jobs = {1}
  Workers = {w1}
  Requests = {r1, r2}
  w1 = w1
  r1 = r1
  r2 = r2
  NoWorker = NoWorker
  NoJob = NoJob
  NoHandler = {}
  BatchJobs = {}
  BatchItems = 2
  ApiOps = {"schedule", "cancel"}
  MaxCalls = 1
  DefaultMaxAttempts = 1
  DeadLetterMaxLen = 1
  BatchSize = 1
  ClockSkew = TRUE
  FaultKinds = {"redis", "restart", "drop", "stall"}
  MaxFaults = 2
INVARIANT NotBeforeSchedule
PROPERTY JobsSettle
PROPERTY StaleScheduleDropped
