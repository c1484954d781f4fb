SPECIFICATION Spec
CONSTANTS
  w1 = w1
  w2 = w2
  Workers = {w1, w2}
  Off <- Offsets
  Jobs = {1}
  NoWorker = NoWorker
  NoJob = NoJob
  Lease = 6
  JobTimeout = 1
  Interval = 1
  Ttl = 7
  ReaperPoll = 1
  Delay = 1
  Skew = 1
  MaxDown = 1
INVARIANT LeaseOutlivesRun ReapedInTime ListedWhileUp DeadPruned
