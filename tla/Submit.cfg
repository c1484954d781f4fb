SPECIFICATION FairSpec
CONSTANTS
  s1 = s1
  s2 = s2
  s3 = s3
  k1 = k1
  k2 = k2
  Submissions = {s1, s2, s3}
  Keys = {k1, k2}
  NoKey = NoKey
CHECK_DEADLOCK FALSE
INVARIANT TypeOK
INVARIANT SameKeySameJob
INVARIANT DispatchedIsDurable
PROPERTY SubmissionEnds
