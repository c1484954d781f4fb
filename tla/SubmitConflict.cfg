SPECIFICATION Spec
SYMMETRY Symmetry
CONSTANTS
  s1 = s1
  s2 = s2
  k1 = k1
  Submissions = {s1, s2}
  Keys = {k1}
  NoKey = NoKey
CHECK_DEADLOCK FALSE
INVARIANT NoServerError
