CONSTANTS
  Workers = {w1, w2}
  Keys = {pull, k1}
  Pull = pull
  NoKey = NoKey
  JobIds = {1, 2}
  NoJob = NoJob
  MaxAttempts = 2
  BackoffLen = 2
  AttemptBound = 3
SPECIFICATION Spec
SYMMETRY MCSymmetry
INVARIANTS
  LeaseExclusive
  AttemptsCounted
  PullArmed
PROPERTIES
  KilledOnlyWhenLate
