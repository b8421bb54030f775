CONSTANTS
  Workers = {w1}
  Keys = {pull, k1}
  Pull = pull
  NoKey = NoKey
  JobIds = {1, 2}
  NoJob = NoJob
  MaxAttempts = 2
  BackoffLen = 2
  AttemptBound = 3
SPECIFICATION FairSpec
PROPERTIES
  Settles
  PullPolls
