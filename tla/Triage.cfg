SPECIFICATION MCSpec
CONSTANTS
    RuleIds = {"rec-1", "c2b-1"}
    RuleRefs = {"rec-1"}
  Alerts = {a1}
  Workers = {w1, w2}
  Null = Null
  EmptyQuote = EmptyQuote
  Context <- MCContext
  Table <- MCTable
  Blocks <- MCBlocks
  Documents <- MCDocuments
  Verifications <- MCVerifications
  Settings = {TRUE, FALSE}
  Cap = 1
  JobMaxAttempts = 2
  MaxOccurrences = 2
  MaxClaims = 3
  LogLimit = 32
  LogCut = 8
  MostRows = 20
  RowsCut = 10
  MostSamples = 5
  SamplesCut = 3
  RowSize = 1
  SampleSize = 2
  NoMessage = NoMessage
  Tokens <- MCTokens
  Keys <- MCKeys
  Messages <- MCMessages
  MaxText = 4
INVARIANTS MessageSound FalsePositiveEarned OneSuggestion SpendBounded NothingStranded
CHECK_DEADLOCK FALSE
