CONSTANTS
  Alerts = {a}
  Heartbeats = {h}
  Faulty = {f}
  Pullers = {p}
  Backfills = {b}
  Replays = {r}
  Archive = {a}
  PageSize = 1
  Overlap = 1
  Lateness = 1
  MaxPull = 0
  MaxTime = 2
SPECIFICATION FairSpec
INVARIANTS
  LedgerComplete
PROPERTIES
  AlertsAreResolved
