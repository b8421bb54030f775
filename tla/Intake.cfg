CONSTANTS
  Alerts = {}
  Heartbeats = {h1, h2, h3}
  Faulty = {}
  Pullers = {p1, p2}
  Backfills = {}
  Replays = {}
  Archive = {}
  PageSize = 2
  Overlap = 2
  Lateness = 1
  MaxPull = 1
  MaxTime = 4
SPECIFICATION Spec
SYMMETRY MCSymmetry
INVARIANTS
  NothingLeftBehind
PROPERTIES
  CursorMovesOn
