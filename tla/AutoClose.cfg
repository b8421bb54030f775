SPECIFICATION MCSpec
SYMMETRY Symmetry
CONSTANTS
    Null = Null
    Broken = Broken
    Malformed = Malformed
    inv = inv
    moved = moved
    ids = ids
    csv = csv
    Files <- MCFiles
    Csv = {csv}
    Versions <- MCVersions
    PathLists <- MCPathLists
    Loads = {l1, l2}
    MaxEdits = 1
    MaxLoads = 3
    Alerts <- MCAlerts
    NeverAgents = {"never"}
    Rules <- MCRules
    LastInstant = 2
INVARIANTS
    TablesFollowFiles
    ClosedIsClean
    SimulationAgrees
CHECK_DEADLOCK FALSE
