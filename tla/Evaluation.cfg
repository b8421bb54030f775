SPECIFICATION MCSpec
CONSTANTS
    Heads = {h1, h2}
    Agents = {"m1"}
    Rules = {"expected", "other"}
    Scenarios = {s1, s2}
    Attacks = {"recon"}
    AgentOf <- MCAgentOf
    Expected <- MCExpected
    LastInstant = 4
    MaxWindow = 1
    Classified <- MCClassified
    Unknown = "unknown"
    Severities <- MCSeverities
    CritHigh = {"high"}
    MaxSize = 2
    NoPool = NoPool
    Prompts = {"v1.0", "v1.1"}
    Golds = {"g1", "g2"}
    TruthOf <- MCTruthOf
    Conditions <- MCConditions
    Manifest <- MCManifest
    Verdicts = {"escalate", "benign", "needs_review"}
    MaxDrop = 15
    NoRun = NoRun
    Draws = 1000
    Missing = Missing
    PublicAddresses = {"pub"}
    PrivateAddresses = {"priv"}
    HostOffset = 1
    RAW_LOG_MAX_BYTES = 5
    Bucket = 4
    IdleGap = 1
    MaxAge = 2
    MAX_CLUSTER_SIZE = 3
    DayLength = 2
    DisplayOffset = 1
    StormDay = 1
    ManifestRows <- MCManifestRows
    Posted <- MCPosted
    Strangers = {r}
    StrangerKey <- MCStrangerKey
    Loads = {l, m}
    Absent = Absent
SYMMETRY Symmetry
INVARIANTS
    AllocationSound
    LabTruth
    NoneSlips
    PapersFit
    FixturesSound
CHECK_DEADLOCK FALSE
