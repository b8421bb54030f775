SPECIFICATION MCSpec
CONSTANTS
    Peers = {g}
    Windowed = {h}
    Truth <- MCTruth
    Labelers = {ann, bob}
    Labels = {"benign", "escalate"}
    Null = Null
    MaxUndos = 1
    MaxFreezes = 2
    Heads <- MCHeads
    Rule <- MCRule
    Agent <- MCAgent
    Srcip <- MCSrcip
    Time <- MCTime
    Window = 2
    Risk <- MCRisk
    Count <- MCCount
    VisibleArm = {"p"}
    Order <- MCOrder
    NoAddress = NoAddress
    NoAnswer = NoAnswer
    MaxRows = 2
    MaxSamples = 1
    RetriageFactor = 2
    RetriageDelta = 2
    PageSize = 2
    Worlds = {v, w}
    Answers = {"false_positive", "unavailable"}
    MaxMoves = 3
SYMMETRY Symmetry
INVARIANTS
    GoldEarned
    SealedBorneOut
    NobodyPrimed
PROPERTY
    MeetingKept
CHECK_DEADLOCK FALSE
