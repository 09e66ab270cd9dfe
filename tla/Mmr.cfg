SPECIFICATION CallsAndReads
CONSTANTS
    MAX_MMR_SIZE = 64
    MaxLeaves = 5
    MaxRewrites = 1
    MaxRange = 2
    HomeLog = "log-a"
    OtherLogs = {"log-b"}
    MaxPos = 40
    MaxTree = 7
INVARIANTS
    WitnessedLeafWasRegistered
    RangeIsTheTip
    PositionsAreTheLogs
    OnlyTheMintedProofPasses
PROPERTIES
    ImplementsLogView
    Returns
CHECK_DEADLOCK FALSE
