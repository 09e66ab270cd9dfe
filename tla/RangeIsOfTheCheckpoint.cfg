SPECIFICATION CallsAndReads
CONSTANTS
    MAX_MMR_SIZE = 64
    MaxLeaves = 4
    MaxRewrites = 1
    MaxRange = 3
    HomeLog = "log-a"
    OtherLogs = {"log-b"}
    MaxPos = 0
    MaxTree = 1
INVARIANT RangeIsOfTheCheckpoint
CHECK_DEADLOCK FALSE
