SPECIFICATION Spec
CONSTANTS
    MAX_MMR_SIZE = 32
    CADENCE_DEPTH = 2
    MAX_TREE_SIZE = 5
    MAX_SAFE_INTEGER = 4
    Histories <- HistoriesTried
    Placements <- PlacementsTried
    MaxReceipts = 2
    MaxDefects = 1
INVARIANTS
    WitnessedMeansHeld
    ReceiptsPassWhenHeld
    FailureIsNamed
CHECK_DEADLOCK FALSE
