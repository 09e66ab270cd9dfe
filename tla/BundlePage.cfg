SPECIFICATION Spec
CONSTANTS
    MaxLoads = 2
    MaxFiles = 2
    MaxLists = 1
INVARIANTS
    WitnessIsFresh
    HashIsCurrent
    SoloPanelsAgree
PROPERTIES
    Settles
CHECK_DEADLOCK FALSE
