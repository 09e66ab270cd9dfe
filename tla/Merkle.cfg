SPECIFICATION CallsAndReads
CONSTANTS
    MAX_TREE_SIZE = 5
    Log <- MCLog
    Queries <- MCQueries
    MaxEntries = 5
    MaxProof = 4
    MaxPath = 3
    Held <- HeldEntries
    MaxRewrites = 1
INVARIANTS
    InclusionSound
    GuardsSuffice
    HonestProofsVerify
PROPERTIES
    FoldIsTheOperator
    ImplementsLogView
CHECK_DEADLOCK FALSE
