SPECIFICATION Spec
CONSTANTS
    r1 = r1
    r2 = r2
    r3 = r3
    k1 = k1
    k2 = k2
    Requests <- MCRequests
    Scenarios <- MCScenarios
    Keys <- MCKeys
    Limits = {0, 1}
    Window = 2
    Cap = 2
    MaxTime = 3
INVARIANTS
    BurstBound
    VerdictIsOfTheContent
    WrappersAgree
    ReportIsOfTheInclusion
PROPERTIES
    RefusedOnlyWhenFull
    Answered
CHECK_DEADLOCK FALSE
