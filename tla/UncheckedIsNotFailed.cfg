SPECIFICATION Spec
CONSTANTS
    Fragments <- FragmentsTried
    Pasted <- PastedTried
    MaxUserSteps = 2
INVARIANT
    UncheckedIsNotFailed
CHECK_DEADLOCK FALSE
