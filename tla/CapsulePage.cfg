SPECIFICATION Spec
CONSTANTS
    Fragments <- FragmentsTried
    Pasted <- PastedTried
    MaxUserSteps = 2
INVARIANTS
    WitnessIsEarned
    UntouchedPageIsGated
    MatchIsOfTheRow
    AnswerMeetsLoad
PROPERTIES
    PageSettles
CHECK_DEADLOCK FALSE
