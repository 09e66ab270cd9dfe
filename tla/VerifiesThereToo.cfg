SPECIFICATION Spec
CONSTANTS
    Bundles <- StatementsTried
    Mandates = {}
INVARIANT VerifiesThereToo
CHECK_DEADLOCK FALSE
