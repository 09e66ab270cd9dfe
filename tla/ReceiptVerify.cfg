SPECIFICATION Spec
CONSTANTS
    MAX_TREE_SIZE = 4
    MAX_INCLUSION_PROOFS = 2
    MAX_AUDIT_PATH = 2
    Inputs <- MCInputs
INVARIANTS
    AcceptsExactly
    OkIsAuthentic
    FailedAtTells
PROPERTIES
    PortsAgree
CHECK_DEADLOCK FALSE
