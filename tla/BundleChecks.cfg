SPECIFICATION Spec
CONSTANTS
    Bundles <- MCBundles
INVARIANTS
    CitesExactlyDescendants
    AllGreenMeansGenuine
    BareDisplaysAgree
CHECK_DEADLOCK FALSE
