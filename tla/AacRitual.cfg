SPECIFICATION Spec
CONSTANTS
    Bundles <- BundlesTried
    Mandates <- MandatesTried
INVARIANTS
    AlteredRecordsShow
    ViewsAgree
    
    PanelsAgree
CHECK_DEADLOCK FALSE
