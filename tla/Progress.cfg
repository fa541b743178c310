\* Nine parts side by side, each under its own fairness; bounds are in MCProgress.
SPECIFICATION Spec
PROPERTIES
    RoundTripEnds   CloseReaches 
    CloseRestores  SessionSettles
CHECK_DEADLOCK FALSE
