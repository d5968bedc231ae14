SPECIFICATION FairSpec
CONSTANTS
    MaxRetries = 1
    MaxVals = 2
INVARIANTS Delivered OneStream Released
PROPERTIES Ends
CHECK_DEADLOCK FALSE
