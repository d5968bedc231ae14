SPECIFICATION FairSpec
CONSTANTS
    MaxBatches = 2
    MaxFrames = 3
INVARIANTS Boundaries
PROPERTIES Released Ends
CHECK_DEADLOCK FALSE
