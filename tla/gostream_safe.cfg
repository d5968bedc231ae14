SPECIFICATION FairSpec
CONSTANTS
    Cap = 1
    MaxVals = 3
    Faults <- AllFaults
INVARIANTS NoSilentEnd CloseOnce CleanedUp
PROPERTY Reclaimed
CHECK_DEADLOCK FALSE
