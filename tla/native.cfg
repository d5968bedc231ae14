SPECIFICATION FairSpec
CONSTANTS
    Threshold = 2
    Data <- MCData
    Results <- MCResults
    MaxRetries = 1
INVARIANTS ArrivesIntact
PROPERTIES EndsAfterOneRun
CHECK_DEADLOCK FALSE
