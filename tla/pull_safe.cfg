SPECIFICATION FairSpec
CONSTANTS
    MaxVals = 3
    Faults <- OrderlyFaults
INVARIANTS InOrder Lockstep
PROPERTIES KeepsPromise ConsumerWakes SessionReleased
CHECK_DEADLOCK FALSE
