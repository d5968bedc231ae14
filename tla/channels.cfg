SPECIFICATION FairSpec
CONSTANTS
    Ends = {a, b}
    Sending = {a}
    Answering = {b}
    MaxMsgs = 2
    MaxFaults = 1
INVARIANTS Faithful
PROPERTIES EndsLearn
CHECK_DEADLOCK FALSE
