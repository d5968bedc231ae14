SPECIFICATION FairSpec
CONSTANTS
    Objects <- MCObjects
    Requests <- MCRequests
    Namespaces <- MCNamespaces
    Handlers <- MCHandlers
    Scenarios <- MCScenarios
    MaxValues = 1
    Idle = 0
INVARIANTS ServesWhatIsMarked SessionsEndOnce Subscribed InOrder
PROPERTIES LeavingReleases NotHeldUp
CHECK_DEADLOCK FALSE
