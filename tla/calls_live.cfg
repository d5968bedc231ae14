SPECIFICATION FairSpec
CONSTANTS
    RpcCalls = {r1}
    SvcCalls = {}
    MaxRetries = 2
    ErrKinds = {"err503"}
    AppConnects = TRUE
    MaxTeardowns = 2
INVARIANTS Integrity  NoLostCall
PROPERTIES CallEnds
CHECK_DEADLOCK FALSE
