SPECIFICATION Spec
CONSTANTS
    RpcCalls = {r1}
    SvcCalls = {s1}
    MaxRetries = 1
    ErrKinds = {"err"}
    AppConnects = FALSE
    MaxTeardowns = 1
INVARIANTS PendingLive
PROPERTIES IsRemoteCall
CHECK_DEADLOCK FALSE
