SPECIFICATION Spec
CONSTANTS
    RpcCalls = {}
    SvcCalls = {s1, s2}
    MaxRetries = 0
    ErrKinds = {"err"}
    AppConnects = FALSE
    MaxTeardowns = 1
INVARIANTS NoLostCall
CHECK_DEADLOCK FALSE
