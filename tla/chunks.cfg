SPECIFICATION Spec
CONSTANTS
    t1 = t1
    t2 = t2
    s1 = s1
    s2 = s2
    Transfers = {t1, t2}
    Subs = {s1, s2}
    Listeners <- TwoAndOne
    ChunkSize = 2
    Sizes = {2, 3, 4}
    Objs = {o1, o2, o3}
    PoolLimit = 1
SYMMETRY Symmetry
INVARIANTS Bookkeeping Intact NoAliasing DeliveredOnce
CHECK_DEADLOCK FALSE
