SPECIFICATION Spec
CONSTANTS
    Subs = {s1, s2}
    Requests = {q1}
    Services = {v1}
    IsoHandlers = {h1}
    IsoChannels = {c1}
    IsoProxies = {p1}
    IsoServiceProxies = {x1}
    IsoServices = {w1}
    Overlap = FALSE
    MaxRegs = 3
    MaxConnects = 2
    MaxTeardowns = 2
    MaxOpts = 1
SYMMETRY RegSymmetry
INVARIANTS RegistrationsHold  OptionsCurrent
PROPERTIES DisconnectTakesKids
CHECK_DEADLOCK FALSE
