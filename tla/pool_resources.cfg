CONSTANTS
    Procs = {p1, p2}
    GS = GS
    Keys = {k1, k2}
    NoKey = NoKey
    Kind <- DialerAndContainer
    MaxCalls = 3
    Ops = {"open", "close", "signal", "migrate"}
    Faults = {"newPool", "migrate"}
SYMMETRY Symmetric
SPECIFICATION Spec
INVARIANTS
    TypeOK
    CachedPoolOpen
    ClosedOnce
    DialerOutlivesPool
    DialerReleased
    OneUndisturbedPool
    ContainerOnOwnEntry
    WaitsForCreator
PROPERTIES
    ResolvedOpen
    ImplementsLifecycle
