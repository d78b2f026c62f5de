CONSTANTS
    p1 = p1
    p2 = p2
    k1 = k1
    d1 = d1
    Procs = {p1, p2}
    Keys = {k1}
    Dirs = {d1}
    NoKey = NoKey
    MaxCalls = 3
    MaxFaults = 1
    Faults = {"start", "ensure", "newPool", "dies", "crash", "pid"}
SPECIFICATION FairSpec
INVARIANTS
    TypeOK
    TempUnderServer
    RuntimeUnderServer
    NoStrayServer
    NoResidue
PROPERTIES
    CallsReturn
    ShutdownStopsServers
