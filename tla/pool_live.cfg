CONSTANTS
    Procs = {p1, p2}
    GS = GS
    Keys = {k1, k2}
    NoKey = NoKey
    Kind <- EmbeddedAndPlain
    MaxCalls = 3
    Ops = {"open", "close", "signal"}
    Faults = {"newPool"}
SPECIFICATION FairSpec
INVARIANTS
    NoForgottenServer
    ShutdownLeavesNoServer
PROPERTIES
    CallsReturn
    ShutdownCompletes
