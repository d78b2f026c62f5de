CONSTANTS
    Procs = {p1, p2, p3}
    GS = GS
    Keys = {k1}
    NoKey = NoKey
    Kind <- AllEmbedded
    MaxCalls = 3
    Ops = {"open", "close"}
    Faults = {}
SYMMETRY Symmetric
SPECIFICATION Spec
INVARIANT ServerStopped
