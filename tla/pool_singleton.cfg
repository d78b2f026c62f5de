CONSTANTS
    Procs = {p1, p2, p3}
    GS = GS
    Keys = {k1}
    NoKey = NoKey
    Kind <- AllCloudSQL
    MaxCalls = 3
    Ops = {"open"}
    Faults = {"provision"}
SYMMETRY Symmetric
SPECIFICATION Spec
INVARIANT OnePoolPerKey
