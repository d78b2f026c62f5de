CONSTANTS
    r1 = r1
    r2 = r2
    g1 = g1
    g2 = g2
    g3 = g3
    Replicas = {r1, r2}
    Goroutines = {g1, g2, g3}
    ReplicaOf <- TwoAndOne
    Versions = {"v1", "v2"}
    Published = {"v2"}
    Default = "v1"
    Blank = ""
    Faults = {}
    MaxCalls = 2
SPECIFICATION Spec
INVARIANT SetRefreshes
