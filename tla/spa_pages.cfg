CONSTANTS
    r1 = r1
    g1 = g1
    g2 = g2
    Replicas = {r1}
    Goroutines = {g1, g2}
    ReplicaOf <- Together
    Versions = {"v1", "v2"}
    Published = {"v1", "v2"}
    Default = "v1"
    Blank = ""
    Faults = {"query"}
    MaxCalls = 3
    Paths = {"/a"}
    Index = "/"
    Capacity <- SmallCaches
    FlushListens = TRUE
    NoPage = NoPage
SPECIFICATION FairPSpec
INVARIANTS
    PTypeOK
    AnswerForward
    PageOfVersion
    WithinCapacity
PROPERTIES
    CacheForward
    RequestsAnswered
