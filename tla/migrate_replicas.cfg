CONSTANTS
    r1 = r1
    r2 = r2
    m1 = m1
    m2 = m2
    Replicas = {r1, r2}
    Migrators = {m1, m2}
    ReplicaOf <- EachItsOwn
    MaxConns = 2
    Latest = 2
    MigrationSchema = "public"
    DefaultSchema = "public"
    Baselines = {TRUE, FALSE}
    MaxPolls = 1
    MaxCalls = 2
    MaxCrashes = 1
    NoConn = NoConn
SPECIFICATION FairSpec
INVARIANTS
    TypeOK
    ReplicasExcluded
    LockCovers
    ExecutedOnce
PROPERTIES
    SuccessMeansCurrent
    CallsReturn
    ImplementsHistory
