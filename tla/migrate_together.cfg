CONSTANTS
    r1 = r1
    r2 = r2
    m1 = m1
    m2 = m2
    Replicas = {r1}
    Migrators = {m1, m2}
    ReplicaOf <- SameProcess
    MaxConns = 2
    Latest = 1
    MigrationSchema = "public"
    DefaultSchema = "public"
    Baselines = {FALSE}
    MaxPolls = 1
    MaxCalls = 2
    MaxCrashes = 0
    NoConn = NoConn
SPECIFICATION Spec
INVARIANT AppliedOnce
