CONSTANTS
    r1 = r1
    r2 = r2
    m1 = m1
    m2 = m2
    Replicas = {r1}
    Migrators = {m1}
    ReplicaOf <- Alone
    MaxConns = 2
    Latest = 1
    MigrationSchema = "orca"
    DefaultSchema = "public"
    Baselines = {FALSE}
    MaxPolls = 1
    MaxCalls = 1
    MaxCrashes = 0
    NoConn = NoConn
SPECIFICATION Spec
INVARIANT WithinSchema
