\* Accounts, login providers, clusters, management keys, agent certificates and telemetry.
SPECIFICATION SuiteSpec
CONSTANTS
    FirstUsers = {1}
    LaterUsers = {2}
    NewRoles = {"viewer"}
    AccountConcurrency = 2
    RemoteUsers = {1}
    Hasty = FALSE
    PostFails = FALSE
    RegistryVersions = 2
    RebuildTtl = 2
    BackoffTtl = 1
    Resolvers = {1, 2}
    ClusterMaxUid = 2
    MaxId = 3
    ClusterConcurrency = 2
    AdoptsRetiring = FALSE
    DeletesOverlap = FALSE
    Generations = 2
    Apis = {"api"}
    Writers = {1, 2}
    Keys = 2
    KeyMaxUid = 1
    MaxVersion = 2
    Cas = 2
    CertLife = 3
    RenewBelow = 2
    Replicas = {1, 2}
    IngestReports <- MCReports
    IngestLastTime = 7
    WindowPast = 3
    ExpiryDays = 2
    RetainDays = 3
    LapsedDays = 1
    InFlightReports = 2
INVARIANT AccountsSafe
PROPERTY ClustersSafe
PROPERTY TelemetrySafe
CHECK_DEADLOCK FALSE
