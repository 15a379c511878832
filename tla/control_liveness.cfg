\* Progress of the control plane and of the operator.
SPECIFICATION SuiteSpec
CONSTANTS
    Cas = 2
    CertLife = 2
    RenewBelow = 1
    Audited = 3
    ChannelSize = 2
    FlushCount = 2
    Attempts = 3
    Stragglers = FALSE
    Impatient = FALSE
    EnablePodStarts = 1
    PodChanges = 1
    EnabledCaptures = {1}
    Generations = 1
    ClusterMaxUid = 2
    MaxId = 2
    ClusterConcurrency = 1
    AdoptsRetiring = FALSE
    DeletesOverlap = FALSE
    Born = 1
    ConfigCatalog <- MCCatalog
    ModLoaders = {"paper"}
    ClaimOf <- MCClaimOf
    Edits = 1
    Apis = {"api"}
    Writers = {1}
    Keys = 2
    KeyMaxUid = 2
    MaxVersion = 1
    ModuleVersions = {1, 2}
    SpecEdits = 0
    StoreEdits = 1
    Verifies = TRUE
    NotifySinks = {1}
    QueueSize = 2
    Tries = 3
    NotifyReadFails = TRUE
    RegistryVersions = 2
    RebuildTtl = 2
    BackoffTtl = 1
    Resolvers = {1}
    TunnelKinds = {"tailscale"}
    TunnelEdits = 2
    Captures = 1
    PodLimit = 2
    Stoppable = {1}
    SameSecond = FALSE
    Restores = {r1}
    r1 = r1
    r2 = r2
    Posts = {1, 2}
    Dials = 2
    Networks = {"tcp", "udp"}
    Replicas = {1}
    LastRevision = 2
    EditLimit = 1
    Refs = {secret1}
    secret1 = secret1
    config1 = config1
    ScheduleMaxTime = 2
    CronTimes = {1, 2}
    Policies = {"Forbid", "Replace", "Allow"}
    Deadline = 0
    KeepLast = 1
    KeepDaily = 1
    DayLength = 2
    ShadowedPlain = FALSE
    NodeCaptures = 2
    StaleAfterEnd = FALSE
    Disturbed = {1}
    Langs = {1, 2}
    LayerSize = 1
    TotalSize = 2
    MapSize = 1
    Providers = {"frp", "playit", "tailscale"}
    CredRequests = 2
    SwitchOverlaps = FALSE
    Recorded = {1, 2, 3}
    SyncRequests = {2, 3}
    Downloads = {3}
    TrailMaxTime = 4
    Retention = 1
    Overtaking = FALSE
    SweepsOverlap = FALSE
    FirstUsers = {1}
    LaterUsers = {2}
    NewRoles = {"viewer"}
    AccountConcurrency = 2
    RemoteUsers = {1}
    Hasty = FALSE
    PostFails = FALSE
    HealthMaxUid = 1
    BreakRunning = FALSE
    RelistReplaces = FALSE
    IngestReports <- MCReports
    IngestLastTime = 7
    WindowPast = 3
    ExpiryDays = 2
    RetainDays = 3
    LapsedDays = 1
    InFlightReports = 2
PROPERTY OperationsEnd
PROPERTY DeliveriesMade
PROPERTY StatusConverges
 
CHECK_DEADLOCK FALSE
