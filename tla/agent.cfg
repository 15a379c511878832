\* The agent, its sidecars and relays, idle sleep, and access to a server.
SPECIFICATION SuiteSpec
CONSTANTS
    SharingOwners = {1, 2}
    Admins = {2}
    LastUid = 2
    OpenRequests = 2
    PatchAttempts = 2
    LastServer = 2
    LastCredential = 2
    ReplacedAtAttach = FALSE
    QuiesceCommands <- MCQuiesceCommands
    Calls = 4
    QuiesceGivesUp = FALSE
    RconProtocols = {"source", "telnet", "websocket", "nuclear"}
    RequestIds = {1, 2, 3, 4}
    Cooldown = 2
    WireLimit = 2
    HttpClients = {"satisfactory", "palworld", "rest"}
    HttpCooldown = 2
    Boots = 3
    SeqCycle = 3
    PageTotals = {1, 2, 3}
    WireSize = 5
    SidecarSessions = 2
    CaptureIds = {"a", "b"}
    Sizes = {2}
    MaxPacket = 2
    Budget = 4
    MaxRetained = 1
    WorkerPodStarts = 2
    Modes = {1, 2}
    FileRequests = 2
    ModNames = {"a"}
    Extracting = {TRUE, FALSE}
    Releases = {1, 2}
    ModRequests = 2
    PlainUrl = {2}
    ConfigCatalog <- MCCatalog
    ModLoaders = {"paper"}
    ClaimOf <- MCClaimOf
    Edits = 2
    ShadowedPlain = FALSE
    WakeLimit = 1
    CrashAfterWake = FALSE
    Conns = {1, 2, 3}
    MaxConnections = 2
    UdpSources = {"a", "b"}
    Threshold = 2
    Window = 2
    MaxSources = 1
    UdpLastTime = 6
    MaxPackets = 5
    StaleAfter = 2
    ResetAfter = 3
    MaxRetries = 2
    Tunnels = {"a","b","c"}
    PortOf <- MCPortOf
    Ports = {"game","query"}
    ForwardPorts = {"tcp","udp"}
    UdpPorts = {"udp"}
    Peers = {1,2}
    SessionLimit = 2
    QueueLimit = 2
    SizeQueue = 2
    Resizes = 4
    GameMayStall = TRUE
    NegotiationHangs = FALSE
    Setups = 2
    PodUids = 3
    ReplacedBetween = FALSE
    LogFiles = 3
    Halves = 4
    LateLines = FALSE
 
 
PROPERTY SleepAndRelaysSafe
 
CHECK_DEADLOCK FALSE
