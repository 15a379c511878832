\* Progress of the agent and of the processes around a game.
SPECIFICATION SuiteSpec
CONSTANTS
    SeqCycle = 3
    PageTotals = {1, 2}
    WireSize = 3
    SidecarSessions = 1
    CaptureIds = {"a", "b"}
    Sizes = {2}
    MaxPacket = 2
    Budget = 4
    MaxRetained = 1
    SizeQueue = 2
    Resizes = 2
    GameMayStall = FALSE
    NegotiationHangs = TRUE
    WakeLimit = 1
    CrashAfterWake = FALSE
    LogFiles = 2
    Halves = 3
    LateLines = TRUE
    Tunnels = {"a","b","c"}
    PortOf <- MCPortOf
    Ports = {"game","query"}
    Setups = 1
    PodUids = 3
    ReplacedBetween = TRUE
    HttpClients = {"satisfactory", "palworld", "rest"}
    HttpCooldown = 2
    Boots = 3
    RconProtocols = {"source", "telnet", "websocket", "nuclear"}
    RequestIds = {1, 2, 3, 4}
    Cooldown = 2
    WireLimit = 2
    StaleAfter = 2
    ResetAfter = 3
    MaxRetries = 1
    ForwardPorts = {"tcp","udp"}
    UdpPorts = {"udp"}
    Peers = {1}
    SessionLimit = 1
    QueueLimit = 2
    Conns = {1, 2}
    MaxConnections = 1
    UdpSources = {"a", "b"}
    Threshold = 2
    Window = 2
    MaxSources = 1
    UdpLastTime = 6
    MaxPackets = 5
    WorkerPodStarts = 2
PROPERTY AgentReleases
PROPERTY AgentServes
PROPERTY RoutesConverge
CHECK_DEADLOCK FALSE
