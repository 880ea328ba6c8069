SPECIFICATION Spec
CONSTANTS
    Names = {n1, n2}
    Srcs = {1, 2, 3}
    Pgns = {p}
    Intervals = {10, 20}
    Clients = {c1}
    Pipe = pipe
    Refused = {20}
    MaxSets = 1
    MaxMoves = 3
    MaxCrashes = 1
    None = None
    Missing = Missing
    Torn = Torn
    Last = 2
    Answering = {0}
    Spacing = 2
    Interval = 4
    Second = 2
    MaxSteps = 4
    StreamPorts = {raw}
    BinaryPorts = {binary}
    RawPort = raw
    PipeClients = {k1}
    BatchAge = 1
    BatchLines = 2
    MaxFrames = 3
    MaxLate = 0
    Plain = plain
    Input = input
    MaxCalls = 4
    MaxVisits = 1
    wind = wind
    product = product
    target = target
    cog = cog
    keyed = keyed
    a = a
    b = b
    Absent = Absent
    Forever = 9
    MaxStores = 3
    MaxTicks = 2
    PgnList = 2
    MaxHistory = 2
    MaxEvents = 2
    MaxKeys = 3
    Talkers = {a, b, c}
    TpSlots = 2
    MaxPackets = 2
    MaxTransfers = 3
    MaxLost = 1
    MaxAgain = 1
    MaxReboots = 2
    MaxBeats = 1
    Hour = 3
    Window = 1
    Twin = 5
    Scx = 6
    Canboat = 4
    Peers = {3}
    PREFERRED_ADDRESS = 2
    QuirkSets = {{"scx20"}, {"wmm"}, {"motion"}}
    MaxOwnMoves = 1
    MaxHeard = 4
    MaxNow = 4
    MaxDamage = 1
    MaxChunk = 9
    Records <- McRecords
    Schema <- McSchema
    SnapRecords <- McSnapRecords
    Ttl <- McTtl
    Keys <- McKeys
    Rates <- McRates
    MuteRows <- McMuteRows
    Advertised <- McAdvertised
    Configs <- McConfigs
    NgtPlain <- McPlain
    Logged <- McLogged
    Noise <- McNoise
    Scripts <- McScripts
INVARIANTS TypeOK OverridesHold FilterIsHonest StreamsWhole PortsReleased DumpIsTheLatest ScreenIsTrue TransfersWhole HandshakeSound ClaimsSound FramesComeBack DamageIsLocal SessionsInFull
PROPERTIES StepsKeepTheirWord 
CHECK_DEADLOCK FALSE
