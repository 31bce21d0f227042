SPECIFICATION MCSpec
CONSTANTS
    c1 = c1  c2 = c2  none = none
    Callers <- MCCallers
    NoOne = none
    MaxIn = 2
    RpcCallers <- MCCallers
    NoCaller = none
    MaxMessages = 3
    OneThread = TRUE
    Window = 8
    MaxMatch = 4
    LongMatch = 4
    LzWord = 16
    HashSize = 2
    Probes = 4
    FarAway = 7
    FastLookahead = 5
    CodeLimit = 3
    RepeatMin = 2
    RepeatMax = 3
    ZeroMiddle = 3
    ZeroMax = 5
    Total = 2
    LookAhead = 2
    CodeBuffer = 1
    Rooms = {1, 20}
    Ring = 2
    MaxCalls = 4
    Order = 11
    KeyWord = 13
    DepthWord = 4
    Magic = 100
    Version = 128
    TempObjects = {c1, c2}
    TempNames = {1, 2}
    Lockers = {c1, c2}
    Descriptors = {3, 4, 5}
    WordBits <- MCWordBits
    LastP = 5
    MaxKey = 3
    LogThreads = {c1}
    LoggerNames = {"default", "a"}
    AppenderNames = {"x", "y", "z"}
    Levels = {0, 1, 2}
    WarnLevel = 1
    LogConfigs <- MCLogConfigs
    MaxConfigs = 2
    MaxLogged = 1
    Payload = 4
    Header = 2
    CountWord = 5
    PortWord = 65536
    UrlPortWord = 5
    UrlObjects = {c1, c2}
    UrlValues <- MCUrlValues
    MaxUrls = 4
    Clients = {c1}
    Lengths = {2}
    Pieces = {0, 1}
    Careless = {1}
    MaxBody = 2
    MaxRequests = 2
    MaxConnections = 2
INVARIANTS OwnAnswer MessagesAreWhole RepliesAreOwn StreamsAreKept ValuesReturn HoldersKeepTheirs
PROPERTIES JsonImplementsCalls RpcImplementsCalls CallsReturn
CHECK_DEADLOCK FALSE
