SPECIFICATION Spec
CONSTANTS
    NULL = NULL
    Calls <- MCCalls
    MaxCalls = 2
    ReadSizes = {1, 3}
    ReadLimit = 512
    Malformed <- MCMalformed
    Values = {v1, v2}
    Junk = Junk
    MaxLength = 4
    MaxChunk = 2
    InitialSizes = {0, 1, 3}
    Second = 4
    Intervals = {0, 1, 2}
    MaxLag = 5
    MaxSleep = 1
    CalendarStart = 7
    EndOfTime = 22
    RepeaterLimits = {0, 2}
    RepeaterTimeouts = {0, 3}
    MaxTimeouts = {0, 6, 10}
    TimeoutBound = 30
    CounterSize = 4
    WsFrames <- MCWsFrames
    MaxFrames = 2
    WsReadSizes = {1, 4}
    SampleLengths <- MCSampleLengths
    HeaderNames <- MCHeaderNames
    HeaderValues <- MCHeaderValues
    HttpBodies <- MCHttpBodies
    Rooms = {12, 20, 24, 60}
    MaxHeaders = 2
    MaxBody = 4
    UrlParts <- MCUrlParts
    Base64Samples <- MCBase64Samples
    JsonSamples <- MCJsonSamples
    JsonIntMax = 7
    Slots = {1, 2}
    Texts <- MCTexts
    Datas <- MCDatas
    Settings = {0}
    MaxBlocks = 7
    MaxItems = 2
    MaxStacks = 1
    TokenTexts <- MCTokenTexts
    SeparatorSets <- MCSeparatorSets
    CopyTexts <- MCCopyTexts
    MemoryRoom = 5
    Observers = {o1, o2, o3}
    Lists = {l1, l2}
    Watched = {NULL, w1}
    NotifyTypes = {0, 1}
    Handlers = {NULL, h1}
    InterfaceLists <- MCInterfaceLists
    Destinations <- MCDestinations
    Families = {"unspec", "inet", "inet6", "packet"}
INVARIANTS
    PacketsArrive WsFramesArrive TimersKeepTime
    MemoryOwned RecordsIndependent FoundIsNewest
    MessageKept UrlUnderstood Base64Inverts ComparesPatterns
    TextsKept InterfacesFound
PROPERTIES
    BufferKeepsBytes RepeaterPaces
CHECK_DEADLOCK FALSE
