\* A client without keep-alive is never ready.
SPECIFICATION Spec
CONSTANTS
    c = c
    s = s
    m1 = m1
    m2 = m2
    NoId = NoId
    Client = c
    Server = s
    PacketIds <- MCOneId
    Publishers = {}
    QosLevels = {}
    Requesters = {}
    KeepAlives = {0}
    ReturnCodes = {0}
    ObserverReturns = {TRUE}
    Closers = {}
    Crashers = {}
    MaxLoss = 0
    MaxRead = 1
    MaxLate = 2
    Prompt = FALSE
    KeepAliveTimeout = 1
    ResendTimeout = 1
    ResendAttempts = 2
INVARIANT AcceptedClientReady
CHECK_DEADLOCK FALSE
