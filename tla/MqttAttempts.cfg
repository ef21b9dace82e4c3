\* A queued frame starts with the attempts its predecessor used.
SPECIFICATION Spec
CONSTANTS
    c = c
    s = s
    m1 = m1
    m2 = m2
    NoId = NoId
    Client = c
    Server = s
    PacketIds <- MCPacketIds
    Publishers = {c}
    QosLevels = {1}
    Requesters = {}
    KeepAlives = {}
    ReturnCodes = {}
    ObserverReturns = {TRUE}
    Closers = {}
    Crashers = {}
    MaxLoss = 0
    MaxRead = 1
    MaxLate = 2
    Prompt = FALSE
    KeepAliveTimeout = 1
    ResendTimeout = 1
    ResendAttempts = 3
INVARIANT AbandonedAfterAllAttempts
CHECK_DEADLOCK FALSE
