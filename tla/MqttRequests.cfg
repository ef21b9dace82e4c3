\* Subscriptions and a publication answered by an application that reads.
SPECIFICATION Spec
CONSTANTS
    c = c
    s = s
    m1 = m1
    m2 = m2
    NoId = NoId
    Client = c
    Server = s
    PacketIds <- MCOneId
    Publishers = {c}
    QosLevels = {1}
    Requesters = {c}
    KeepAlives = {}
    ReturnCodes = {0}
    ObserverReturns = {FALSE}
    Closers = {s}
    Crashers = {}
    MaxLoss = 0
    MaxRead = 2
    MaxLate = 2
    Prompt = FALSE
    KeepAliveTimeout = 1
    ResendTimeout = 1
    ResendAttempts = 2
INVARIANTS ResendTimerHasWork RequestsAnswered
CHECK_DEADLOCK FALSE
