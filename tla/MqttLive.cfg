\* What must happen, between applications that are prompt.
SPECIFICATION FairSpec
CONSTANTS
    c = c
    s = s
    m1 = m1
    m2 = m2
    Client = c
    Server = s
    NoId = NoId
    PacketIds <- MCOneId
    Publishers = {c, s}
    QosLevels = {1, 2}
    Requesters = {}
    KeepAlives = {0, 2}
    ReturnCodes = {0, 5}
    ObserverReturns = {FALSE}
    Closers = {}
    Crashers = {c, s}
    MaxLoss = 1
    MaxRead = 1
    MaxLate = 2
    Prompt = TRUE
    KeepAliveTimeout = 1
    ResendTimeout = 1
    ResendAttempts = 2
INVARIANT StaysUp
PROPERTY DeadPeerNoticed
CHECK_DEADLOCK FALSE
