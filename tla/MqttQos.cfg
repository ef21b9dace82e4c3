\* Two publications of any QoS from the client, one lost frame.
SPECIFICATION FairSpec
CONSTANTS
    c = c
    s = s
    m1 = m1
    m2 = m2
    NoId = NoId
    Client = c
    Server = s
    PacketIds <- MCPacketIds
    Publishers = {c}
    QosLevels = {0, 1, 2}
    Requesters = {}
    KeepAlives = {}
    ReturnCodes = {}
    ObserverReturns = {TRUE}
    Closers = {}
    Crashers = {}
    MaxLoss = 1
    MaxRead = 1
    MaxLate = 1
    Prompt = FALSE
    KeepAliveTimeout = 1
    ResendTimeout = 1
    ResendAttempts = 2
INVARIANTS TypeOK ExactlyOnce NoSilentLoss InOrder
PROPERTIES ClientDelivers OutgoingDrains
CHECK_DEADLOCK FALSE
