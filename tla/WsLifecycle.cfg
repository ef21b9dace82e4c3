\* Connections that fail, end, or are cut.
SPECIFICATION FairSpec
CONSTANTS
    c = c
    s = s
    Client = c
    Server = s
    ByteReaders = {s}
    Writers = {c}
    Fragmenters = {s}
    Careless = {s}
    Strangers = {c, s}
    Closers = {c, s}
    Crashers = {c, s}
    EarlyData = FALSE
    Opcodes = {"TEXT"}
    Lengths = {1}
    MaxFrames = 1
    MaxChunk = 2
    MaxRead = 1
    Prompt = FALSE
    ServerTimeout = 2
    ClientTimeout = 1
PROPERTY DeadPeerNoticed
CHECK_DEADLOCK FALSE
