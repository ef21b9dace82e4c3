\* Messages one way, read as messages, and bytes the other way.
SPECIFICATION FairSpec
CONSTANTS
    c = c
    s = s
    Client = c
    Server = s
    ByteReaders = {c}
    Writers = {s}
    Fragmenters = {c}
    Careless = {}
    Strangers = {}
    Closers = {}
    Crashers = {}
    EarlyData = FALSE
    Opcodes = {"TEXT", "BINARY"}
    Lengths = {2}
    MaxFrames = 2
    MaxChunk = 5
    MaxRead = 2
    Prompt = TRUE
    ServerTimeout = 2
    ClientTimeout = 1
INVARIANTS TypeOK MessagesIntact StaysUp
PROPERTIES BothPipes AllRead
CHECK_DEADLOCK FALSE
