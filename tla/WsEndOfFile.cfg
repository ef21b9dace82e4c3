\* An end of file is taken for EAGAIN.
SPECIFICATION FairSpec
CONSTANTS
    c = c
    s = s
    Client = c
    Server = s
    ByteReaders = {s}
    Writers = {}
    Fragmenters = {}
    Careless = {}
    Strangers = {}
    Closers = {}
    Crashers = {c}
    EarlyData = FALSE
    Opcodes = {"TEXT"}
    Lengths = {1}
    MaxFrames = 1
    MaxChunk = 2
    MaxRead = 1
    Prompt = FALSE
    ServerTimeout = 2
    ClientTimeout = 1
PROPERTY EndOfFileReported
CHECK_DEADLOCK FALSE
