\* A message of two frames, read as bytes.
SPECIFICATION Spec
CONSTANTS
    c = c
    s = s
    Client = c
    Server = s
    ByteReaders = {s}
    Writers = {}
    Fragmenters = {c}
    Careless = {}
    Strangers = {}
    Closers = {}
    Crashers = {}
    EarlyData = FALSE
    Opcodes = {"TEXT"}
    Lengths = {1}
    MaxFrames = 2
    MaxChunk = 2
    MaxRead = 1
    Prompt = FALSE
    ServerTimeout = 2
    ClientTimeout = 1
INVARIANT BytesIntact
CHECK_DEADLOCK FALSE
