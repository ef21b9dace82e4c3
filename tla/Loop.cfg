\* Rounds of the select loop over a list that changes; stacks with and without an
\* SSL stream.
SPECIFICATION LoopSpec
CONSTANTS
    s1 = s1
    s2 = s2
    s3 = s3
    ListHead = ListHead
    NULL = NULL
    Streams <- MCStreams
    Fds <- MCFds
    Writers <- MCWriters
    MaxAdds = 3
    Breaks = TRUE
    MaxOffered = 8
    MaxLength = 3
    SocketSize = 3
INVARIANTS
    TypeOK ListLinked
    StackTypeOK Conserved OneQueue
PROPERTIES
    ServedOnce ServedAll EveryoneRead
    AllArrives FlushCompletes
