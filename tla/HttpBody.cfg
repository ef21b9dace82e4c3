SPECIFICATION HttpSpec
CONSTANTS
    NULL = NULL
    HeaderNames <- MCHeaderNames
    HeaderValues <- MCHeaderValues
    HttpBodies <- MCLetters
    Rooms = {24, 60}
    MaxHeaders = 2
    MaxBody = 4
INVARIANTS
    BodyArrives
CHECK_DEADLOCK FALSE
