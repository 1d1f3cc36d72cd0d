SPECIFICATION MCSpec
CONSTANTS
    Messages <- AllMessages
    Lengths <- MCLengths
    READ_BUFFER_SIZE = 12
    INT_MAX = 100
    MaxRequests = 2
    BUFFER_SIZE = 8
    ErrorCodes = {"NO_RESOURCE", "FORBIDDEN_REQUEST"}
    PageLength <- PageLengths
    StatCodes = {"FORBIDDEN_REQUEST"}
    FileLengths = {1, 2}
    WRITE_BUFFER_SIZE = 8
    MaxAgain = 2
    MaxReplies = 3
INVARIANT BodyInAnyCut
CHECK_DEADLOCK FALSE
