SPECIFICATION FairSpec
CONSTANTS
    c1 = c1  c2 = c2  c3 = c3
    USER_LIMIT = 2
    Clients = {c1, c2, c3}
    NULL = NULL
    SendBuffer = 1
    MaxTexts <- TwoSpeak
    MaxUnread = 1
INVARIANTS PlacesAgree LastWords
PROPERTIES GoneIsClosed Delivered
CHECK_DEADLOCK FALSE
