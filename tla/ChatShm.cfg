SPECIFICATION FairSpec
CONSTANTS
    c1 = c1  c2 = c2  c3 = c3
    USER_LIMIT = 2
    Clients = {c1, c2, c3}
    MaxTexts <- OneSpeaks
INVARIANTS TypeOK TablesAgree
PROPERTIES EndedAreReaped ChildrenFollow
CHECK_DEADLOCK FALSE
