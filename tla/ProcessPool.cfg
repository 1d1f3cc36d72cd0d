SPECIFICATION FairSpec
CONSTANTS
    c1 = c1  c2 = c2
    m_process_number = 2
    Clients = {c1, c2}
    Pieces <- MCPieces
    MaxCrashes = 2
INVARIANTS TypeOK ParentOutlivesChildren AnnouncementsAreTrue
PROPERTIES TerminationCompletes EveryRequestHandled
CHECK_DEADLOCK FALSE
