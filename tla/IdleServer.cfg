SPECIFICATION FairSpec
CONSTANTS
    f1 = f1  f2 = f2
    t1 = t1  t2 = t2
    Fds = {f1, f2}
    Timers = {t1, t2}
    NULL = NULL
    MaxUnread = 2
INVARIANTS TypeOK TimerOfConnection EventsAreOpen
PROPERTIES OnlyIdleClosed GoneIsClosed
CHECK_DEADLOCK FALSE
