SPECIFICATION MCSpec
CONSTANTS
    t1 = t1  t2 = t2  t3 = t3  t4 = t4
    tw1 = tw1  tw2 = tw2  tw3 = tw3
    Timers = {t1, t2, t3, t4}
    NULL = NULL
    Times = {0, 1, 2}
    TwTimers = {tw1, tw2, tw3}
    N = 3
    SI = 2
    Timeouts <- MCTimeouts
INVARIANTS TypeOK WellLinked WellFiled
PROPERTIES ImplementsSortedTimers OnTime
SYMMETRY Symmetry
CHECK_DEADLOCK FALSE
