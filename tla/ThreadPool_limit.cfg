SPECIFICATION Spec
CONSTANTS
    p1 = p1  p2 = p2
    w1 = w1  w2 = w2
    a = a
    Producers = {p1, p2}
    Workers = {w1, w2}
    Requests = {a}
    Null = Null
    NoThread = NoThread
    MaxRequests = 1
    MaxAppends = 4
    MaxInterrupts = 1
INVARIANT WithinLimit
CHECK_DEADLOCK FALSE
