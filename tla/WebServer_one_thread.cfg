SPECIFICATION Spec
CONSTANTS
    c1 = c1  c2 = c2  c3 = c3
    w1 = w1  w2 = w2
    Main = Main
    Free = Free
    Clients = {c1, c2}
    Workers = {w1, w2}
    BaseFd = 0
    FdLimit = 2
    MAX_FD = 3
    Capacity = 2
    Kinds = {"file", "empty"}
    MaxRounds = 1
    MaxBlocks = 0
INVARIANTS OneThreadPerObject
CHECK_DEADLOCK FALSE
