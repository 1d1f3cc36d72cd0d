SPECIFICATION Spec
CONSTANTS
    c1 = c1  c2 = c2  c3 = c3
    w1 = w1  w2 = w2
    Main = Main
    Free = Free
    Clients = {c1, c2, c3}
    Workers = {w1}
    BaseFd = 0
    FdLimit = 2
    MAX_FD = 2
    Capacity = 1
    Kinds = {"file", "error"}
    MaxRounds = 1
    MaxBlocks = 0
SYMMETRY Symmetry
INVARIANTS OneThreadElsewhere ReplyToItsClient
CHECK_DEADLOCK FALSE
