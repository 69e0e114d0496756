SPECIFICATION FairSpec
CONSTANTS
    Conns = {c1, c2}
    Clients = {k1, k2}
    Vbds = {v1}
    Requests = {"attach", "pause", "detach"}
    OutRoom = 3
    Enotty = FALSE
    NONE = NONE
PROPERTIES Answered
CHECK_DEADLOCK FALSE
