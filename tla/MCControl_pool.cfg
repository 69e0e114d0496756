SPECIFICATION Spec
CONSTANTS
    Conns = {c1, c2}
    Clients = {k1, k2, k3}
    Vbds = {v1}
    Requests = {"pid", "list", "attach", "open", "pause", "resume", "close", "detach", "bad"}
    OutRoom = 3
    Enotty = FALSE
    NONE = NONE
INVARIANTS PoolSound RepliesReachAsker HandlersKeepVbds
PROPERTIES NoSilentClose
SYMMETRY Symmetry
CHECK_DEADLOCK FALSE
