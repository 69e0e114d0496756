SPECIFICATION QueueSpec
CONSTANTS
    Tiocbs = {t1, t2, t3}
    Size = 3
    Positions = {0, 1}
    MayFail = TRUE
    Reuse = FALSE
    NULL = NULL
INVARIANTS OnceAndCounted ResultHonest
PROPERTY DeferredDrained
