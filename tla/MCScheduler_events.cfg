SPECIFICATION FairSpec
CONSTANTS
    MaxId = 2
    MaxDepth = 3
    Sources = {a}
    Timeouts = {0, 1}
    MaxTimeout = 2
    MaskTimers = FALSE
INVARIANTS CursorOnList NothingLeftBehind NoPanic NeverOversleeps
PROPERTIES TimersFire
