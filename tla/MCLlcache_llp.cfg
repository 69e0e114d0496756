SPECIFICATION Spec
CONSTANTS
    Sectors = {1}
    Extents = {{1}}
    Slots = {1, 2}
    MaxWrites = 2
INVARIANTS LlpSharedHolds
CHECK_DEADLOCK FALSE
