SPECIFICATION FairSpec
CONSTANTS
    RingSize = 2
    IdxMod = 6
    FailBatch = 1
INVARIANTS RingSound
PROPERTIES DisconnectsQuiet Answered
