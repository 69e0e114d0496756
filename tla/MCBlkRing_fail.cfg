SPECIFICATION Spec
CONSTANTS
    RingSize = 2
    IdxMod = 8
    FailBatch = 2
INVARIANTS AnsweredOnce
