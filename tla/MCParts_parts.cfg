SPECIFICATION Spec
CONSTANTS
    Fan = 2
    DiskSectors = 3
    PageSectors = 2
    MaxSize = 6
    NodeSize = 1
    Pool = 2
    IdleTime = 1
    v1 = v1
    v2 = v2
    Sectors = {1, 2}
    Extents = {{1}, {2}, {1, 2}}
    Slots = {1, 2}
    MaxWrites = 4
    Fds = {1, 2, 3}
    Ctxs = {1, 2}
    File <- MCFile
    Guess <- MCGuess
    Partition <- MCPartition
    Ino <- MCIno
    Access <- MCAccess
    Vhds = {1, 3, 4}
    Size = 2
    Start <- MCPartitions
    Blocks <- MCPartitions
    Flags = {"rw"}
    Modes <- MCModes
    MaxOff = 2
    MaxStale = 1
    Tools = {"a", "b"}
    MaxPids = 2
    MaxKills = 1
    Devs = {"d1"}
    MaxRings = 3
    MaxAdds = 3
    Conflicts = {"otherend"}
    Orderly = TRUE
    WritesFail = FALSE
    MaxRestarts = 2
    SysfsMinors = {0, 1}
    RingSize = 7
    Word = 14
    PacketMax = 4
    Lens = {1, 4}
    WarnLen = 2
    Room = 1
    Burst = 1
    Interval = 1
    MaxErrors = 4
    MaxTime = 3
SYMMETRY Perms
INVARIANTS CacheKept LleReadsAcked XenioSound RateSound LogSound ToolsSound IoSound Recoverable
PROPERTY ResizeIsAtomic
CHECK_DEADLOCK FALSE
