SPECIFICATION FairSpec
CONSTANTS
  Reqs = {r1}
  NIov = 2
  IovSecs = 2
  BaseSize = 3
  Ops = {"read", "write"}
  Results = {"none", "EIO"}
  OpenFlags = {{}}
  ReopenMayFail = TRUE
  Orderly = TRUE
INVARIANTS SecsPendingExact BufferSafe NoneStuck
PROPERTIES Answered PauseCompletes IsBlockDevice
CHECK_DEADLOCK FALSE
