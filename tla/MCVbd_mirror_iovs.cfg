SPECIFICATION Spec
CONSTANTS
  Reqs = {r1}
  NIov = 2
  IovSecs = 1
  BaseSize = 1
  Ops = {"write"}
  Results = {"none", "EIO", "EBUSY", "ENOSPC"}
  OpenFlags = {{"SECONDARY"}}
  ReopenMayFail = FALSE
  Orderly = TRUE
INVARIANTS AnswersHonest
CHECK_DEADLOCK FALSE
