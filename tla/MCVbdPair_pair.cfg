SPECIFICATION PairSpec
CONSTANTS
  Reqs = {r1, r2}
  NIov = 1
  IovSecs = 1
  BaseSize = 1
  Ops = {"read", "write"}
  Results = {"none", "EIO", "EBUSY"}
  OpenFlags = {{}, {"RDONLY"}}
  ReopenMayFail = FALSE
  Orderly = TRUE
SYMMETRY Symmetry
INVARIANTS QuiescedIsQuiet ImagesKept AnswersHonest
CHECK_DEADLOCK FALSE
