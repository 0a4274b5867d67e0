CONSTANTS
  j1 = j1
  r1 = r1
  r2 = r2
  Jobs <- OneJob
  Reads <- TwoReads
  Earlier <- AllAtOnce
  Stop = Stop
  MaxAttach = 2
  MaxLog <- TwoThenOne
  SnapshotMayFail = TRUE
  JoinMayTimeOut = FALSE

SPECIFICATION Spec
SYMMETRY CallSymmetry
CHECK_DEADLOCK FALSE

INVARIANT NoCallCrossesWorlds
