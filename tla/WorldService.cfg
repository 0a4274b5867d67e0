CONSTANTS
  j1 = j1
  r1 = r1
  r2 = r2
  Jobs <- OneJob
  Reads <- TwoReads
  Earlier <- ReadsInTurn
  Stop = Stop
  MaxAttach = 2
  MaxLog <- TwoThenNone
  SnapshotMayFail = TRUE
  JoinMayTimeOut = FALSE

SPECIFICATION FairSpec

INVARIANTS
  AnswerMatchesRun
  SnapshotsAreSound

PROPERTIES
  NobodyWaits

CHECK_DEADLOCK FALSE
