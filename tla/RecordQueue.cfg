CONSTANTS
  p1 = p1
  p2 = p2
  c1 = c1
  c2 = c2
  bad = bad
  Pages <- MCPages
  QueueCalls <- MCCalls
  Bad <- MCBad
  NoCall = NoCall
  SharedLocks = TRUE
  MaxSends = 3
  MaxCloses = 1

SPECIFICATION FairQueueSpec

INVARIANTS
  NoCallLost
  WritesInOrder

PROPERTIES
  NoPageWaits

CHECK_DEADLOCK FALSE
