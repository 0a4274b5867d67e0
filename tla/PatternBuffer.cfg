CONSTANTS
  s1 = s1
  s2 = s2
  a1 = a1
  Calls <- MCCalls
  Sets <- MCSets
  Outsider = Outsider
  NoCall = NoCall
  MaxSeq = 3
  MaxOutside = 1
  MaxVersion = 2
  AutocommitFaults = {"busy"}
  UnitFaults = {"busy", "lost", "rollback", "interrupted"}

SPECIFICATION Spec

INVARIANTS
  AllOrNone
  AnswersAreTrue
  SeqNamesOneRow
  ViewsAreCurrent

PROPERTIES
  ImplementsLog
