SPECIFICATION ClassifierSpec
CONSTANTS
  Kinds <- MCKinds
  Containment = {"in", "held_by"}
  ByHand = {"held_by"}
  Structural = {"in", "held_by", "fixture", "kind"}
  Occurrences = {"moved", "retracts"}
  Accruing = {"coins"}
  Answers <- MCAnswers
  Injected = {"EVENT", "STATE"}
  Threshold = 2
  MaxLog = 3
  MaxEdits = 1

INVARIANTS
  GuessesAreHarmless
  VerdictsHold

CHECK_DEADLOCK FALSE
