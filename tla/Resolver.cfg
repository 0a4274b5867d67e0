CONSTANTS
  contents = contents
  hair = hair
  Keys <- MCKeys
  Minting <- MCMinting
  Contents <- MCMinting
  Declared <- MCKeys
  MaxItems = 2
  MaxHost = 2
  MaxRows = 9
  MaxCalls = 3

SPECIFICATION Spec

INVARIANTS
  OneAnswerPerThunk
  ForcesAreWhole

CHECK_DEADLOCK FALSE
