SPECIFICATION Spec
CONSTANTS
  Ids <- MCIds
  PersonIds <- MCPersonIds
  EventIds <- MCEventIds
  PlaceIds <- MCPlaceIds
  Typos <- MCTypos
  Core <- MCCore
  Guardrailed <- MCGuardrailed
  Builtin <- MCBuiltin
  InverseOf <- MCInverseOf
  Default <- MCDefault
  HostAliases <- MCHostAliases
  OldLog <- MCOldLog
  Calls <- MCCalls
  MaxCalls = 2
  MaxTime = 1
  MaxFaults = 1
  MaxEdits = 1

INVARIANTS
  MovesAreTheCursors
  DeclarationsHold
  NoCycle
  PersonsStayPersons

CHECK_DEADLOCK FALSE
