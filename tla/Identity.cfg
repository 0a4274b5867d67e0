CONSTANTS
  Ids <- MCIds
  Words <- MCWords
  Descriptions <- MCDescriptions
  Starts <- MCStarts
  Offers <- MCOffers
  Withdrawn <- MCWithdrawn
  MaxCalls = 3
  MaxCrashes = 1

SPECIFICATION Spec

INVARIANTS
  ApartHolds
  OneIsOne
  ReconcileSettles

CHECK_DEADLOCK FALSE
