SPECIFICATION Spec
CONSTANTS
  Ids <- MCIds
  PersonIds <- MCPersonIds
  PlaceIds <- MCPlaceIds
  EventIds = {}
  OldLog <- MCOldLog
  Offers <- MCOffers
  Services <- MCServices
  FirstService <- MCFirstService
  Tabs = {t1, t2}
  MaxTime = 1
  MaxChain = 4
  MaxEvents = 2
  MaxCalls = 3
INVARIANTS
  AnswersApply
  ResetsAreEarned
  NoStaleOverwrite
  UnperceivedStaysOpaque
PROPERTY CallsEnd
CHECK_DEADLOCK FALSE
