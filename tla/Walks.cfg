SPECIFICATION BindSpec
CONSTANTS
  Ids <- MCIds
  PersonIds = {}
  PlaceIds <- MCPlaceIds
  EventIds <- MCEventIds
  Worlds <- MCWorlds
  Alphabet <- MCAlphabet
  Ranking <- MCRanking
  Knowers <- MCKnowers
  Traversal <- MCTraversal
  Depth = 2
  Fanout = 3
  Budget = 2
  MaxTime = 2
  Room = 2
  Texts <- MCTexts
  Norm <- MCNorm
  Core <- MCCore
  KindWord <- MCKindWord
  Slug <- MCSlug
  Tokens <- MCTokens
  Variants <- MCVariants
  Plurals <- MCPlurals
  Titles <- MCTitles
  Articles <- MCArticles

INVARIANTS
  WalksAgree
  RoutesAreRight
  ProjectionsHold
  WordsHold

CHECK_DEADLOCK FALSE
