CONSTANTS
  p = p
  q = q
  hall = hall
  yard = yard
  letter = letter
  copy = copy
  ann = ann
  black = black
  red = red
  dark = dark
  Subjects <- MCSubjects
  Places <- MCPlaces
  Voices <- MCVoices
  Documents <- MCDocuments
  Refinements <- MCRefinements
  Policies = {"by_class", "containment", "last_write", "set_valued", "accrue"}
  Offers <- MCOffers
  MaxSteps = 4
  MaxEdits = 2

SPECIFICATION Spec

INVARIANTS
  ConflictsListed
  SourcesWeighRight
  PastIsFixed

CHECK_DEADLOCK FALSE
