SPECIFICATION Spec
CONSTANTS
  Chapter <- MCChapter
  Text <- MCText
  Breaks <- MCBreaks
  Manifests <- MCManifests
  Answers <- MCAnswers
  Fits <- MCFits
  Descriptions = {"lamp"}
  Fixtures = {"fixture", "fixed"}
  Decided = {"in"}
  Policies = {"invent", "observe"}
  Default = "invent"
  MaxCrashes = 1
  MaxSessions = 1

INVARIANTS
  LanguagesAgree
  TimesTellTheText
  OneIdPerThing
  RetriedIsWhole
  PhysicsHold
  UnjudgedAreLoose

CHECK_DEADLOCK FALSE
