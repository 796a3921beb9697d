SPECIFICATION MCSpec
CONSTANTS
  Addresses = {}
  Assets <- SomeAssets
  Categories <- SomeCategories
  Controls <- SomeControls
  NeverSuppress = {"critical"}
  Teams <- SomeTeams
  Worlds <- SomeWorlds
  Owners <- SomeOwners
  Inventories <- SomeInventories
  Sweepers = {s1, s2}
  Rationales = {"known"}
  MinCounts = {2, 3}
  ByHand <- SomeEntries
  MaxScans = 2
  MaxReviews = 3
  MaxSweeps = 2
  MaxEdits = 1
  MaxAnswers = 2
  MaxEnrichments = 2
INVARIANT PromotedOnce
INVARIANT HumanAnswerWins
PROPERTY WithheldForCause
SYMMETRY SweepersAlike
CHECK_DEADLOCK FALSE
