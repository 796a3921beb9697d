SPECIFICATION Spec
CONSTANTS
  corp = corp
  app = app
  App = App
  https = https
  www = www
  acme = acme
  NoOrg = NoOrg
  AddressBits = 3
  Lower <- SmallLetters
  OccursIn <- InAPart
  Slugs = {acme}
  Relationships = {"self", "third_party"}
  SeedForms <- SomeSeeds
  ExclusionForms <- SomeExclusions
  Scopes <- SomeScopes
  Asked <- SomeRequests
  MaxToolCalls = 2
  MaxRounds = 2
  Interval = 1
  Timeout = 1
  MaxEdits = 3
  MaxTriages = 1
  MaxClock = 1
INVARIANT TypeOK
INVARIANT ProbesInScope
INVARIANT EveryRequestAnswered
INVARIANT Paced
CHECK_DEADLOCK FALSE
