SPECIFICATION Spec
CONSTANTS
  seed = seed
  web = web
  j1 = j1
  j2 = j2
  noMark = noMark
  nginx = nginx
  Assets = {seed, web}
  SeedSets = {{seed}}
  TypeOf <- SeedAndWeb
  Marks = {noMark, nginx}
  NoMark = noMark
  Observable <- LoginOpenOrBlank
  Jobs = {j1, j2}
  Threshold = 2
  MaxRuns = 5
  MaxOverlapped = 3
INVARIANT TypeOK
INVARIANT FeedExplainsSnapshots
INVARIANT FeedAlternates
INVARIANT AccessLossIsTold
INVARIANT DecayIsEarned
INVARIANT ChainNeverOlder
SYMMETRY JobSymmetry
CHECK_DEADLOCK FALSE
