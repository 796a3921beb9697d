SPECIFICATION FairSpec
CONSTANTS
  f1 = f1
  f2 = f2
  r1 = r1
  r2 = r2
  NoFinding = NoFinding
  Findings = {f1, f2}
  Runs = {r1, r2}
  Traits <- LowAndLocalOnly
  Answers <- Probing
  Selections <- HostedOnly
  DefaultSelection <- Local
  Providers <- ProviderNames
  Models <- ModelNames
  LocalProviders <- LocalOnlyProviders
  Price = 1
  Ceiling = 2
  MaxStarts = 2
  MaxRepins = 0
INVARIANT SpendBounded
PROPERTY RunsEnd
VIEW WithoutHistory
CHECK_DEADLOCK FALSE
