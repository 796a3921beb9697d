SPECIFICATION Spec
CONSTANTS
  f1 = f1
  f2 = f2
  r1 = r1
  r2 = r2
  NoFinding = NoFinding
  Findings = {f1, f2}
  Runs = {r1}
  Traits <- CriticalAndLocalOnly
  Answers <- Every
  Selections <- LocalAndHosted
  DefaultSelection <- Hosted
  Providers <- ProviderNames
  Models <- ModelNames
  LocalProviders <- LocalOnlyProviders
  Price = 0
  Ceiling = 1
  MaxStarts = 1
  MaxRepins = 1
INVARIANT TypeOK
INVARIANT UnsureGoesToHuman
INVARIANT UnsureEscalates
INVARIANT CriticalNeverBuried
INVARIANT LocalOnlyStaysLocal
CHECK_DEADLOCK FALSE
