SPECIFICATION FairSpec
CONSTANTS
  dns = dns
  ct = ct
  probe = probe
  home = home
  sub = sub
  range = range
  outside = outside
  Nobody = Nobody
  Assets = {home, sub, range, outside}
  Seeds = {home, range}
  Excluded = {outside}
  Named = {home, sub, outside}
  Ranged = {range}
  Findable = {sub, outside}
  Adapters = {dns, ct, probe}
  StageOf <- Stages
  LastStage = 2
  Consumes <- DomainsThenAll
  Active = {probe}
  MaxConcurrency = 1
  MaxRetries = 1
INVARIANT TypeOK
INVARIANT ContactsAuthorized
INVARIANT ContactsAreEvidenced
PROPERTY KeepsStagedScan
PROPERTY RunEnds
CHECK_DEADLOCK FALSE
