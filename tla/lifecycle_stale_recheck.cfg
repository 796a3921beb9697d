SPECIFICATION ScheduledSpec
CONSTANTS
  f1 = f1
  f2 = f2
  j1 = j1
  j2 = j2
  cat = cat
  clusterA = clusterA
  NoWrite = NoWrite
  Findings = {f1}
  Categories = {cat}
  CategoryOf <- OneCategory
  ClusterOf <- OneCluster
  Jobs = {j1}
  Policies <- AutoFile
  Adjudications <- TruePositive
  Overlap = FALSE
  ReviewOutcomes = {}
  ScanResults <- AnyResult
  MaxScans = 2
  MaxDrafts = 1
  MaxFiled = 1
  MaxEdits = 0
PROPERTY FixedOnlyOnFreshEvidence
