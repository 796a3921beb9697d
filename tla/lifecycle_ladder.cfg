SPECIFICATION Spec
CONSTANTS
  f1 = f1
  f2 = f2
  j1 = j1
  j2 = j2
  cat = cat
  clusterA = clusterA
  NoWrite = NoWrite
  Findings = {f1, f2}
  Categories = {cat}
  CategoryOf <- OneCategory
  ClusterOf <- OneCluster
  Jobs = {j1}
  Policies <- EveryLevelOrDisabled
  Adjudications <- AnySeverity
  Overlap = FALSE
  ReviewOutcomes = {"agree"}
  ScanResults <- Agreeing
  MaxScans = 1
  MaxDrafts = 1
  MaxFiled = 1
  MaxEdits = 1
PROPERTY HighSeverityHeld
PROPERTY ApprovalGate
