SPECIFICATION Spec
CONSTANTS
  f1 = f1
  f2 = f2
  j1 = j1
  j2 = j2
  cat = cat
  clusterA = clusterA
  NoWrite = NoWrite
  Findings = {f1}
  Categories = {cat}
  CategoryOf <- OneCategory
  ClusterOf <- OneCluster
  Jobs = {j1, j2}
  Policies <- HoldOrFile
  Adjudications <- EitherVerdict
  Overlap = TRUE
  ReviewOutcomes = {}
  ScanResults <- AnyResult
  MaxScans = 2
  MaxDrafts = 1
  MaxFiled = 2
  MaxEdits = 0
INVARIANT TicketsOnlyForTruePositives
INVARIANT TicketRowsAreFiled
PROPERTY FirstRouteGated
PROPERTY FixedOnlyOnCleanEvidence
SYMMETRY JobSymmetry
