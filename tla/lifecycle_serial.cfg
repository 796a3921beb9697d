SPECIFICATION Spec
CONSTANTS
  f1 = f1
  f2 = f2
  j1 = j1
  j2 = j2
  cat = cat
  clusterA = clusterA
  NoWrite = NoWrite
  Findings = {f1, f2}
  Categories = {cat}
  CategoryOf <- OneCategory
  ClusterOf <- OneCluster
  Jobs = {j1}
  Policies <- HoldOrFile
  Adjudications <- UnsureOrTrue
  Overlap = FALSE
  ReviewOutcomes = {}
  ScanResults <- DisagreeingOnOne
  MaxScans = 2
  MaxDrafts = 1
  MaxFiled = 2
  MaxEdits = 0
INVARIANT TypeOK
INVARIANT TicketMirrorsFinding
INVARIANT PastTriageIsAccountable
PROPERTY KeepsClosureContract
