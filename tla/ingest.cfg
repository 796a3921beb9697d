SPECIFICATION MCSpec
CONSTANTS
    vendor = vendor
    generic = generic
    Sources = {vendor, generic}
    Jobs = {j1, j2}
    Reportable <- MCReportable
    Spelling <- MCSpelling
    Orgs <- MCOrgs
    Detectable <- MCDetectable
    PageCap = 1
    MaxClock = 2
    MaxRuns = 2
    MaxEdits = 1
SYMMETRY Symmetry
INVARIANT TypeOK
INVARIANT SkippedOnlyInTheGap
INVARIANT Traceable
INVARIANT DetectedIsListed
CHECK_DEADLOCK FALSE
