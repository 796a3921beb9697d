SPECIFICATION Spec
CONSTANT Written = {"evidence", "verdict", "external_finding_source"}
INVARIANT ReachesModels
CHECK_DEADLOCK FALSE
