-------------------------- MODULE MCFindingLifecycle --------------------------
(* TLC instances of FindingLifecycle: one or two findings of one category. *)
EXTENDS FindingLifecycle, TLC

CONSTANTS f1, f2, j1, j2, cat, clusterA

JobSymmetry == Permutations({j1, j2})

OneCategory == [f \in Findings |-> cat]
OneCluster == [f \in Findings |-> clusterA]

At(levels) == [level : levels, enabled : {TRUE}]
AutoFile == At({3})
HoldOrFile == At({1, 3})
EveryLevelOrDisabled == At(0..3) \cup [level : {3}, enabled : {FALSE}]

\* Detection and recheck judge every finding on their own; only f1 so, with f2
\* seen by every scan; or alike.
AnyResult == {r \in ScanResult : r.matching \cup r.reproducing \subseteq r.seen}
DisagreeingOnOne ==
  {r \in AnyResult : f2 \in r.seen /\ r.matching \ {f1} = r.reproducing \ {f1}}
Agreeing == {r \in AnyResult : r.matching = r.reproducing}

Concluding(values, severities) == [value : values, severity : severities]
TruePositive == Concluding({"true_positive"}, {"low"})
EitherVerdict == Concluding({"true_positive", "false_positive"}, {"low"})
UnsureOrTrue == Concluding({"true_positive", "needs_human"}, {"low"})
AnySeverity == Concluding({"true_positive"}, Severities)
===============================================================================
