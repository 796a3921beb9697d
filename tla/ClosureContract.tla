---------------------------- MODULE ClosureContract ----------------------------
(***************************************************************************)
(* What the documentation promises of a finding's closure ("closure        *)
(* requires proof": route/recheck.py, CLI.md): a finding that awaits proof *)
(* leaves that phase for "fixed" only on a scan that saw its asset and     *)
(* whose evidence a recheck does not reproduce it on, for "regressed" only *)
(* on one where it does, and "fixed" is reached in no other way.  Proof is *)
(* the recheck's evaluation, not detection's: the two read one scan's      *)
(* evidence in different contexts.  Deciding an approval routes a finding  *)
(* again from any phase, and closing its ticket asks for proof again.      *)
(***************************************************************************)
EXTENDS Naturals, Sequences

CONSTANT Findings

VARIABLES phase, scans

contractVars == <<phase, scans>>

Phases == {"unrecorded", "assessed", "routed", "awaiting_proof", "fixed", "regressed"}

\* What detection reports of a scan is recorded, and decides nothing here.
Observation == [seen : SUBSET Findings, matching : SUBSET Findings,
                reproducing : SUBSET Findings]

ContractTypeOK ==
  /\ phase \in [Findings -> Phases]
  /\ scans \in Seq(Observation)

ContractInit ==
  /\ phase = [f \in Findings |-> "unrecorded"]
  /\ scans = <<>>

MoveTo(S, p) == phase' = [f \in Findings |-> IF f \in S THEN p ELSE phase[f]]

Observe(result) ==
  /\ scans' = Append(scans, result)
  /\ UNCHANGED phase

Record(S) ==
  /\ \A f \in S : phase[f] = "unrecorded"
  /\ MoveTo(S, "assessed")
  /\ UNCHANGED scans

RouteTo(S) ==
  /\ \A f \in S : phase[f] # "unrecorded"
  /\ MoveTo(S, "routed")
  /\ UNCHANGED scans

AskForProof(f) ==
  /\ phase[f] # "unrecorded"
  /\ MoveTo({f}, "awaiting_proof")
  /\ UNCHANGED scans

\* One scan's evidence decides: F no longer reproduces, R still does.
Prove(s, F, R) ==
  /\ \A f \in F \cup R : phase[f] = "awaiting_proof" /\ f \in scans[s].seen
  /\ F \cap scans[s].reproducing = {}
  /\ R \subseteq scans[s].reproducing
  /\ phase' = [f \in Findings |-> IF f \in F THEN "fixed"
                                  ELSE IF f \in R THEN "regressed"
                                  ELSE phase[f]]
  /\ UNCHANGED scans

ContractNext ==
  \/ \E result \in Observation : Observe(result)
  \/ \E S \in SUBSET Findings : Record(S) \/ RouteTo(S)
  \/ \E f \in Findings : AskForProof(f)
  \/ \E s \in DOMAIN scans : \E F, R \in SUBSET Findings : Prove(s, F, R)

ContractSpec == ContractInit /\ [][ContractNext]_contractVars
================================================================================
