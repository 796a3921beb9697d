------------------------------ MODULE StagedScan ------------------------------
(***************************************************************************)
(* What a scan run of kiyooo promises, whatever its adapters do: stages in *)
(* order, each over what the stages before it established; contact only    *)
(* with targets the scope permits; results that stand once they are given. *)
(* kiyooo/recon/orchestrator.py's module docstring and ARCHITECTURE.md's   *)
(* invariants 2 and 3 state it; module ReconRun implements it.             *)
(***************************************************************************)
EXTENDS Naturals

CONSTANTS Assets, Seeds, Adapters, StageOf, LastStage, Permitted(_, _, _)

VARIABLES
  stage, known,
  contacted,    \* whom each adapter was let loose on
  result,       \* an adapter's outcome, once its stage is over
  authorized,   \* is active scanning authorized?  Fixed for the run
  closed        \* how the run ended, if it did

stagedVars == <<stage, known, contacted, result, authorized, closed>>

Results == {"ok", "failed", "crashed"}

StagedInit ==
  /\ stage = 1
  /\ known = Seeds
  /\ contacted = {}
  /\ result = [a \in Adapters |-> "none"]
  /\ authorized \in BOOLEAN
  /\ closed = "open"

\* An adapter of the current stage contacts known targets it may contact.
Contact(a) ==
  /\ closed = "open"
  /\ StageOf[a] = stage
  /\ \E T \in SUBSET {t \in known : Permitted(a, t, authorized)} :
       contacted' = contacted \cup {[tool |-> a, target |-> t] : t \in T}
  /\ UNCHANGED <<stage, known, result, authorized, closed>>

\* A stage ends with a result for each of its adapters, and only those that
\* did well extend what is known.
EndStage ==
  LET ending == {a \in Adapters : StageOf[a] = stage} IN
  /\ closed = "open"
  /\ stage <= LastStage
  /\ \E r \in [ending -> Results], new \in SUBSET Assets :
       /\ new # {} => \E a \in ending : r[a] = "ok"
       /\ result' = [a \in Adapters |-> IF a \in ending THEN r[a] ELSE result[a]]
       /\ known' = known \cup new
  /\ stage' = stage + 1
  /\ UNCHANGED <<contacted, authorized, closed>>

\* Only a run whose stages are all over is committed.
Close ==
  /\ closed = "open"
  /\ closed' \in {"committed", "rolled_back"}
  /\ closed' = "committed" => stage > LastStage
  /\ UNCHANGED <<stage, known, contacted, result, authorized>>

StagedSpec ==
  StagedInit /\ [][EndStage \/ Close \/ \E a \in Adapters : Contact(a)]_stagedVars
===============================================================================
