----------------------------- MODULE Adjudication -----------------------------
(***************************************************************************)
(* One triage run of kiyooo adjudicating a scan's new findings with        *)
(* language models: the loop of kiyooo/cli.py's `_run_triage` around       *)
(* kiyooo/triage/agent.py's `adjudicate_finding`.  A round looks for a     *)
(* cached verdict, checks the cost ceiling, calls the bulk model (with one *)
(* schema retry), falls back to a local model when a hosted one gives no   *)
(* usable answer, escalates an answer the bulk model is not sure of, and   *)
(* then stores a verdict or, when the model asked for more evidence, runs  *)
(* verification tools and starts another round.                            *)
(*                                                                         *)
(* A run is one transaction: its verdict rows and call-log rows are its    *)
(* own until it commits, and gone when it aborts.  What it sent to a       *)
(* provider, and what the provider charges, is not undone.  Runs may       *)
(* overlap (the worker's chain and `kiyooo triage`).                       *)
(***************************************************************************)
EXTENDS Naturals, FiniteSets

CONSTANTS
  Findings,          \* the scan's findings that detection left "new", finitely many
  Traits,            \* severity and category settings of a finding
  Answers,           \* the usable answers a model may give
  Providers, Models, \* names
  Selections,        \* the (provider, model) pairs that may be pinned
  DefaultSelection,  \* Settings.llm_provider and Settings.bulk_model
  LocalProviders,    \* providers that cost nothing and keep evidence on site
  Runs,              \* processes that may run triage
  NoFinding,         \* "between two findings"
  Price,             \* what one call to a hosted model costs
  Ceiling,           \* Settings.max_cost_usd_per_run
  MaxStarts, MaxRepins   \* bounds

Values == {"true_positive", "false_positive", "needs_human"}
Passes == {"bulk", "fallback", "escalation"}
Trait == [severity : {"low", "high", "critical"},
          localOnly : BOOLEAN, alwaysEscalate : BOOLEAN]

\* What the loop reads of a VerdictSchema: is its confidence, after the
\* downgrade of thinly cited answers, at the category's threshold; does it ask
\* for verification; does it claim reachability without probe evidence; does it
\* name a CVE, CWE, CVSS vector or hostname the evidence does not hold.
Answer == [value : Values, confident : BOOLEAN, wantsMore : BOOLEAN,
           unprobed : BOOLEAN, hallucinated : BOOLEAN]

Selection == [provider : Providers, model : Models]

MaxRounds == 2

ASSUME ParametersAssumption ==
  /\ Traits \in [Findings -> Trait]
  /\ Answers \subseteq Answer
  /\ Selections \subseteq Selection
  /\ DefaultSelection \in Selection
  /\ "ollama" \in LocalProviders
  /\ LocalProviders \subseteq Providers
  /\ NoFinding \notin Findings
  /\ IsFiniteSet(Findings) /\ IsFiniteSet(Runs)
  /\ {Price, Ceiling, MaxStarts, MaxRepins} \subseteq Nat

VARIABLES
  status,   \* Finding.status
  rows,     \* committed Verdict rows
  logged,   \* cost in the scan run's committed LlmCallLog rows
  pins,     \* the model each role is pinned to, or its default
  run,      \* the open triage runs
  paid,     \* history: what providers charged for this scan run
  sent,     \* history: findings whose evidence went to a provider
  starts, repins

vars == <<status, rows, logged, pins, run, paid, sent, starts, repins>>

\* agent._synthetic_needs_human
Synthetic == [value |-> "needs_human", confident |-> FALSE, wantsMore |-> FALSE,
              unprobed |-> FALSE, hallucinated |-> FALSE]

Row == [finding : Findings, value : Values,
        answer : Answer,             \* the one the row is written from
        heard : SUBSET Answer,       \* every answer accepted in its round
        rounds : 0..MaxRounds, key : Models,   \* with the finding: input_hash
        by : {"bulk", "escalation"}, model : Selection]

Phases == {"idle", "choose", "lookup", "call", "escalate", "settle", "finish"}

Result == [answer : Answer, heard : SUBSET Answer, key : Models,
           by : {"bulk", "escalation"}, model : Selection,
           forced : BOOLEAN]             \* needs_human_forced

RunState ==
  [phase : Phases, todo : SUBSET Findings,
   wrote : SUBSET Row, cost : Nat,           \* buffered rows of the transaction
   finding : Findings \cup {NoFinding},      \* the finding under adjudication
   rounds : 0..MaxRounds,
   pass : Passes, model : Selection, retried : BOOLEAN,   \* the call under way
   result : Result]                          \* the _RoundResult so far

NoResult ==
  [answer |-> Synthetic, heard |-> {}, key |-> DefaultSelection.model,
   by |-> "bulk", model |-> DefaultSelection, forced |-> FALSE]

Closed ==
  [phase |-> "idle", todo |-> {}, wrote |-> {}, cost |-> 0,
   finding |-> NoFinding, rounds |-> 0, pass |-> "bulk",
   model |-> DefaultSelection, retried |-> FALSE, result |-> NoResult]

IsLocal(selection) == selection.provider \in LocalProviders
PriceOf(selection) == IF IsLocal(selection) THEN 0 ELSE Price
FallbackSelection == [provider |-> "ollama", model |-> DefaultSelection.model]

-----------------------------------------------------------------------------
(* Decisions *)

\* agent._model_for: a local_only category is moved off a hosted model, to
\* whatever the settings name.
ModelFor(role, f) ==
  IF Traits[f].localOnly /\ ~IsLocal(pins[role]) THEN DefaultSelection ELSE pins[role]

\* Mutant: the backstop is gone.
RedactionRefusesNothing(f, selection) == FALSE

\* bundler: the bundle of a local_only category for a hosted call is refused.
RedactionRefuses(f, selection) == Traits[f].localOnly /\ ~IsLocal(selection)

\* Mutant: the reachability check only.
CrossCheckForcesLoose(f, a) == a.unprobed

\* validator.run_cross_checks
BuriesCritical(f, a) ==
  Traits[f].severity = "critical" /\ a.value = "false_positive"
CrossCheckForces(f, a) == a.unprobed \/ BuriesCritical(f, a)

\* Any check that must send the finding to a human.
Flagged(f, a) == a.unprobed \/ BuriesCritical(f, a) \/ a.hallucinated

\* router.needs_escalation, and the cross-checks' own demand for it.
WantsEscalation(f, a) ==
  \/ BuriesCritical(f, a)
  \/ Traits[f].alwaysEscalate
  \/ Traits[f].severity \in {"high", "critical"}
  \/ ~a.confident

\* Mutant: the comparison leaves out the model.
SameProviderAnswered(r, selection) == selection.provider = run[r].result.model.provider

\* Has the model an escalation would ask given the answer in hand already?
AlreadyAnswered(r, selection) == selection = run[r].result.model

\* Mutant: the transaction's own calls are not seen.
CeilingReachedByOthers(r) == logged >= Ceiling

\* router.check_cost_ceiling sees committed rows and the run's own.
CeilingReached(r) == logged + run[r].cost >= Ceiling

\* cache.lookup_cached_verdict: the bundle names the finding and holds the
\* evidence gathered so far; the model is the bulk one.
Hit(r, selection) ==
  \E row \in rows \cup run[r].wrote :
    /\ row.finding = run[r].finding
    /\ row.rounds = run[r].rounds
    /\ row.key = selection.model

-----------------------------------------------------------------------------
Init ==
  /\ status = [f \in Findings |-> "new"]
  /\ rows = {}
  /\ logged = 0
  /\ pins \in [{"bulk", "escalation"} -> Selections]
  /\ run = [r \in Runs |-> Closed]
  /\ paid = 0
  /\ sent = {}
  /\ starts = 0
  /\ repins = 0

\* ModelPinRepository.pin: a new row, read by the next select_model.
Repin(role, selection) ==
  /\ repins < MaxRepins
  /\ selection # pins[role]
  /\ pins' = [pins EXCEPT ![role] = selection]
  /\ repins' = repins + 1
  /\ UNCHANGED <<status, rows, logged, run, paid, sent, starts>>

Step(r, next) ==
  /\ run' = [run EXCEPT ![r] = next]
  /\ UNCHANGED <<status, rows, logged, pins, starts, repins>>
Quietly == UNCHANGED <<paid, sent>>

Start(r) ==
  /\ run[r].phase = "idle"
  /\ starts < MaxStarts
  /\ starts' = starts + 1
  /\ run' = [run EXCEPT ![r] = [Closed EXCEPT
       !.phase = "choose", !.todo = {f \in Findings : status[f] = "new"}]]
  /\ UNCHANGED <<status, rows, logged, pins, paid, sent, repins>>

\* The next finding of the loop; one whose category or asset is gone is left out.
Choose(r, f) ==
  /\ run[r].phase = "choose"
  /\ f \in run[r].todo
  /\ Step(r, [run[r] EXCEPT !.phase = "lookup", !.finding = f, !.rounds = 0,
                            !.todo = run[r].todo \ {f}])
  /\ Quietly
Skip(r, f) ==
  /\ run[r].phase = "choose"
  /\ f \in run[r].todo
  /\ Step(r, [run[r] EXCEPT !.todo = run[r].todo \ {f}])
  /\ Quietly

-----------------------------------------------------------------------------
(* One round: agent._run_adjudication_round *)

CacheHit(r) ==
  LET selection == ModelFor("bulk", run[r].finding) IN
  /\ run[r].phase = "lookup"
  /\ ~RedactionRefuses(run[r].finding, selection)
  /\ Hit(r, selection)
  /\ Step(r, [run[r] EXCEPT !.phase = "choose"])
  /\ Quietly

\* No row for this very bundle: even with the same evidence, the asset's
\* attributes and the remembered reviews are part of it and may have changed.
CallBulk(r) ==
  LET selection == ModelFor("bulk", run[r].finding) IN
  /\ run[r].phase = "lookup"
  /\ ~RedactionRefuses(run[r].finding, selection)
  /\ ~CeilingReached(r)
  /\ Step(r, [run[r] EXCEPT
       !.phase = "call", !.pass = "bulk", !.model = selection, !.retried = FALSE,
       !.result = [NoResult EXCEPT !.key = selection.model, !.model = selection]])
  /\ Quietly

\* The model the role names already answered: nothing stronger to ask.
NoStronger(r) ==
  /\ run[r].phase = "escalate"
  /\ AlreadyAnswered(r, ModelFor("escalation", run[r].finding))
  /\ Step(r, [run[r] EXCEPT !.phase = "settle"])
  /\ Quietly

CallEscalation(r) ==
  LET selection == ModelFor("escalation", run[r].finding) IN
  /\ run[r].phase = "escalate"
  /\ ~AlreadyAnswered(r, selection)
  /\ ~RedactionRefuses(run[r].finding, selection)
  /\ ~CeilingReached(r)
  /\ Step(r, [run[r] EXCEPT
       !.phase = "call", !.pass = "escalation", !.model = selection,
       !.retried = FALSE])
  /\ Quietly

\* CostCeilingExceeded leaves the loop over the findings.
HaltAtCeiling(r) ==
  LET role == IF run[r].phase = "lookup" THEN "bulk" ELSE "escalation"
      selection == ModelFor(role, run[r].finding) IN
  /\ run[r].phase \in {"lookup", "escalate"}
  /\ role = "escalation" => ~AlreadyAnswered(r, selection)
  /\ ~RedactionRefuses(run[r].finding, selection)
  /\ CeilingReached(r)
  /\ Step(r, [run[r] EXCEPT !.phase = "finish"])
  /\ Quietly

\* RedactionViolation is not a ProviderError: it leaves _run_triage, and the
\* transaction is rolled back.
RedactionTrips(r) ==
  LET role == IF run[r].phase = "lookup" THEN "bulk" ELSE "escalation"
      selection == ModelFor(role, run[r].finding) IN
  /\ run[r].phase \in {"lookup", "escalate"}
  /\ role = "escalation" => ~AlreadyAnswered(r, selection)
  /\ RedactionRefuses(run[r].finding, selection)
  /\ Step(r, Closed)
  /\ Quietly

\* Every attempt of a pass sends the bundle, and the provider charges for it.
Transmit(r) ==
  sent' = sent \cup {[finding |-> run[r].finding, local |-> IsLocal(run[r].model)]}
Charge(r) == Transmit(r) /\ paid' = paid + PriceOf(run[r].model)

\* The pass logs its last attempt only.
LoggedCost(r) == run[r].cost + PriceOf(run[r].model)

\* An answer that does not match the schema is asked for once more.
Retry(r) ==
  /\ run[r].phase = "call"
  /\ ~run[r].retried
  /\ Step(r, [run[r] EXCEPT !.retried = TRUE])
  /\ Charge(r)

\* ProviderError: the pass is not logged and the finding is left for later.
ProviderFails(r) ==
  /\ run[r].phase = "call"
  /\ Step(r, [run[r] EXCEPT !.phase = "choose"])
  /\ Transmit(r)
  /\ UNCHANGED paid

\* Refused, or unusable twice.  A hosted bulk model is replaced by a local one;
\* without any answer, or with an escalation that gave none, a human decides.
NoAnswer(r) ==
  /\ run[r].phase = "call"
  /\ \/ /\ run[r].pass = "bulk" /\ ~IsLocal(run[r].model)
        /\ Step(r, [run[r] EXCEPT
             !.pass = "fallback", !.model = FallbackSelection, !.retried = FALSE,
             !.cost = LoggedCost(r),
             !.result = [run[r].result EXCEPT !.model = FallbackSelection]])
     \/ /\ ~(run[r].pass = "bulk" /\ ~IsLocal(run[r].model))
        /\ Step(r, [run[r] EXCEPT
             !.phase = "settle", !.cost = LoggedCost(r),
             !.result = [run[r].result EXCEPT !.forced = TRUE]])
  /\ Charge(r)

\* A usable answer of the bulk model, or of its fallback.
AcceptBulk(r, a) ==
  LET f == run[r].finding IN
  /\ run[r].phase = "call"
  /\ run[r].pass # "escalation"
  /\ Step(r, [run[r] EXCEPT
       !.phase = IF ~a.wantsMore /\ WantsEscalation(f, a) THEN "escalate" ELSE "settle",
       !.cost = LoggedCost(r),
       !.result = [run[r].result EXCEPT
          !.answer = a, !.heard = {a},
          !.forced = CrossCheckForces(f, a) \/ a.hallucinated]])
  /\ Charge(r)

\* Mutant: the escalation's flags replace the bulk pass's.
StillForcedByLast(forced, f, a) == CrossCheckForces(f, a) \/ a.hallucinated

\* What an escalation's answer adds to needs_human_forced.
StillForced(forced, f, a) == forced \/ CrossCheckForces(f, a) \/ a.hallucinated

\* A usable answer of the escalation model replaces the bulk one; what the bulk
\* pass raised stays raised.
AcceptEscalation(r, a) ==
  LET f == run[r].finding  before == run[r].result IN
  /\ run[r].phase = "call"
  /\ run[r].pass = "escalation"
  /\ Step(r, [run[r] EXCEPT
       !.phase = "settle",
       !.cost = LoggedCost(r),
       !.result = [before EXCEPT
          !.answer = a, !.heard = before.heard \cup {a},
          !.by = "escalation", !.model = run[r].model,
          !.forced = StillForced(before.forced, f, a)]])
  /\ Charge(r)

-----------------------------------------------------------------------------
(* After the round: agent.adjudicate_finding *)

\* Mutant: one round too many.
AsksAgainOffByOne(r) == run[r].result.answer.wantsMore /\ run[r].rounds <= MaxRounds

AsksAgain(r) == run[r].result.answer.wantsMore /\ run[r].rounds < MaxRounds

\* Mutant: the counter of verification rounds is never advanced.
RoundsAfterUncounted(n) == n

RoundsAfter(n) == n + 1

\* The tools the answer asks for are run and their evidence joins the bundle.
Verify(r) ==
  /\ run[r].phase = "settle"
  /\ AsksAgain(r)
  /\ Step(r, [run[r] EXCEPT !.phase = "lookup", !.rounds = RoundsAfter(run[r].rounds)])
  /\ Quietly

StoredValue(result) ==
  IF result.forced \/ result.answer.wantsMore THEN "needs_human" ELSE result.answer.value

\* Another run has updated the finding's row and has not committed.
Holds(q, f) == \E row \in run[q].wrote : row.finding = f
Storing(r) == run[r].phase = "settle" /\ ~AsksAgain(r)
WaitsFor(r, q) == Storing(r) /\ q # r /\ Holds(q, run[r].finding)

\* The row is inserted and Finding.status updated, once no other open run
\* holds the finding's row.
StoreVerdict(r) ==
  /\ Storing(r)
  /\ \A q \in Runs : ~WaitsFor(r, q)
  /\ Step(r, [run[r] EXCEPT
       !.phase = "choose",
       !.wrote = run[r].wrote \cup
          {[finding |-> run[r].finding, value |-> StoredValue(run[r].result),
            answer |-> run[r].result.answer, heard |-> run[r].result.heard,
            rounds |-> run[r].rounds, key |-> run[r].result.key,
            by |-> run[r].result.by, model |-> run[r].result.model]}])
  /\ Quietly

\* The loop is done or was left: the transaction commits.
Finish(r) ==
  /\ run[r].phase = "finish" \/ (run[r].phase = "choose" /\ run[r].todo = {})
  /\ rows' = rows \cup run[r].wrote
  /\ logged' = logged + run[r].cost
  /\ status' = [f \in Findings |->
       IF \E row \in run[r].wrote : row.finding = f
       THEN IF \E row \in run[r].wrote : row.finding = f /\ row.value = "needs_human"
            THEN "triaging" ELSE "triaged"
       ELSE status[f]]
  /\ run' = [run EXCEPT ![r] = Closed]
  /\ UNCHANGED <<pins, paid, sent, starts, repins>>

\* Runs take the findings in whatever order the database returns them, so each
\* may hold what another waits for.  PostgreSQL aborts one of such a ring.
DeadlockVictim(r) ==
  /\ \E ring \in SUBSET Runs :
       /\ r \in ring
       /\ \A q \in ring : \E before, after \in ring : WaitsFor(before, q) /\ WaitsFor(q, after)
  /\ Step(r, Closed)
  /\ Quietly

\* Any other exception or a killed process.
Abort(r) ==
  /\ run[r].phase # "idle"
  /\ Step(r, Closed)
  /\ Quietly

-----------------------------------------------------------------------------
\* What a run does by itself once it is open.
Advance(r) ==
  \/ \E f \in Findings : Choose(r, f) \/ Skip(r, f)
  \/ CacheHit(r) \/ CallBulk(r) \/ NoStronger(r) \/ CallEscalation(r)
  \/ HaltAtCeiling(r) \/ RedactionTrips(r)
  \/ Retry(r) \/ ProviderFails(r) \/ NoAnswer(r)
  \/ \E a \in Answers : AcceptBulk(r, a) \/ AcceptEscalation(r, a)
  \/ Verify(r) \/ StoreVerdict(r) \/ DeadlockVictim(r) \/ Finish(r)

Next ==
  \/ \E r \in Runs : Start(r) \/ Advance(r) \/ Abort(r)
  \/ \E role \in {"bulk", "escalation"}, s \in Selections : Repin(role, s)

Spec == Init /\ [][Next]_vars

\* Providers and tools answer or time out and the database sees to rings of waiting
\* transactions, so an open run does not stand still.
FairSpec == Spec /\ \A r \in Runs : WF_vars(Advance(r))

-----------------------------------------------------------------------------
(* Properties *)

\* The types, and the few facts a run's record owes to its phase.
TypeOK ==
  /\ status \in [Findings -> {"new", "triaging", "triaged"}]
  /\ rows \subseteq Row
  /\ logged \in Nat
  /\ pins \in [{"bulk", "escalation"} -> Selections]
  /\ run \in [Runs -> RunState]
  /\ \A r \in Runs :
       run[r].finding = NoFinding => run[r].phase \in {"idle", "choose", "finish"}
  /\ paid \in Nat
  /\ sent \subseteq [finding : Findings, local : BOOLEAN]
  /\ starts \in Nat
  /\ repins \in Nat

\* Rows written, committed or not.
AllRows == rows \cup UNION {run[r].wrote : r \in Runs}

\* No answer, an answer no check could clear, or one that still asks for
\* evidence is never turned into a decision: whichever pass raised the doubt, it
\* ends with a human (agent.py: needs_human_forced over bulk, fallback and
\* escalation).
UnsureGoesToHuman ==
  \A row \in AllRows : row.value # "needs_human" =>
    /\ row.heard # {}
    /\ \A a \in row.heard : ~Flagged(row.finding, a)
    /\ ~row.answer.wantsMore

\* A finding of critical base severity is never stored as a false positive,
\* by whatever pass, retry or verification round the verdict came about.
CriticalNeverBuried ==
  \A row \in AllRows :
    row.value = "false_positive" => Traits[row.finding].severity # "critical"

\* Evidence of a local_only category never reaches a hosted provider, whatever
\* is pinned, falls back or escalates, and however pins change meanwhile.
LocalOnlyStaysLocal ==
  \A s \in sent : Traits[s.finding].localOnly => s.local

\* A decision that had to be escalated was made by the escalation model.  Which one
\* that was is known for as long as nobody has pinned another.
UnsureEscalates ==
  repins = 0 => \A row \in AllRows :
    /\ row.value # "needs_human"
    /\ WantsEscalation(row.finding, row.answer)
    /\ row.by = "bulk"
    => row.model = ModelFor("escalation", row.finding)

\* What the committed log adds up to is at most, for each process that may run
\* at the same time, the ceiling exceeded by less than one call.
SpendBounded ==
  Ceiling > 0 => logged <= Cardinality(Runs) * (Ceiling - 1 + Price)

\* Every run ends: the verification rounds, retries and passes are bounded.
RunsEnd == \A r \in Runs : run[r].phase # "idle" ~> run[r].phase = "idle"
===============================================================================
