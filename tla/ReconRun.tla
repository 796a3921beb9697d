------------------------------- MODULE ReconRun -------------------------------
(***************************************************************************)
(* One scan run of kiyooo: the stage loop of kiyooo/recon/orchestrator.py, *)
(* the ScopeGuard every adapter asks about every target, and the           *)
(* EvidenceWriter that stores what adapters found, inside the one          *)
(* transaction of kiyooo/cli.py's `_run_scan`.                             *)
(*                                                                         *)
(* The adapters of a stage are asyncio tasks: a task is interrupted only   *)
(* where it awaits, that is around a database operation, an adapter's      *)
(* run(), a back-off sleep and the waits for a lock or the semaphore.      *)
(* ScopeGuard and EvidenceWriter each have a lock of their own and share   *)
(* one AsyncSession.                                                       *)
(***************************************************************************)
EXTENDS Naturals, FiniteSets

CONSTANTS
  Assets,          \* asset values: what is scanned and what may be found
  Seeds,           \* the assets the run starts from
  Excluded,        \* matched by an exclude rule of scope.yaml or of the org
  Named,           \* matched by a domain, wildcard or cloud account
  Ranged,          \* matched by a CIDR or an ASN
  Adapters,
  StageOf,         \* an adapter's stage, numbered within the profile's stages
  LastStage,
  Consumes,        \* the assets whose type an adapter takes
  Findable,        \* bound: the assets outputs may name
  Active,          \* adapters that send packets to the target itself
  MaxConcurrency,  \* the semaphore of a stage
  MaxRetries,
  Nobody           \* a lock's holder when it is free

ASSUME ParametersAssumption ==
  /\ IsFiniteSet(Assets)
  /\ Seeds \subseteq Assets
  /\ LastStage \in Nat
  /\ StageOf \in [Adapters -> 1..LastStage]
  /\ Consumes \in [Adapters -> SUBSET Assets]
  /\ Findable \subseteq Assets
  /\ Active \subseteq Adapters
  /\ MaxConcurrency \in Nat \ {0}
  /\ MaxRetries \in Nat
  /\ Nobody \notin Adapters

Decisions == {"allow", "deny", "requires_confirm"}
Settled == {"ok", "failed", "crashed"}
Phases == {"unstarted", "checking", "waiting", "running", "backoff", "writing"}
             \cup Settled

Task ==
  [phase : Phases,
   unchecked : SUBSET Assets,     \* candidates ScopeGuard was not asked about yet
   allowed : SUBSET Assets,
   attempt : 0..MaxRetries + 1,
   found : SUBSET Assets,         \* what the last output was parsed into
   unwritten : SUBSET Assets]     \* found, without an evidence row yet

VARIABLES
  dryRun,      \* --dry-run
  authorized,  \* scope.yaml, --active, attestation and the org all agree
  outcome,     \* "open", "committed" or "rolled_back": the transaction
  stage,       \* the stage under way; LastStage + 1 after the last
  pool,        \* assets known to the orchestrator
  task,        \* the adapters' tasks
  guard,       \* holder of ScopeGuard._lock
  writer,      \* holder of EvidenceWriter._lock
  broken,      \* the session refuses further work until it is rolled back
  audit,       \* AuditLog rows of the transaction
  evidence,    \* Evidence rows of the transaction: who recorded what
  contacted    \* history: targets handed to an adapter's run()

vars == <<dryRun, authorized, outcome, stage, pool, task, guard, writer, broken,
          audit, evidence, contacted>>
options == <<dryRun, authorized>>
rows == <<audit, evidence>>

-----------------------------------------------------------------------------
(* ScopeGuard._decide *)

InScope(t) == t \in (Named \cup Ranged) \ Excluded

\* A range alone does not say whose host it is: an active check of it waits for
\* a confirmation nobody can give yet.
Decide(t, active) ==
  CASE ~InScope(t)                            -> "deny"
    [] InScope(t) /\ ~active                  -> "allow"
    [] InScope(t) /\ active /\ ~authorized    -> "deny"
    [] InScope(t) /\ active /\ authorized     ->
         IF t \in Named THEN "allow" ELSE "requires_confirm"

-----------------------------------------------------------------------------
(* The stage loop *)

Unstarted == [phase |-> "unstarted", unchecked |-> {}, allowed |-> {},
              attempt |-> 0, found |-> {}, unwritten |-> {}]

\* After the checks: nothing sendable is an outcome of its own.
Cleared(t) ==
  IF t.unchecked # {} THEN t
  ELSE [t EXCEPT !.phase = IF t.allowed = {} THEN "ok" ELSE "waiting"]

\* Orchestrator.run creates a stage's tasks from one snapshot of the pool.  A
\* dry run describes the command and is done.
Opened(a, known) ==
  IF dryRun THEN [Unstarted EXCEPT !.phase = "ok"]
  ELSE Cleared([Unstarted EXCEPT !.phase = "checking",
                                 !.unchecked = known \cap Consumes[a]])

Init ==
  /\ dryRun \in BOOLEAN
  /\ authorized \in BOOLEAN
  /\ outcome = "open"
  /\ stage = 1
  /\ pool = Seeds
  /\ task = [a \in Adapters |-> IF StageOf[a] = 1 THEN Opened(a, Seeds) ELSE Unstarted]
  /\ guard = Nobody
  /\ writer = Nobody
  /\ broken = FALSE
  /\ audit = {}
  /\ evidence = {}
  /\ contacted = {}

InStage == {a \in Adapters : StageOf[a] = stage}

\* Mutant: what a failed or crashed adapter had parsed is fed forward as well.
FedForwardAnyway(a) == task[a].found

\* An outcome's discovered_assets; a crash has none.
FedForward(a) == IF task[a].phase = "ok" THEN task[a].found ELSE {}

\* Mutant: the first task to end ends the stage.
StageOverAtFirst ==
  InStage = {} \/ \E a \in InStage : task[a].phase \in Settled

\* gather() has returned: every task of the stage has an outcome or an
\* exception.
StageOver == \A a \in InStage : task[a].phase \in Settled

\* The next stage sees what this one discovered.
NextStage ==
  LET known == pool \cup UNION {FedForward(a) : a \in InStage} IN
  /\ outcome = "open"
  /\ stage <= LastStage
  /\ StageOver
  /\ pool' = known
  /\ stage' = stage + 1
  /\ task' = [a \in Adapters |->
       IF StageOf[a] = stage + 1 THEN Opened(a, known) ELSE task[a]]
  /\ UNCHANGED <<options, outcome, guard, writer, broken, rows, contacted>>

\* Status "completed", decay, snapshots and diff, then the commit.
Commit ==
  /\ outcome = "open"
  /\ stage > LastStage
  /\ ~broken
  /\ outcome' = "committed"
  /\ UNCHANGED <<options, stage, pool, task, guard, writer, broken, rows, contacted>>

\* Every row of the run is gone; what was sent was sent.
RolledBack ==
  /\ outcome = "open"
  /\ outcome' = "rolled_back"
  /\ audit' = {}
  /\ evidence' = {}
  /\ UNCHANGED <<options, stage, pool, task, guard, writer, broken, contacted>>

\* mark_status raises on a broken session.
RollBack == stage > LastStage /\ broken /\ RolledBack

\* A killed process, or an error after the stage loop.
Abort == RolledBack

-----------------------------------------------------------------------------
(* One adapter's task: Orchestrator._run_adapter *)

In(a, phase) == outcome = "open" /\ task[a].phase = phase
Become(a, t) == task' = [task EXCEPT ![a] = t]
OnlyTask == UNCHANGED <<options, outcome, stage, pool, guard, writer, broken, rows,
                        contacted>>

\* ScopeGuard.check: the lock is held while the audit row is written.
BeginCheck(a) ==
  /\ In(a, "checking")
  /\ guard = Nobody
  /\ ~broken
  /\ guard' = a
  /\ UNCHANGED <<options, outcome, stage, pool, task, writer, broken, rows, contacted>>

\* Mutant: a target that would need a confirmation is sent to all the same.
SendableUnlessDenied(decision) == decision # "deny"

\* ScopeCheckResult.sendable
Sendable(decision) == decision = "allow"

EndCheck(a, t) ==
  LET decision == Decide(t, a \in Active) IN
  /\ In(a, "checking")
  /\ guard = a
  /\ t \in task[a].unchecked
  /\ guard' = Nobody
  /\ audit' = audit \cup {[tool |-> a, target |-> t, decision |-> decision]}
  /\ Become(a, Cleared([task[a] EXCEPT
       !.unchecked = task[a].unchecked \ {t},
       !.allowed = IF Sendable(decision) THEN task[a].allowed \cup {t}
                                         ELSE task[a].allowed]))
  /\ UNCHANGED <<options, outcome, stage, pool, writer, broken, evidence, contacted>>

Running == {a \in Adapters : task[a].phase = "running"}

\* Mutant: the attempt is not counted.
AttemptsAfterUncounted(n) == IF n = 0 THEN 1 ELSE n

AttemptsAfter(n) == n + 1

\* The semaphore is held for the time of run() only.
RunAdapter(a) ==
  /\ In(a, "waiting")
  /\ Cardinality(Running) < MaxConcurrency
  /\ Become(a, [task[a] EXCEPT !.phase = "running",
                               !.attempt = AttemptsAfter(task[a].attempt)])
  /\ contacted' = contacted \cup
       {[tool |-> a, target |-> t] : t \in task[a].allowed}
  /\ UNCHANGED <<options, outcome, stage, pool, guard, writer, broken, rows>>

\* Mutant: one attempt too many.
RetriesLeftOffByOne(a) == task[a].attempt <= MaxRetries + 1

RetriesLeft(a) == task[a].attempt <= MaxRetries

\* A timeout, an exception of run(), or a result that is not ok.
RunFails(a) ==
  /\ In(a, "running")
  /\ Become(a, [task[a] EXCEPT
       !.phase = IF RetriesLeft(a) THEN "backoff" ELSE "failed"])
  /\ OnlyTask

Retry(a) ==
  /\ In(a, "backoff")
  /\ Become(a, [task[a] EXCEPT !.phase = "waiting"])
  /\ OnlyTask

\* The output is parsed into evidence about some assets, known or new.
RunSucceeds(a, found) ==
  /\ In(a, "running")
  /\ Become(a, [task[a] EXCEPT !.phase = "writing", !.found = found,
                               !.unwritten = found])
  /\ OnlyTask

\* An adapter whose parse() raises is not retried.
ParseRaises(a) ==
  /\ In(a, "running")
  /\ Become(a, [task[a] EXCEPT !.phase = "crashed"])
  /\ OnlyTask

\* EvidenceWriter.write_many: the lock is held over all the rows.
BeginWrite(a) ==
  /\ In(a, "writing")
  /\ writer = Nobody
  /\ writer' = a
  /\ UNCHANGED <<options, outcome, stage, pool, task, guard, broken, rows, contacted>>

WriteOne(a, t) ==
  /\ In(a, "writing")
  /\ writer = a
  /\ t \in task[a].unwritten
  /\ ~broken
  /\ evidence' = evidence \cup {[tool |-> a, asset |-> t]}
  /\ Become(a, [task[a] EXCEPT !.unwritten = task[a].unwritten \ {t}])
  /\ UNCHANGED <<options, outcome, stage, pool, guard, writer, broken, audit, contacted>>

EndWrite(a) ==
  /\ In(a, "writing")
  /\ writer = a
  /\ task[a].unwritten = {}
  /\ writer' = Nobody
  /\ Become(a, [task[a] EXCEPT !.phase = "ok"])
  /\ UNCHANGED <<options, outcome, stage, pool, guard, broken, rows, contacted>>

UsesSession(a) == guard = a \/ (writer = a /\ task[a].unwritten # {})
Released(lock, a) == IF lock = a THEN Nobody ELSE lock

\* An error in check() or write_many() is outside the task's try: the task
\* ends, its locks are released, the rows it flushed stay in the transaction.
\* A database error also leaves the session unusable; the object store's
\* does not.
Crash(a, breaks) ==
  /\ outcome = "open"
  /\ UsesSession(a)
  /\ breaks \/ writer = a
  /\ Become(a, [task[a] EXCEPT !.phase = "crashed"])
  /\ guard' = Released(guard, a)
  /\ writer' = Released(writer, a)
  /\ broken' = (broken \/ breaks)
  /\ UNCHANGED <<options, outcome, stage, pool, rows, contacted>>

\* On a broken session every check and write raises at once.
Refused(a) ==
  /\ outcome = "open"
  /\ broken
  /\ \/ task[a].phase = "checking" /\ guard = Nobody
     \/ writer = a /\ task[a].unwritten # {}
  /\ Become(a, [task[a] EXCEPT !.phase = "crashed"])
  /\ writer' = Released(writer, a)
  /\ UNCHANGED <<options, outcome, stage, pool, guard, broken, rows, contacted>>

-----------------------------------------------------------------------------
\* What a task does by itself.
Advance(a) ==
  \/ BeginCheck(a)
  \/ \E t \in Assets : EndCheck(a, t) \/ WriteOne(a, t)
  \/ RunAdapter(a) \/ RunFails(a) \/ Retry(a) \/ ParseRaises(a)
  \/ \E found \in SUBSET Findable : RunSucceeds(a, found)
  \/ BeginWrite(a) \/ EndWrite(a)
  \/ \E breaks \in BOOLEAN : Crash(a, breaks)
  \/ Refused(a)

Loop == NextStage \/ Commit \/ RollBack

Next == Loop \/ Abort \/ \E a \in Adapters : Advance(a)

Spec == Init /\ [][Next]_vars

\* wait_for ends run(), sleeps are finite, the database answers or fails, and
\* the event loop starves no task.
FairSpec == Spec /\ WF_vars(Loop) /\ \A a \in Adapters : WF_vars(Advance(a))

-----------------------------------------------------------------------------
(* Properties *)

\* The types of the variables and of every task's record.
TypeOK ==
  /\ dryRun \in BOOLEAN
  /\ authorized \in BOOLEAN
  /\ outcome \in {"open", "committed", "rolled_back"}
  /\ stage \in 1..LastStage + 1
  /\ pool \subseteq Assets
  /\ task \in [Adapters -> Task]
  /\ guard \in Adapters \cup {Nobody}
  /\ writer \in Adapters \cup {Nobody}
  /\ broken \in BOOLEAN
  /\ audit \subseteq [tool : Adapters, target : Assets, decision : Decisions]
  /\ evidence \subseteq [tool : Adapters, asset : Assets]
  /\ contacted \subseteq [tool : Adapters, target : Assets]

\* What ARCHITECTURE.md's invariants 2 and 3 permit.
MayContact(a, t, granted) ==
  /\ t \in (Named \cup Ranged) \ Excluded
  /\ a \in Active => granted /\ t \in Named

\* No adapter is let loose on a target outside the scope, an active one only on
\* explicitly named targets of an authorized run, whenever and by whomever the
\* target was discovered; and while the run's transaction stands, its audit log
\* says who allowed it.
ContactsAuthorized ==
  \A c \in contacted :
    /\ ~dryRun
    /\ MayContact(c.tool, c.target, authorized)
    /\ outcome # "rolled_back" =>
         [tool |-> c.tool, target |-> c.target, decision |-> "allow"] \in audit

\* Every target an adapter is let loose on is a seed, or was recorded in
\* evidence by an adapter of an earlier stage that did not fail: nothing is
\* scanned on the word of an adapter that crashed half-way.
ContactsAreEvidenced ==
  \A c \in contacted : c.target \in Seeds \/
    \E a \in Adapters :
      /\ StageOf[a] < StageOf[c.tool]
      /\ task[a].phase = "ok"
      /\ outcome # "rolled_back" => [tool |-> a, asset |-> c.target] \in evidence

\* Whatever its adapters do, retry or fail to do, the run ends.
RunEnds == <>(outcome # "open")

ResultOf(a) == IF StageOf[a] < stage THEN task[a].phase ELSE "none"

Promise == INSTANCE StagedScan
             WITH known <- pool, closed <- outcome, Permitted <- MayContact,
                  result <- [a \in Adapters |-> ResultOf(a)]

\* Interleaved, failing, retried and crashing adapters implement the staged
\* scan: stages in order and complete, contact within scope, results that stand.
KeepsStagedScan == Promise!StagedSpec
=============================================================================
