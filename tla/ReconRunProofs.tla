---------------------------- MODULE ReconRunProofs ----------------------------
(***************************************************************************)
(* Theorems about ReconRun for every set of adapters, stages and assets,   *)
(* every scope and every interleaving: who is contacted, on whose word,    *)
(* and that the run implements the staged scan.                            *)
(***************************************************************************)
EXTENDS ReconRun, FiniteSetTheorems, TLAPS

\* Rows stand until the transaction is rolled back.
Recorded(a, t) == outcome = "rolled_back" \/ [tool |-> a, asset |-> t] \in evidence
Allowed(a, t) ==
  /\ MayContact(a, t, authorized)
  /\ \/ outcome = "rolled_back"
     \/ [tool |-> a, target |-> t, decision |-> "allow"] \in audit

\* On whose word an adapter, or the pool, knows a target.
Vouches(b, t) == task[b].phase = "ok" /\ t \in task[b].found
Known(a, t) ==
  t \in Seeds \/ \E b \in Adapters : StageOf[b] < StageOf[a] /\ Vouches(b, t)
PoolKnown(t) ==
  t \in Seeds \/ \E b \in Adapters : StageOf[b] < stage /\ Vouches(b, t)

\* A task belongs to its stage, holds a lock only where it may, and its sets
\* hold what they should.
PhaseSound(a, d) ==
  /\ StageOf[a] > stage => d.phase = "unstarted"
  /\ StageOf[a] < stage => d.phase \in Settled
  /\ guard = a => d.phase = "checking"
  /\ writer = a => d.phase = "writing"
  /\ d.phase \notin {"writing", "crashed"} => d.unwritten = {}
  /\ d.phase \in {"checking", "waiting", "backoff"} => d.attempt <= MaxRetries
  /\ dryRun => d.phase \in {"unstarted", "ok"}
TargetsSound(a, d) ==
  /\ \A t \in d.found \ d.unwritten : Recorded(a, t)
  /\ \A t \in d.allowed : Allowed(a, t)
  /\ \A t \in d.unchecked \cup d.allowed : t \in pool /\ Known(a, t)
ContactSound(c) ==
  ~dryRun /\ Allowed(c.tool, c.target) /\ Known(c.tool, c.target)

TasksSound == \A a \in Adapters : PhaseSound(a, task[a]) /\ TargetsSound(a, task[a])
PoolSound == \A t \in pool : PoolKnown(t)
ContactsSound == \A c \in contacted : ContactSound(c)

IInv == TypeOK /\ TasksSound /\ PoolSound /\ ContactsSound

-----------------------------------------------------------------------------
(* Lemmas *)

LEMMA UnstartedType == Unstarted \in Task
  <1>1. 0 \in 0..MaxRetries + 1
    BY ParametersAssumption
  <1> QED BY <1>1 DEF Unstarted, Task, Phases

LEMMA ClearedType ==
  ASSUME NEW d \in Task
  PROVE  /\ Cleared(d) \in Task
         /\ Cleared(d).unchecked = d.unchecked
         /\ Cleared(d).allowed = d.allowed
         /\ Cleared(d).attempt = d.attempt
         /\ Cleared(d).found = d.found
         /\ Cleared(d).unwritten = d.unwritten
         /\ Cleared(d).phase \in {d.phase, "ok", "waiting"}
  BY DEF Cleared, Task, Phases, Settled

\* The task of a stage that opens, over a pool that is known.
LEMMA OpenedSound ==
  ASSUME NEW a \in Adapters, NEW known \in SUBSET Assets, dryRun \in BOOLEAN
  PROVE  LET d == Opened(a, known) IN
         /\ d \in Task
         /\ d.phase \in {"checking", "waiting", "ok"}
         /\ d.unchecked \subseteq known /\ d.allowed = {}
         /\ d.found = {} /\ d.unwritten = {} /\ d.attempt = 0
         /\ dryRun => d.phase = "ok"
  <1> DEFINE e1 == [Unstarted EXCEPT !.phase = "ok"]
             e2 == [Unstarted EXCEPT !.phase = "checking",
                                     !.unchecked = known \cap Consumes[a]]
  <1>1. e1 \in Task /\ e1.phase = "ok" /\ e1.unchecked = {} /\ e1.allowed = {}
        /\ e1.found = {} /\ e1.unwritten = {} /\ e1.attempt = 0
    BY UnstartedType DEF Task, Phases, Settled, Unstarted
  <1>2. e2 \in Task /\ e2.phase = "checking" /\ e2.unchecked \subseteq known
        /\ e2.allowed = {} /\ e2.found = {} /\ e2.unwritten = {} /\ e2.attempt = 0
    <2>1. known \cap Consumes[a] \in SUBSET Assets
      BY ParametersAssumption
    <2> QED BY UnstartedType, <2>1 DEF Task, Phases, Settled, Unstarted
  <1>3. Opened(a, known) = IF dryRun THEN e1 ELSE Cleared(e2)
    BY DEF Opened
  <1> HIDE DEF e1, e2
  <1>4. CASE dryRun
    BY <1>1, <1>3, <1>4
  <1>5. CASE ~dryRun
    BY <1>2, <1>3, <1>5, ClearedType
  <1> QED BY <1>4, <1>5

\* No step takes a row away but a rollback, and a task that ended well stays.
RowsStand ==
  \/ outcome' = "rolled_back"
  \/ outcome # "rolled_back" /\ audit \subseteq audit' /\ evidence \subseteq evidence'
StaysOk == \A b \in Adapters : task[b].phase = "ok" => task'[b] = task[b]

LEMMA RecordedStays ==
  ASSUME RowsStand, NEW a, NEW t
  PROVE  Recorded(a, t) => Recorded(a, t)'
  BY DEF RowsStand, Recorded

LEMMA AllowedStays ==
  ASSUME RowsStand, authorized' = authorized, NEW a, NEW t
  PROVE  Allowed(a, t) => Allowed(a, t)'
  BY DEF RowsStand, Allowed, MayContact

LEMMA KnownStays ==
  ASSUME StaysOk, NEW a, NEW t
  PROVE  Known(a, t) => Known(a, t)'
  BY DEF StaysOk, Known, Vouches

\* A step of the current stage leaves the other tasks, the pool and what was
\* contacted before sound.
SameStage == UNCHANGED <<dryRun, authorized, stage, pool>>

LEMMA OthersSound ==
  ASSUME IInv, RowsStand, StaysOk, SameStage,
         NEW b \in Adapters, task'[b] = task[b],
         guard' = b => guard = b, writer' = b => writer = b
  PROVE  (PhaseSound(b, task[b]) /\ TargetsSound(b, task[b]))'
  <1>1. PhaseSound(b, task[b]) /\ TargetsSound(b, task[b])
    BY DEF IInv, TasksSound
  <1>2. PhaseSound(b, task[b])'
    BY <1>1 DEF PhaseSound, SameStage
  <1>3. TargetsSound(b, task[b])'
    BY <1>1, RecordedStays, AllowedStays, KnownStays DEF TargetsSound, SameStage
  <1> QED BY <1>2, <1>3

LEMMA HistorySound ==
  ASSUME IInv, RowsStand, StaysOk, SameStage
  PROVE  PoolSound' /\ (\A c \in contacted : ContactSound(c)')
  <1>1. PoolSound'
    BY DEF IInv, PoolSound, PoolKnown, Vouches, StaysOk, SameStage
  <1>2. ASSUME NEW c \in contacted
        PROVE  ContactSound(c)'
    BY AllowedStays, KnownStays DEF IInv, ContactsSound, ContactSound, SameStage
  <1> QED BY <1>1, <1>2

-----------------------------------------------------------------------------
(* Steps of one task *)

\* A step of a's task that is not over: the others keep their record, a takes
\* a sound one, and locks move only between a and nobody.
Only(a) == \A b \in Adapters \ {a} : task'[b] = task[b]
LocksOf(a) ==
  /\ guard' \in {guard, a, Nobody}
  /\ writer' \in {writer, a, Nobody}
RestTyped ==
  /\ audit' \subseteq [tool : Adapters, target : Assets, decision : Decisions]
  /\ evidence' \subseteq [tool : Adapters, asset : Assets]
  /\ broken' \in BOOLEAN

NewContacts ==
  /\ contacted' \subseteq [tool : Adapters, target : Assets]
  /\ \A c \in contacted' : c \in contacted \/ ContactSound(c)'

LEMMA TaskSteps ==
  ASSUME IInv, NEW a \in Adapters, NEW d \in Task, task' = [task EXCEPT ![a] = d],
         task[a].phase # "ok", outcome' = outcome, outcome = "open", SameStage,
         audit \subseteq audit', evidence \subseteq evidence', RestTyped,
         LocksOf(a), NewContacts,
         PhaseSound(a, task[a])', TargetsSound(a, task[a])'
  PROVE  IInv'
  <1>1. task' \in [Adapters -> Task] /\ Only(a)
    BY DEF IInv, TypeOK, Only
  <1>2. RowsStand /\ StaysOk
    BY <1>1 DEF RowsStand, StaysOk, Only
  <1>3. TypeOK'
    BY <1>1 DEF IInv, TypeOK, SameStage, RestTyped, LocksOf, NewContacts
  <1>4. TasksSound'
    <2>1. ASSUME NEW b \in Adapters, b # a
          PROVE  (PhaseSound(b, task[b]) /\ TargetsSound(b, task[b]))'
      <3>1. task'[b] = task[b]
        BY <1>1, <2>1 DEF Only
      <3>2. (guard' = b => guard = b) /\ (writer' = b => writer = b)
        BY <2>1, ParametersAssumption DEF LocksOf
      <3> QED BY <1>2, <3>1, <3>2, OthersSound
    <2> QED BY <2>1 DEF TasksSound
  <1>5. PoolSound' /\ ContactsSound'
    BY <1>2, HistorySound DEF ContactsSound, NewContacts
  <1> QED BY <1>3, <1>4, <1>5 DEF IInv

\* An open task of the current stage.
LEMMA OpenTask ==
  ASSUME IInv, NEW a \in Adapters, task[a].phase \notin Settled \cup {"unstarted"}
  PROVE  /\ StageOf[a] = stage
         /\ task[a] \in Task
         /\ ~dryRun
  <1>1. task[a] \in Task /\ PhaseSound(a, task[a])
    BY DEF IInv, TypeOK, TasksSound
  <1>2. StageOf[a] \in Nat /\ stage \in Nat
    BY ParametersAssumption DEF IInv, TypeOK
  <1> QED BY <1>1, <1>2 DEF PhaseSound, Settled

\* The steps that write no row: only the task's record and maybe its locks.
Quiet == UNCHANGED <<outcome, broken, rows, contacted>> /\ SameStage

LEMMA QuietStep ==
  ASSUME IInv, NEW a \in Adapters, NEW d \in Task, task' = [task EXCEPT ![a] = d],
         outcome = "open", task[a].phase \notin Settled \cup {"unstarted"}, Quiet,
         LocksOf(a), PhaseSound(a, task[a])',
         d.found \ d.unwritten \subseteq task[a].found \ task[a].unwritten,
         d.allowed \subseteq task[a].allowed,
         d.unchecked \subseteq task[a].unchecked
  PROVE  IInv'
  <1>1. StaysOk /\ RowsStand /\ task'[a] = d
    BY DEF IInv, TypeOK, StaysOk, RowsStand, Settled, Quiet, rows
  <1>2. TargetsSound(a, task[a])'
    <2>1. TargetsSound(a, task[a])
      BY DEF IInv, TasksSound
    <2> QED BY <1>1, <2>1, RecordedStays, AllowedStays, KnownStays
        DEF TargetsSound, Quiet, SameStage
  <1>3. RestTyped /\ NewContacts /\ SameStage
    BY DEF IInv, TypeOK, RestTyped, NewContacts, Quiet, rows
  <1>4. audit \subseteq audit' /\ evidence \subseteq evidence' /\ outcome' = outcome
    BY DEF Quiet, rows
  <1>5. task[a].phase # "ok"
    BY DEF Settled
  <1> QED BY <1>2, <1>3, <1>4, <1>5, TaskSteps

LEMMA LockStep ==
  ASSUME IInv, NEW a \in Adapters, BeginCheck(a) \/ BeginWrite(a)
  PROVE  IInv'
  <1>1. task[a].phase \notin Settled \cup {"unstarted"} /\ outcome = "open"
    BY DEF BeginCheck, BeginWrite, In, Settled
  <1>2. task[a] \in Task /\ task' = [task EXCEPT ![a] = task[a]]
    BY DEF IInv, TypeOK, BeginCheck, BeginWrite
  <1>3. Quiet /\ LocksOf(a)
    BY DEF BeginCheck, BeginWrite, Quiet, SameStage, LocksOf, options, rows
  <1>4. PhaseSound(a, task[a])'
    BY ParametersAssumption DEF IInv, TasksSound, PhaseSound, BeginCheck, BeginWrite, In, options
  <1> QED BY <1>1, <1>2, <1>3, <1>4, QuietStep

\* A running or waiting task takes another phase.
LEMMA PhaseStep ==
  ASSUME IInv, NEW a \in Adapters, RunFails(a) \/ Retry(a) \/ ParseRaises(a)
  PROVE  IInv'
  <1> DEFINE p == CASE RunFails(a) -> IF RetriesLeft(a) THEN "backoff" ELSE "failed"
                    [] ~RunFails(a) /\ Retry(a) -> "waiting"
                    [] OTHER -> "crashed"
             d == [task[a] EXCEPT !.phase = p]
  <1>1. task[a].phase \in {"running", "backoff"} /\ outcome = "open"
    BY DEF RunFails, Retry, ParseRaises, In
  <1>2. task[a] \in Task /\ StageOf[a] = stage /\ ~dryRun
    BY <1>1, OpenTask DEF Settled
  <1>3. p \in {"backoff", "failed", "waiting", "crashed"}
    OBVIOUS
  <1>10. p \in {"backoff", "waiting"} => task[a].attempt <= MaxRetries
    <2>1. CASE RunFails(a)
      BY <2>1 DEF RetriesLeft
    <2>2. CASE ~RunFails(a) /\ Retry(a)
      BY <2>2 DEF Retry, In, IInv, TasksSound, PhaseSound
    <2>3. CASE ~RunFails(a) /\ ~Retry(a)
      BY <2>3
    <2> QED BY <2>1, <2>2, <2>3
  <1>4. task' = [task EXCEPT ![a] = d] /\ OnlyTask
    BY DEF RunFails, Retry, ParseRaises, Become, In
  <1> HIDE DEF p
  <1>5. d \in Task /\ d.phase = p /\ d.unwritten = task[a].unwritten
        /\ d.found = task[a].found /\ d.allowed = task[a].allowed
        /\ d.unchecked = task[a].unchecked /\ d.attempt = task[a].attempt
    BY <1>2, <1>3 DEF Task, Phases, Settled
  <1> HIDE DEF d
  <1>6. task'[a] = d
    BY <1>4 DEF IInv, TypeOK
  <1>7. Quiet /\ LocksOf(a)
    BY <1>4 DEF OnlyTask, Quiet, SameStage, LocksOf, options, rows
  <1>8. PhaseSound(a, task[a])'
    <2>1. guard # a /\ writer # a /\ task[a].unwritten = {}
      BY <1>1 DEF IInv, TasksSound, PhaseSound
    <2>2. StageOf[a] \in Nat
      BY ParametersAssumption
    <2> QED BY <1>2, <1>3, <1>4, <1>5, <1>6, <1>10, <2>1, <2>2
        DEF PhaseSound, OnlyTask, options
  <1>9. task[a].phase \notin Settled \cup {"unstarted"}
    BY <1>1 DEF Settled
  <1> QED BY <1>1, <1>4, <1>5, <1>7, <1>8, <1>9, QuietStep

\* run() starts: the adapter is let loose on what ScopeGuard allowed.
LEMMA RunAdapterStep ==
  ASSUME IInv, NEW a \in Adapters, RunAdapter(a)
  PROVE  IInv'
  <1> DEFINE n == AttemptsAfter(task[a].attempt)
             d == [task[a] EXCEPT !.phase = "running", !.attempt = n]
  <1>1. task[a].phase = "waiting" /\ outcome = "open"
    BY DEF RunAdapter, In
  <1>2. task[a] \in Task /\ StageOf[a] = stage /\ ~dryRun
    BY <1>1, OpenTask DEF Settled
  <1>3. PhaseSound(a, task[a]) /\ TargetsSound(a, task[a])
    BY DEF IInv, TasksSound
  <1>4. n \in 0..MaxRetries + 1
    <2>1. task[a].attempt \in Nat /\ task[a].attempt <= MaxRetries
      BY <1>1, <1>2, <1>3 DEF Task, PhaseSound
    <2> QED BY <2>1, ParametersAssumption DEF AttemptsAfter
  <1>5. task' = [task EXCEPT ![a] = d]
    BY DEF RunAdapter, Become
  <1> HIDE DEF n
  <1>6. d \in Task /\ d.phase = "running" /\ d.unwritten = task[a].unwritten
        /\ d.found = task[a].found /\ d.allowed = task[a].allowed
        /\ d.unchecked = task[a].unchecked
    BY <1>2, <1>4 DEF Task, Phases
  <1> HIDE DEF d
  <1>7. task'[a] = d
    BY <1>5 DEF IInv, TypeOK
  <1>8. SameStage /\ LocksOf(a) /\ RestTyped /\ outcome' = outcome
        /\ audit' = audit /\ evidence' = evidence
    BY DEF RunAdapter, SameStage, LocksOf, RestTyped, options, rows, IInv, TypeOK
  <1>9. RowsStand /\ StaysOk
    BY <1>1, <1>5, <1>8 DEF RowsStand, StaysOk, IInv, TypeOK
  <1>10. PhaseSound(a, task[a])'
    <2>1. guard # a /\ writer # a /\ task[a].unwritten = {}
      BY <1>1, <1>3 DEF PhaseSound
    <2>2. StageOf[a] \in Nat
      BY ParametersAssumption
    <2>3. UNCHANGED <<guard, writer, dryRun>>
      BY DEF RunAdapter, options
    <2> QED BY <1>2, <1>6, <1>7, <1>8, <2>1, <2>2, <2>3 DEF PhaseSound, SameStage
  <1>11. TargetsSound(a, task[a])'
    BY <1>3, <1>6, <1>7, <1>8, <1>9, RecordedStays, AllowedStays, KnownStays
    DEF TargetsSound, SameStage
  <1>12. NewContacts
    <2>1. contacted' = contacted \cup {[tool |-> a, target |-> t] : t \in task[a].allowed}
      BY DEF RunAdapter
    <2>2. ASSUME NEW t \in task[a].allowed
          PROVE  /\ [tool |-> a, target |-> t] \in [tool : Adapters, target : Assets]
                 /\ ContactSound([tool |-> a, target |-> t])'
      <3>1. t \in Assets
        BY <1>2 DEF Task
      <3>2. Allowed(a, t)' /\ Known(a, t)'
        BY <1>3, <1>8, <1>9, AllowedStays, KnownStays DEF TargetsSound, SameStage
      <3>3. ~dryRun'
        BY <1>2, <1>8 DEF SameStage
      <3> QED BY <3>1, <3>2, <3>3 DEF ContactSound
    <2>3. contacted \subseteq [tool : Adapters, target : Assets]
      BY DEF IInv, TypeOK
    <2> QED BY <2>1, <2>2, <2>3 DEF NewContacts
  <1>13. audit \subseteq audit' /\ evidence \subseteq evidence' /\ task[a].phase # "ok"
    BY <1>1, <1>8
  <1> QED BY <1>1, <1>5, <1>6, <1>8, <1>10, <1>11, <1>12, <1>13, TaskSteps

\* The adapter's output is parsed; what it names has no row yet.
LEMMA RunSucceedsStep ==
  ASSUME IInv, NEW a \in Adapters, NEW found \in SUBSET Findable, RunSucceeds(a, found)
  PROVE  IInv'
  <1> DEFINE d == [task[a] EXCEPT !.phase = "writing", !.found = found,
                                  !.unwritten = found]
  <1>1. task[a].phase = "running" /\ outcome = "open"
    BY DEF RunSucceeds, In
  <1>2. task[a] \in Task /\ StageOf[a] = stage /\ ~dryRun
    BY <1>1, OpenTask DEF Settled
  <1>3. task' = [task EXCEPT ![a] = d] /\ OnlyTask
    BY DEF RunSucceeds, Become
  <1>4. found \in SUBSET Assets
    BY ParametersAssumption
  <1>5. d \in Task /\ d.phase = "writing" /\ d.found \ d.unwritten = {}
        /\ d.allowed = task[a].allowed /\ d.unchecked = task[a].unchecked
    BY <1>2, <1>4 DEF Task, Phases
  <1> HIDE DEF d
  <1>6. task'[a] = d
    BY <1>3 DEF IInv, TypeOK
  <1>7. Quiet /\ LocksOf(a)
    BY <1>3 DEF OnlyTask, Quiet, SameStage, LocksOf, options, rows
  <1>8. PhaseSound(a, task[a])'
    <2>1. guard # a
      BY <1>1 DEF IInv, TasksSound, PhaseSound
    <2>2. StageOf[a] \in Nat
      BY ParametersAssumption
    <2> QED BY <1>2, <1>3, <1>5, <1>6, <2>1, <2>2 DEF PhaseSound, OnlyTask, options
  <1>9. task[a].phase \notin Settled \cup {"unstarted"}
    BY <1>1 DEF Settled
  <1> QED BY <1>1, <1>3, <1>5, <1>7, <1>8, <1>9, QuietStep

\* A task that ends, well or in a crash, with the locks it held released.
LEMMA EndStep ==
  ASSUME IInv, NEW a \in Adapters, EndWrite(a) \/ Refused(a)
  PROVE  IInv'
  <1> DEFINE p == IF EndWrite(a) THEN "ok" ELSE "crashed"
             d == [task[a] EXCEPT !.phase = p]
  <1>1. PhaseSound(a, task[a]) /\ task[a] \in Task
    BY DEF IInv, TypeOK, TasksSound
  <1>2. task[a].phase \in {"checking", "writing"} /\ outcome = "open"
    BY <1>1 DEF EndWrite, Refused, In, PhaseSound
  <1>3. StageOf[a] = stage /\ ~dryRun
    BY <1>2, OpenTask DEF Settled
  <1>4. task' = [task EXCEPT ![a] = d]
    BY DEF EndWrite, Refused, Become
  <1>5. p \in {"ok", "crashed"} /\ (p = "ok" => task[a].unwritten = {})
    BY DEF EndWrite
  <1>6. Quiet /\ LocksOf(a) /\ guard' # a /\ writer' # a /\ dryRun' = dryRun
    <2>1. CASE EndWrite(a)
      <3>1. guard # a
        BY <1>1, <2>1 DEF PhaseSound, EndWrite, In
      <3> QED BY <2>1, <3>1, ParametersAssumption
          DEF EndWrite, Quiet, SameStage, LocksOf, options, rows
    <2>2. CASE Refused(a)
      <3>1. guard # a /\ guard' = guard
        BY <1>1, <2>2, ParametersAssumption DEF PhaseSound, Refused
      <3>2. writer' # a /\ writer' \in {writer, Nobody}
        BY <2>2, ParametersAssumption DEF Refused, Released
      <3> QED BY <2>2, <3>1, <3>2 DEF Refused, Quiet, SameStage, LocksOf, options, rows
    <2> QED BY <2>1, <2>2
  <1> HIDE DEF p
  <1>7. d \in Task /\ d.phase = p /\ d.unwritten = task[a].unwritten
        /\ d.found = task[a].found /\ d.allowed = task[a].allowed
        /\ d.unchecked = task[a].unchecked
    BY <1>1, <1>5 DEF Task, Phases, Settled
  <1> HIDE DEF d
  <1>8. task'[a] = d
    BY <1>4 DEF IInv, TypeOK
  <1>9. PhaseSound(a, task[a])'
    <2>1. StageOf[a] \in Nat
      BY ParametersAssumption
    <2> QED BY <1>3, <1>5, <1>6, <1>7, <1>8, <2>1 DEF PhaseSound, Quiet, SameStage, Settled
  <1>10. task[a].phase \notin Settled \cup {"unstarted"}
    BY <1>2 DEF Settled
  <1> QED BY <1>2, <1>4, <1>6, <1>7, <1>9, <1>10, QuietStep

LEMMA CrashStep ==
  ASSUME IInv, NEW a \in Adapters, NEW breaks \in BOOLEAN, Crash(a, breaks)
  PROVE  IInv'
  <1> DEFINE d == [task[a] EXCEPT !.phase = "crashed"]
  <1>1. PhaseSound(a, task[a]) /\ TargetsSound(a, task[a]) /\ task[a] \in Task
    BY DEF IInv, TypeOK, TasksSound
  <1>2. task[a].phase \in {"checking", "writing"} /\ outcome = "open"
    BY <1>1 DEF Crash, UsesSession, PhaseSound
  <1>3. StageOf[a] = stage /\ ~dryRun
    BY <1>2, OpenTask DEF Settled
  <1>4. task' = [task EXCEPT ![a] = d]
    BY DEF Crash, Become
  <1>5. d \in Task /\ d.phase = "crashed" /\ d.unwritten = task[a].unwritten
        /\ d.found = task[a].found /\ d.allowed = task[a].allowed
        /\ d.unchecked = task[a].unchecked
    BY <1>1 DEF Task, Phases, Settled
  <1> HIDE DEF d
  <1>6. task'[a] = d
    BY <1>4 DEF IInv, TypeOK
  <1>7. SameStage /\ RestTyped /\ outcome' = outcome /\ contacted' = contacted
        /\ audit' = audit /\ evidence' = evidence
    BY DEF Crash, SameStage, RestTyped, options, rows, IInv, TypeOK
  <1>8. LocksOf(a) /\ guard' # a /\ writer' # a
    BY ParametersAssumption DEF Crash, Released, LocksOf
  <1>9. RowsStand /\ StaysOk
    BY <1>2, <1>4, <1>7 DEF RowsStand, StaysOk, IInv, TypeOK
  <1>10. PhaseSound(a, task[a])'
    <2>1. StageOf[a] \in Nat
      BY ParametersAssumption
    <2> QED BY <1>3, <1>5, <1>6, <1>7, <1>8, <2>1 DEF PhaseSound, SameStage, Settled
  <1>11. TargetsSound(a, task[a])'
    BY <1>1, <1>5, <1>6, <1>7, <1>9, RecordedStays, AllowedStays, KnownStays
    DEF TargetsSound, SameStage
  <1>12. NewContacts
    BY <1>7 DEF NewContacts, IInv, TypeOK
  <1>13. audit \subseteq audit' /\ evidence \subseteq evidence' /\ task[a].phase # "ok"
    BY <1>2, <1>7
  <1> QED BY <1>2, <1>4, <1>5, <1>7, <1>8, <1>10, <1>11, <1>12, <1>13, TaskSteps

LEMMA WriteOneStep ==
  ASSUME IInv, NEW a \in Adapters, NEW t \in Assets, WriteOne(a, t)
  PROVE  IInv'
  <1> DEFINE d == [task[a] EXCEPT !.unwritten = task[a].unwritten \ {t}]
  <1>1. PhaseSound(a, task[a]) /\ TargetsSound(a, task[a]) /\ task[a] \in Task
    BY DEF IInv, TypeOK, TasksSound
  <1>2. task[a].phase = "writing" /\ outcome = "open"
    BY DEF WriteOne, In
  <1>3. StageOf[a] = stage /\ ~dryRun
    BY <1>2, OpenTask DEF Settled
  <1>4. task' = [task EXCEPT ![a] = d]
    BY DEF WriteOne, Become
  <1>5. d \in Task /\ d.phase = "writing" /\ d.unwritten = task[a].unwritten \ {t}
        /\ d.found = task[a].found /\ d.allowed = task[a].allowed
        /\ d.unchecked = task[a].unchecked
    BY <1>1, <1>2 DEF Task
  <1> HIDE DEF d
  <1>6. task'[a] = d
    BY <1>4 DEF IInv, TypeOK
  <1>7. SameStage /\ outcome' = outcome /\ contacted' = contacted /\ audit' = audit
        /\ evidence' = evidence \cup {[tool |-> a, asset |-> t]}
        /\ UNCHANGED <<guard, writer>>
    BY DEF WriteOne, SameStage, options
  <1>8. RestTyped /\ LocksOf(a) /\ NewContacts
    <2>1. broken' = broken
      BY DEF WriteOne
    <2> QED BY <1>7, <2>1 DEF RestTyped, LocksOf, NewContacts, IInv, TypeOK
  <1>9. RowsStand /\ StaysOk
    BY <1>2, <1>4, <1>7 DEF RowsStand, StaysOk, IInv, TypeOK
  <1>10. PhaseSound(a, task[a])'
    BY <1>1, <1>2, <1>3, <1>5, <1>6, <1>7 DEF PhaseSound, SameStage
  <1>11. TargetsSound(a, task[a])'
    <2>1. ASSUME NEW u \in d.found \ d.unwritten
          PROVE  Recorded(a, u)'
      <3>1. CASE u = t
        BY <1>7, <3>1 DEF Recorded
      <3>2. CASE u # t
        BY <1>1, <1>5, <1>9, <2>1, <3>2, RecordedStays DEF TargetsSound
      <3> QED BY <3>1, <3>2
    <2> QED BY <1>1, <1>5, <1>6, <1>7, <1>9, <2>1, AllowedStays, KnownStays
        DEF TargetsSound, SameStage
  <1>12. audit \subseteq audit' /\ evidence \subseteq evidence' /\ task[a].phase # "ok"
    BY <1>2, <1>7
  <1> QED BY <1>2, <1>4, <1>5, <1>7, <1>8, <1>10, <1>11, <1>12, TaskSteps

\* One decision of ScopeGuard, with its audit row.
LEMMA EndCheckStep ==
  ASSUME IInv, NEW a \in Adapters, NEW t \in Assets, EndCheck(a, t)
  PROVE  IInv'
  <1> DEFINE decision == Decide(t, a \in Active)
             ok == IF Sendable(decision) THEN task[a].allowed \cup {t}
                                         ELSE task[a].allowed
             c == [task[a] EXCEPT !.unchecked = task[a].unchecked \ {t}, !.allowed = ok]
             d == Cleared(c)
  <1>1. PhaseSound(a, task[a]) /\ TargetsSound(a, task[a]) /\ task[a] \in Task
    BY DEF IInv, TypeOK, TasksSound
  <1>2. task[a].phase = "checking" /\ outcome = "open" /\ t \in task[a].unchecked
    BY DEF EndCheck, In
  <1>3. StageOf[a] = stage /\ ~dryRun
    BY <1>2, OpenTask DEF Settled
  <1>4. task' = [task EXCEPT ![a] = d]
    BY DEF EndCheck, Become
  <1>5. ok \in SUBSET Assets /\ ok \subseteq task[a].allowed \cup {t}
        /\ (t \in ok => t \in task[a].allowed \/ decision = "allow")
    BY <1>1 DEF Task, Sendable
  <1>6. decision \in Decisions /\ (decision = "allow" => MayContact(a, t, authorized))
    BY DEF Decide, InScope, Decisions, MayContact
  <1>7. SameStage /\ outcome' = outcome /\ contacted' = contacted
        /\ evidence' = evidence /\ writer' = writer /\ guard' = Nobody
        /\ audit' = audit \cup {[tool |-> a, target |-> t, decision |-> decision]}
    BY DEF EndCheck, SameStage, options
  <1>8. RestTyped /\ LocksOf(a) /\ NewContacts
    <2>1. broken' = broken
      BY DEF EndCheck
    <2> HIDE DEF decision
    <2> QED BY <1>6, <1>7, <2>1 DEF RestTyped, LocksOf, NewContacts, IInv, TypeOK
  <1> HIDE DEF decision, ok
  <1>9. c \in Task /\ c.phase = "checking" /\ c.unchecked = task[a].unchecked \ {t}
        /\ c.allowed = ok /\ c.found = task[a].found
        /\ c.unwritten = task[a].unwritten /\ c.attempt = task[a].attempt
    BY <1>1, <1>2, <1>5 DEF Task
  <1> HIDE DEF c
  <1>10. /\ d \in Task /\ d.phase \in {"checking", "ok", "waiting"}
         /\ d.unchecked = task[a].unchecked \ {t} /\ d.allowed = ok
         /\ d.found = task[a].found /\ d.unwritten = task[a].unwritten
         /\ d.attempt = task[a].attempt
    BY <1>9, ClearedType
  <1> HIDE DEF d
  <1>11. task'[a] = d
    BY <1>4 DEF IInv, TypeOK
  <1>12. RowsStand /\ StaysOk
    BY <1>2, <1>4, <1>7 DEF RowsStand, StaysOk, IInv, TypeOK
  <1>13. PhaseSound(a, task[a])'
    <2>1. writer # a /\ Nobody # a
      BY <1>1, <1>2, ParametersAssumption DEF PhaseSound
    <2>2. StageOf[a] \in Nat
      BY ParametersAssumption
    <2> QED BY <1>1, <1>2, <1>3, <1>7, <1>10, <1>11, <2>1, <2>2 DEF PhaseSound, SameStage
  <1>14. TargetsSound(a, task[a])'
    <2>1. ASSUME NEW u \in ok
          PROVE  Allowed(a, u)'
      <3>1. CASE u \in task[a].allowed
        BY <1>1, <1>7, <1>12, <3>1, AllowedStays DEF TargetsSound, SameStage
      <3>2. CASE u \notin task[a].allowed
        <4>1. u = t /\ decision = "allow"
          BY <1>5, <2>1, <3>2
        <4>2. MayContact(a, u, authorized)'
          BY <1>6, <1>7, <4>1 DEF MayContact, SameStage
        <4> QED BY <1>7, <4>1, <4>2 DEF Allowed
      <3> QED BY <3>1, <3>2
    <2>2. ASSUME NEW u \in task[a].unchecked \cup task[a].allowed
          PROVE  (u \in pool /\ Known(a, u))'
      BY <1>1, <1>7, <1>12, KnownStays DEF TargetsSound, SameStage
    <2>3. (\A u \in task[a].found \ task[a].unwritten : Recorded(a, u))'
      BY <1>1, <1>10, <1>11, <1>12, RecordedStays DEF TargetsSound
    <2>4. d.unchecked \cup d.allowed \subseteq task[a].unchecked \cup task[a].allowed
      BY <1>2, <1>5, <1>10
    <2> QED BY <1>10, <1>11, <2>1, <2>2, <2>3, <2>4 DEF TargetsSound
  <1>15. audit \subseteq audit' /\ evidence \subseteq evidence' /\ task[a].phase # "ok"
    BY <1>2, <1>7
  <1> QED BY <1>2, <1>4, <1>7, <1>8, <1>10, <1>13, <1>14, <1>15, TaskSteps

-----------------------------------------------------------------------------
(* Steps of the stage loop *)

LEMMA NextStageStep ==
  ASSUME IInv, NextStage
  PROVE  IInv'
  <1> DEFINE known == pool \cup UNION {FedForward(a) : a \in InStage}
  <1>1. TypeOK /\ TasksSound /\ stage \in Nat /\ stage <= LastStage
    BY DEF IInv, NextStage, TypeOK
  <1>2. \A a \in Adapters : StageOf[a] \in Nat
    BY ParametersAssumption
  <1>3. \A a \in Adapters : FedForward(a) \in SUBSET Assets
    BY <1>1 DEF TypeOK, FedForward, Task
  <1>4. known \in SUBSET Assets
    BY <1>1, <1>3 DEF InStage, TypeOK
  <1>5. /\ pool' = known /\ stage' = stage + 1
        /\ task' = [a \in Adapters |->
             IF StageOf[a] = stage + 1 THEN Opened(a, known) ELSE task[a]]
        /\ UNCHANGED <<dryRun, authorized, outcome, guard, writer, broken, audit,
                       evidence, contacted>>
        /\ outcome = "open" /\ StageOver
    BY DEF NextStage, options, rows
  <1>6. pool \subseteq known
    OBVIOUS
  <1>7. \A t \in known \ pool : \E b \in Adapters : StageOf[b] = stage /\ Vouches(b, t)
    BY DEF InStage, FedForward, Vouches
  <1> HIDE DEF known
  <1>8. \A a \in Adapters : StageOf[a] = stage + 1 =>
          /\ task'[a] = Opened(a, known)
          /\ task[a].phase = "unstarted"
    BY <1>1, <1>2, <1>5 DEF TasksSound, PhaseSound
  <1>9. \A a \in Adapters : StageOf[a] # stage + 1 => task'[a] = task[a]
    BY <1>5
  <1>10. StaysOk /\ RowsStand
    BY <1>5, <1>8, <1>9 DEF StaysOk, RowsStand
  <1>11. task' \in [Adapters -> Task]
    <2>1. \A a \in Adapters : Opened(a, known) \in Task
      BY <1>1, <1>4, OpenedSound DEF TypeOK
    <2> QED BY <1>1, <1>5, <2>1 DEF TypeOK
  <1>12. TypeOK'
    BY <1>1, <1>4, <1>5, <1>11, ParametersAssumption DEF TypeOK
  <1>13. PoolSound'
    <2>1. ASSUME NEW t \in known
          PROVE  PoolKnown(t)'
      <3>1. CASE t \in pool
        BY <1>1, <1>2, <1>5, <1>10, <3>1 DEF IInv, PoolSound, PoolKnown, Vouches, StaysOk
      <3>2. CASE t \notin pool
        BY <1>1, <1>2, <1>5, <1>7, <1>10, <3>2 DEF PoolKnown, Vouches, StaysOk
      <3> QED BY <3>1, <3>2
    <2> QED BY <1>5, <2>1 DEF PoolSound
  <1>14. ContactsSound'
    BY <1>5, <1>10, AllowedStays, KnownStays DEF IInv, ContactsSound, ContactSound
  <1>15. ASSUME NEW a \in Adapters
         PROVE  (PhaseSound(a, task[a]) /\ TargetsSound(a, task[a]))'
    <2>1. PhaseSound(a, task[a]) /\ TargetsSound(a, task[a])
      BY <1>1 DEF TasksSound
    <2>2. CASE StageOf[a] # stage + 1
      <3>1. task'[a] = task[a]
        BY <1>9, <2>2
      <3>2. PhaseSound(a, task[a])'
        <4>1. StageOf[a] = stage => task[a].phase \in Settled
          BY <1>5 DEF StageOver, InStage
        <4>2. (StageOf[a] > stage + 1 => StageOf[a] > stage)
              /\ (StageOf[a] < stage + 1 => StageOf[a] < stage \/ StageOf[a] = stage)
          BY <1>1, <1>2
        <4> QED BY <1>5, <2>1, <3>1, <4>1, <4>2 DEF PhaseSound
      <3>3. TargetsSound(a, task[a])'
        BY <1>5, <1>6, <1>10, <2>1, <3>1, RecordedStays, AllowedStays, KnownStays
        DEF TargetsSound
      <3> QED BY <3>2, <3>3
    <2>3. CASE StageOf[a] = stage + 1
      <3> DEFINE d == Opened(a, known)
      <3>1. task'[a] = d /\ task[a].phase = "unstarted"
        BY <1>8, <2>3
      <3>2. /\ d.phase \in {"checking", "waiting", "ok"}
            /\ d.unchecked \subseteq known /\ d.allowed = {}
            /\ d.found = {} /\ d.unwritten = {} /\ d.attempt = 0
            /\ dryRun => d.phase = "ok"
        BY <1>1, <1>4, OpenedSound DEF TypeOK
      <3> HIDE DEF d
      <3>3. guard # a /\ writer # a
        BY <2>1, <3>1 DEF PhaseSound
      <3>4. PhaseSound(a, task[a])'
        <4>1. ~(StageOf[a] > stage') /\ ~(StageOf[a] < stage') /\ 0 <= MaxRetries
          BY <1>1, <1>2, <1>5, <2>3, ParametersAssumption
        <4> QED BY <1>5, <3>1, <3>2, <3>3, <4>1 DEF PhaseSound
      <3>5. ASSUME NEW t \in known
            PROVE  Known(a, t)'
        <4>1. PoolKnown(t)'
          BY <1>5, <1>13 DEF PoolSound
        <4> QED BY <1>5, <2>3, <4>1 DEF PoolKnown, Known
      <3>6. TargetsSound(a, task[a])'
        BY <1>5, <3>1, <3>2, <3>5 DEF TargetsSound
      <3> QED BY <3>4, <3>6
    <2> QED BY <2>2, <2>3
  <1>16. TasksSound'
    BY <1>15 DEF TasksSound
  <1> QED BY <1>12, <1>13, <1>14, <1>16 DEF IInv

\* The transaction ends, one way or the other.
LEMMA CloseStep ==
  ASSUME IInv, Commit \/ RollBack \/ Abort
  PROVE  IInv'
  <1>1. UNCHANGED <<dryRun, authorized, stage, pool, task, guard, writer, broken,
                    contacted>>
    BY DEF Commit, RollBack, Abort, RolledBack, options
  <1>2. RowsStand /\ StaysOk /\ SameStage
    BY <1>1 DEF RowsStand, StaysOk, SameStage, Commit, RollBack, Abort, RolledBack, rows
  <1>3. TypeOK'
    BY <1>1 DEF IInv, TypeOK, Commit, RollBack, Abort, RolledBack, rows
  <1>4. TasksSound'
    BY <1>1, <1>2, OthersSound DEF TasksSound
  <1>5. PoolSound' /\ ContactsSound'
    BY <1>1, <1>2, HistorySound DEF ContactsSound
  <1> QED BY <1>3, <1>4, <1>5 DEF IInv

LEMMA InitSound == Init => IInv
  <1> SUFFICES ASSUME Init PROVE IInv
    OBVIOUS
  <1>1. dryRun \in BOOLEAN /\ Seeds \in SUBSET Assets
    BY ParametersAssumption DEF Init
  <1>2. \A a \in Adapters : task[a] = IF StageOf[a] = 1 THEN Opened(a, Seeds) ELSE Unstarted
    BY DEF Init
  <1>3. task \in [Adapters -> Task]
    BY <1>1, OpenedSound, UnstartedType DEF Init
  <1>4. TypeOK
    <2>1. stage \in 1..LastStage + 1
      BY ParametersAssumption DEF Init
    <2>2. broken \in BOOLEAN /\ authorized \in BOOLEAN
      BY DEF Init
    <2>3. /\ pool \subseteq Assets
          /\ audit \subseteq [tool : Adapters, target : Assets, decision : Decisions]
          /\ evidence \subseteq [tool : Adapters, asset : Assets]
          /\ contacted \subseteq [tool : Adapters, target : Assets]
      BY <1>1 DEF Init
    <2>4. /\ outcome \in {"open", "committed", "rolled_back"}
          /\ guard \in Adapters \cup {Nobody} /\ writer \in Adapters \cup {Nobody}
      BY DEF Init
    <2> QED BY <1>1, <1>3, <2>1, <2>2, <2>3, <2>4 DEF TypeOK
  <1>5. ASSUME NEW a \in Adapters
        PROVE  PhaseSound(a, task[a]) /\ TargetsSound(a, task[a])
    <2>1. StageOf[a] \in 1..LastStage /\ LastStage \in Nat /\ 0 <= MaxRetries
          /\ guard # a /\ writer # a /\ stage = 1 /\ pool = Seeds
      BY ParametersAssumption DEF Init
    <2>2. CASE StageOf[a] = 1
      <3> DEFINE d == Opened(a, Seeds)
      <3>1. /\ d.phase \in {"checking", "waiting", "ok"}
            /\ d.unchecked \subseteq Seeds /\ d.allowed = {}
            /\ d.found = {} /\ d.unwritten = {} /\ d.attempt = 0
            /\ dryRun => d.phase = "ok"
        BY <1>1, OpenedSound
      <3>2. task[a] = d
        BY <1>2, <2>2
      <3> HIDE DEF d
      <3> QED BY <2>1, <2>2, <3>1, <3>2 DEF PhaseSound, TargetsSound, Known
    <2>3. CASE StageOf[a] # 1
      BY <1>2, <2>1, <2>3 DEF Unstarted, PhaseSound, TargetsSound
    <2> QED BY <2>2, <2>3
  <1>6. PoolSound /\ ContactsSound
    BY DEF Init, PoolSound, PoolKnown, ContactsSound
  <1> QED BY <1>4, <1>5, <1>6 DEF IInv, TasksSound

LEMMA StepSound == IInv /\ [Next]_vars => IInv'
  <1> SUFFICES ASSUME IInv, [Next]_vars PROVE IInv'
    OBVIOUS
  <1>1. CASE Loop \/ Abort
    BY <1>1, NextStageStep, CloseStep DEF Loop
  <1>2. ASSUME NEW a \in Adapters, Advance(a)
        PROVE  IInv'
    BY <1>2, LockStep, PhaseStep, RunAdapterStep, RunSucceedsStep, EndStep, CrashStep,
       WriteOneStep, EndCheckStep DEF Advance
  <1>3. CASE UNCHANGED vars
    <2>1. SameStage /\ StaysOk /\ UNCHANGED <<guard, writer, contacted>>
      BY <1>3 DEF vars, options, SameStage, StaysOk
    <2>2. TypeOK'
      BY <1>3 DEF IInv, TypeOK, vars, options, rows
    <2>3. TasksSound'
      BY <1>3 DEF vars, options, rows, IInv, TasksSound, PhaseSound, TargetsSound,
        Recorded, Allowed, Known, Vouches, MayContact
    <2>4. PoolSound' /\ ContactsSound'
      BY <1>3 DEF vars, options, rows, IInv, PoolSound, PoolKnown, Vouches,
        ContactsSound, ContactSound, Allowed, Known, MayContact
    <2> QED BY <2>2, <2>3, <2>4 DEF IInv
  <1> QED BY <1>1, <1>2, <1>3 DEF Next

-----------------------------------------------------------------------------
(* Theorems *)

\* The inductive invariant of a scan run.
THEOREM RunInvariant == Spec => []IInv
  BY InitSound, StepSound, PTL DEF Spec

\* Every variable, and every task's record, keeps its type
\* (Orchestrator._run_adapter, ScopeGuard, EvidenceWriter).
THEOREM RunTypes == Spec => []TypeOK
  <1>1. IInv => TypeOK
    BY DEF IInv
  <1> QED BY <1>1, RunInvariant, PTL

\* However targets are discovered and tasks interleave, no adapter is let loose
\* on a target the scope does not permit, or without an audit row
\* (ScopeGuard.check before adapter.run).
THEOREM EveryContactAuthorized == Spec => []ContactsAuthorized
  <1>1. IInv => ContactsAuthorized
    BY DEF IInv, ContactsSound, ContactSound, Allowed, ContactsAuthorized
  <1> QED BY <1>1, RunInvariant, PTL

\* Whatever adapters fail, retry or crash, a target is a seed or was recorded by
\* an adapter of an earlier stage that ended well (Orchestrator.run's pool).
THEOREM EveryContactEvidenced == Spec => []ContactsAreEvidenced
  <1>1. IInv => ContactsAreEvidenced
    <2> SUFFICES ASSUME IInv, NEW c \in contacted, c.target \notin Seeds
                 PROVE  \E a \in Adapters :
                          /\ StageOf[a] < StageOf[c.tool]
                          /\ task[a].phase = "ok"
                          /\ outcome # "rolled_back" =>
                               [tool |-> a, asset |-> c.target] \in evidence
      BY DEF ContactsAreEvidenced
    <2>1. PICK a \in Adapters : StageOf[a] < StageOf[c.tool] /\ Vouches(a, c.target)
      BY DEF IInv, ContactsSound, ContactSound, Known
    <2>2. task[a].unwritten = {} /\ c.target \in task[a].found
      BY <2>1 DEF IInv, TasksSound, PhaseSound, Vouches
    <2>3. Recorded(a, c.target)
      BY <2>2 DEF IInv, TasksSound, TargetsSound
    <2> QED BY <2>1, <2>3 DEF Recorded, Vouches
  <1> QED BY <1>1, RunInvariant, PTL

-----------------------------------------------------------------------------
(* The staged scan is implemented *)

\* A task of an earlier stage does not move any more, so results stand.
LEMMA ResultsStand ==
  ASSUME IInv, stage' = stage, NEW b \in Adapters, NEW d,
         task[b].phase \notin Settled \cup {"unstarted"}, task' = [task EXCEPT ![b] = d],
         NEW a \in Adapters
  PROVE  ResultOf(a)' = ResultOf(a)
  <1>1. StageOf[b] = stage
    BY OpenTask
  <1>2. ~(StageOf[b] < stage)
    BY <1>1, ParametersAssumption
  <1>3. a # b => task'[a] = task[a]
    BY DEF IInv, TypeOK
  <1> QED BY <1>2, <1>3 DEF ResultOf

\* A step inside one task is invisible to the promise, but for new contacts.
Inside == UNCHANGED <<stage, pool, authorized, outcome>>

LEMMA InsideStands ==
  ASSUME IInv, NEW b \in Adapters, Advance(b)
  PROVE  /\ Inside
         /\ \A a \in Adapters : ResultOf(a)' = ResultOf(a)
         /\ ~RunAdapter(b) => contacted' = contacted
  <1>1. task[b].phase \notin Settled \cup {"unstarted"}
    <2>1. PhaseSound(b, task[b])
      BY DEF IInv, TasksSound
    <2> QED BY <2>1 DEF Advance, BeginCheck, EndCheck, WriteOne, RunAdapter, RunFails,
        Retry, ParseRaises, RunSucceeds, BeginWrite, EndWrite, Crash, Refused,
        UsesSession, In, PhaseSound, Settled
  <1>2. Inside
    BY DEF Advance, BeginCheck, EndCheck, WriteOne, RunAdapter, RunFails, Retry,
       ParseRaises, RunSucceeds, BeginWrite, EndWrite, Crash, Refused, OnlyTask,
       options, Inside
  <1>3. \E d : task' = [task EXCEPT ![b] = d]
    <2>1. CASE task' = task
      <3>1. task' = [task EXCEPT ![b] = task[b]]
        BY <2>1 DEF IInv, TypeOK
      <3> QED BY <3>1
    <2>2. CASE task' # task
      BY <2>2 DEF Advance, BeginCheck, EndCheck, WriteOne, RunAdapter, RunFails, Retry,
         ParseRaises, RunSucceeds, BeginWrite, EndWrite, Crash, Refused, Become
    <2> QED BY <2>1, <2>2
  <1>4. \A a \in Adapters : ResultOf(a)' = ResultOf(a)
    BY <1>1, <1>2, <1>3, ResultsStand DEF Inside
  <1>5. ~RunAdapter(b) => contacted' = contacted
    BY DEF Advance, BeginCheck, EndCheck, WriteOne, RunFails, Retry,
       ParseRaises, RunSucceeds, BeginWrite, EndWrite, Crash, Refused, OnlyTask
  <1> QED BY <1>2, <1>4, <1>5

LEMMA ContactImplements ==
  ASSUME IInv, NEW a \in Adapters, RunAdapter(a)
  PROVE  Promise!Contact(a)
  <1>1. Inside /\ \A b \in Adapters : ResultOf(b)' = ResultOf(b)
    BY InsideStands DEF Advance
  <1>2. task[a].phase = "waiting" /\ outcome = "open"
    BY DEF RunAdapter, In
  <1>3. StageOf[a] = stage /\ ~dryRun
    BY <1>2, OpenTask DEF Settled
  <1>4. task[a].allowed \in SUBSET {t \in pool : MayContact(a, t, authorized)}
    BY DEF IInv, TasksSound, TargetsSound, Allowed
  <1>5. contacted' = contacted \cup {[tool |-> a, target |-> t] : t \in task[a].allowed}
    BY DEF RunAdapter
  <1>6. \E T \in SUBSET {t \in pool : MayContact(a, t, authorized)} :
          contacted' = contacted \cup {[tool |-> a, target |-> t] : t \in T}
    BY <1>4, <1>5
  <1>7. [b \in Adapters |-> ResultOf(b)]' = [b \in Adapters |-> ResultOf(b)]
    BY <1>1
  <1> QED BY <1>1, <1>2, <1>3, <1>6, <1>7 DEF Promise!Contact, Inside

LEMMA EndStageImplements ==
  ASSUME IInv, NextStage
  PROVE  Promise!EndStage
  <1> DEFINE ending == {a \in Adapters : StageOf[a] = stage}
             r == [a \in ending |-> task[a].phase]
             new == UNION {FedForward(a) : a \in InStage}
  <1>1. outcome = "open" /\ stage <= LastStage /\ stage' = stage + 1 /\ stage \in Nat
        /\ UNCHANGED <<contacted, authorized, outcome>> /\ StageOver
    BY DEF NextStage, options, IInv, TypeOK
  <1>2. r \in [ending -> Promise!Results]
    BY <1>1 DEF StageOver, InStage, Promise!Results, Settled
  <1>3. new \in SUBSET Assets
    BY DEF IInv, TypeOK, FedForward, Task, InStage
  <1>4. new # {} => \E a \in ending : r[a] = "ok"
    BY DEF FedForward, InStage
  <1>5. pool' = pool \cup new
    BY DEF NextStage
  <1>6. \A a \in Adapters : StageOf[a] # stage + 1 => task'[a] = task[a]
    BY DEF NextStage
  <1>7. ASSUME NEW a \in Adapters
        PROVE  ResultOf(a)' = IF a \in ending THEN r[a] ELSE ResultOf(a)
    <2>1. StageOf[a] \in Nat
      BY ParametersAssumption
    <2>2. CASE StageOf[a] = stage
      BY <1>1, <1>6, <2>1, <2>2 DEF ResultOf
    <2>3. CASE StageOf[a] < stage
      BY <1>1, <1>6, <2>1, <2>3 DEF ResultOf
    <2>4. CASE StageOf[a] > stage
      BY <1>1, <2>1, <2>4 DEF ResultOf
    <2> QED BY <1>1, <2>1, <2>2, <2>3, <2>4
  <1>8. [a \in Adapters |-> ResultOf(a)]' =
          [a \in Adapters |-> IF a \in ending THEN r[a]
                              ELSE [b \in Adapters |-> ResultOf(b)][a]]
    BY <1>7
  <1> HIDE DEF r, new
  <1> QED BY <1>1, <1>2, <1>3, <1>4, <1>5, <1>8 DEF Promise!EndStage

LEMMA CloseImplements ==
  ASSUME IInv, Commit \/ RollBack \/ Abort
  PROVE  Promise!Close
  <1>1. /\ outcome = "open" /\ outcome' \in {"committed", "rolled_back"}
        /\ outcome' = "committed" => stage > LastStage
        /\ UNCHANGED <<stage, pool, task, contacted, authorized>>
    BY DEF Commit, RollBack, Abort, RolledBack, options
  <1>2. [a \in Adapters |-> ResultOf(a)]' = [a \in Adapters |-> ResultOf(a)]
    BY <1>1 DEF ResultOf
  <1> QED BY <1>1, <1>2 DEF Promise!Close

PromiseNext ==
  Promise!EndStage \/ Promise!Close \/ \E a \in Adapters : Promise!Contact(a)

LEMMA StepImplements ==
  ASSUME IInv, [Next]_vars
  PROVE  [PromiseNext]_(Promise!stagedVars)
  <1>1. CASE Loop \/ Abort
    BY <1>1, EndStageImplements, CloseImplements DEF Loop, PromiseNext
  <1>2. ASSUME NEW a \in Adapters, Advance(a)
        PROVE  [PromiseNext]_(Promise!stagedVars)
    <2>1. CASE RunAdapter(a)
      BY <2>1, ContactImplements DEF PromiseNext
    <2>2. CASE ~RunAdapter(a)
      <3>1. Inside /\ contacted' = contacted
            /\ [b \in Adapters |-> ResultOf(b)]' = [b \in Adapters |-> ResultOf(b)]
        BY <1>2, <2>2, InsideStands
      <3> QED BY <3>1 DEF Inside, Promise!stagedVars
    <2> QED BY <2>1, <2>2
  <1>3. CASE UNCHANGED vars
    <2>1. UNCHANGED <<stage, pool, contacted, authorized, outcome>>
          /\ [b \in Adapters |-> ResultOf(b)]' = [b \in Adapters |-> ResultOf(b)]
      BY <1>3 DEF vars, options, ResultOf
    <2> QED BY <2>1 DEF Promise!stagedVars
  <1> QED BY <1>1, <1>2, <1>3 DEF Next

LEMMA InitImplements == Init => Promise!StagedInit
  <1> SUFFICES ASSUME Init PROVE Promise!StagedInit
    OBVIOUS
  <1>1. \A a \in Adapters : ~(StageOf[a] < 1)
    BY ParametersAssumption
  <1>2. [a \in Adapters |-> ResultOf(a)] = [a \in Adapters |-> "none"]
    BY <1>1 DEF ResultOf, Init
  <1> QED BY <1>2 DEF Init, Promise!StagedInit

\* A scan run, with its interleaved, failing and retried adapters, implements
\* the staged scan: stages in order, contact within scope, results that stand.
THEOREM ScanIsStaged == Spec => KeepsStagedScan
  <1>1. Promise!StagedInit /\ [][PromiseNext]_(Promise!stagedVars)
          <=> Promise!StagedSpec
    BY DEF Promise!StagedSpec, PromiseNext
  <1> QED BY <1>1, InitImplements, RunInvariant, StepImplements, PTL
      DEF Spec, KeepsStagedScan

-----------------------------------------------------------------------------
(* A stage ends: what its tasks may still do is counted down by every step *)

\* What is left of a task: two steps per target to check, three per attempt, and
\* one per record to write, more or less the one a lock is held for.
Tries(d) == 3 * (MaxRetries + 1 - d.attempt)
Output == Cardinality(Findable) + 1
Held(lock, a) == IF lock = a THEN 1 ELSE 0
WorkOf(d, g, w) ==
  IF d.phase = "checking" THEN Output + Tries(d) + 2 * Cardinality(d.unchecked) + 1 - g
  ELSE IF d.phase = "waiting" THEN Output + Tries(d)
  ELSE IF d.phase = "backoff" THEN Output + Tries(d) + 1
  ELSE IF d.phase = "running" THEN Output + Tries(d) + 2
  ELSE IF d.phase = "writing" THEN Cardinality(d.unwritten) + 2 - w
  ELSE 0
WorkLeft(a) == WorkOf(task[a], Held(guard, a), Held(writer, a))

\* A step is one task's, and leaves less of it and as much of the others.
CountsDown(a) ==
  /\ WorkLeft(a)' < WorkLeft(a)
  /\ \A b \in Adapters \ {a} : WorkLeft(b)' = WorkLeft(b)

\* Within a stage nothing happens that does not count down: time-outs and retries,
\* contention for the two locks and the semaphore, crashes and a broken session cannot
\* keep `Orchestrator.run` in a stage for ever.
StageRunsOut ==
  [][stage' = stage /\ outcome' = "open" => \E a \in Adapters : CountsDown(a)]_vars

LEMMA WorkTypes ==
  ASSUME NEW d \in Task
  PROVE  /\ Cardinality(d.unchecked) \in Nat
         /\ Cardinality(d.unwritten) \in Nat
         /\ Output \in Nat /\ Output >= 1
         /\ MaxRetries \in Nat /\ d.attempt \in 0..MaxRetries + 1
         /\ Tries(d) \in Nat
         /\ \A lock, a : Held(lock, a) \in {0, 1}
  <1>1. \A S \in SUBSET Assets : Cardinality(S) \in Nat
    BY ParametersAssumption, FS_Subset, FS_CardinalityType
  <1>2. Output \in Nat /\ Output >= 1
    BY <1>1, ParametersAssumption DEF Output
  <1>3. MaxRetries \in Nat /\ d.attempt \in 0..MaxRetries + 1
    BY ParametersAssumption DEF Task
  <1>4. Tries(d) \in Nat
    BY <1>3 DEF Tries
  <1> QED BY <1>1, <1>2, <1>3, <1>4 DEF Task, Held

\* A lock moves between a task and nobody only.
MovesFor(a, lock, new) == new = lock \/ (lock \in {a, Nobody} /\ new \in {a, Nobody})

LEMMA OneTaskCounts ==
  ASSUME IInv, NEW a \in Adapters, NEW d \in Task, task' = [task EXCEPT ![a] = d],
         MovesFor(a, guard, guard'), MovesFor(a, writer, writer'),
         WorkOf(d, Held(guard', a), Held(writer', a)) < WorkLeft(a)
  PROVE  CountsDown(a)
  <1>1. WorkLeft(a)' = WorkOf(d, Held(guard', a), Held(writer', a))
    BY DEF WorkLeft, WorkOf, Held, Tries, IInv, TypeOK
  <1>2. ASSUME NEW b \in Adapters \ {a}
        PROVE  WorkLeft(b)' = WorkLeft(b)
    <2>1. task'[b] = task[b]
      BY DEF IInv, TypeOK
    <2>2. Held(guard', b) = Held(guard, b) /\ Held(writer', b) = Held(writer, b)
      BY ParametersAssumption DEF MovesFor, Held
    <2> QED BY <2>1, <2>2 DEF WorkLeft, WorkOf, Tries, Held
  <1> QED BY <1>1, <1>2 DEF CountsDown

\* The steps that only take or leave a lock.
LEMMA LockCounts ==
  ASSUME IInv, NEW a \in Adapters, BeginCheck(a) \/ BeginWrite(a)
  PROVE  CountsDown(a)
  <1> DEFINE d == task[a]
  <1>1. d \in Task /\ task' = [task EXCEPT ![a] = d]
    BY DEF IInv, TypeOK, BeginCheck, BeginWrite
  <1>2. MovesFor(a, guard, guard') /\ MovesFor(a, writer, writer')
    BY DEF BeginCheck, BeginWrite, MovesFor
  <1>3. \/ d.phase = "checking" /\ Held(guard, a) = 0 /\ Held(guard', a) = 1
        \/ d.phase = "writing" /\ Held(writer, a) = 0 /\ Held(writer', a) = 1
    BY ParametersAssumption DEF BeginCheck, BeginWrite, In, Held
  <1>4. WorkOf(d, Held(guard', a), Held(writer', a)) < WorkLeft(a)
    BY <1>1, <1>3, WorkTypes DEF WorkLeft, WorkOf
  <1> QED BY <1>1, <1>2, <1>4, OneTaskCounts

\* The steps that end a task.
LEMMA SettlingCounts ==
  ASSUME IInv, NEW a \in Adapters, NEW d \in Task, task' = [task EXCEPT ![a] = d],
         d.phase \in Settled, task[a].phase \notin Settled \cup {"unstarted"},
         MovesFor(a, guard, guard'), MovesFor(a, writer, writer')
  PROVE  CountsDown(a)
  <1>1. WorkOf(d, Held(guard', a), Held(writer', a)) = 0
    BY DEF WorkOf, Settled
  <1>2. task[a] \in Task
    BY DEF IInv, TypeOK
  <1>3. WorkLeft(a) > 0
    <2>1. task[a].phase \in {"checking", "waiting", "running", "backoff", "writing"}
      BY <1>2 DEF Task, Phases, Settled
    <2> QED BY <1>2, <2>1, WorkTypes DEF WorkLeft, WorkOf
  <1> QED BY <1>1, <1>3, OneTaskCounts

LEMMA CheckCounts ==
  ASSUME IInv, NEW a \in Adapters, NEW t \in Assets, EndCheck(a, t)
  PROVE  CountsDown(a)
  <1> DEFINE o == task[a]
             u == o.unchecked \ {t}
             c == IF Sendable(Decide(t, a \in Active)) THEN o.allowed \cup {t} ELSE o.allowed
             e == [o EXCEPT !.unchecked = u, !.allowed = c]
             d == Cleared(e)
  <1>1. o \in Task /\ o.phase = "checking" /\ guard = a /\ t \in o.unchecked
    BY DEF IInv, TypeOK, EndCheck, In
  <1>2. task' = [task EXCEPT ![a] = d] /\ guard' = Nobody /\ writer' = writer
    BY DEF EndCheck, Become
  <1>3. e \in Task /\ e.unchecked = u /\ e.attempt = o.attempt /\ e.phase = "checking"
    <2>1. u \in SUBSET Assets /\ c \in SUBSET Assets
      BY <1>1 DEF Task
    <2> HIDE DEF o, u, c
    <2> QED BY <1>1, <2>1 DEF Task
  <1>4. Cardinality(u) = Cardinality(o.unchecked) - 1
    <2>1. IsFiniteSet(o.unchecked)
      BY <1>1, ParametersAssumption, FS_Subset DEF Task
    <2> QED BY <1>1, <2>1, FS_RemoveElement
  <1> HIDE DEF e
  <1>5. /\ d \in Task /\ d.unchecked = u /\ d.attempt = o.attempt
        /\ d.phase \in {"checking", "ok", "waiting"}
    BY <1>3, ClearedType
  <1>6. Held(guard, a) = 1 /\ Held(guard', a) = 0
    BY <1>1, <1>2, ParametersAssumption DEF Held
  <1>7. WorkOf(d, Held(guard', a), Held(writer', a)) < WorkLeft(a)
    <2>1. WorkLeft(a) = Output + Tries(o) + 2 * Cardinality(o.unchecked)
      BY <1>1, <1>6, WorkTypes DEF WorkLeft, WorkOf
    <2>2. Tries(d) = Tries(o)
      BY <1>5 DEF Tries
    <2> HIDE DEF o, u, d
    <2> QED BY <1>1, <1>4, <1>5, <1>6, <2>1, <2>2, WorkTypes DEF WorkOf
  <1>8. MovesFor(a, guard, guard') /\ MovesFor(a, writer, writer')
    BY <1>1, <1>2 DEF MovesFor
  <1> HIDE DEF d
  <1> QED BY <1>2, <1>5, <1>7, <1>8, OneTaskCounts

LEMMA AttemptCounts ==
  ASSUME IInv, NEW a \in Adapters,
         \/ RunAdapter(a) \/ RunFails(a) \/ Retry(a)
         \/ \E found \in SUBSET Findable : RunSucceeds(a, found)
  PROVE  CountsDown(a)
  <1> DEFINE o == task[a]  n == o.attempt
  <1>1. o \in Task /\ PhaseSound(a, o)
    BY DEF IInv, TypeOK, TasksSound
  <1>2. MovesFor(a, guard, guard') /\ MovesFor(a, writer, writer')
    BY DEF RunAdapter, RunFails, Retry, RunSucceeds, OnlyTask, MovesFor
  <1>3. CASE RunAdapter(a)
    <2> DEFINE d == [o EXCEPT !.phase = "running", !.attempt = n + 1]
    <2>1. task' = [task EXCEPT ![a] = d] /\ o.phase = "waiting"
      BY <1>3 DEF RunAdapter, Become, In, AttemptsAfter
    <2>2. n \in Nat /\ n <= MaxRetries /\ MaxRetries \in Nat
      BY <1>1, <2>1, WorkTypes DEF PhaseSound
    <2>3. d \in Task /\ d.phase = "running" /\ d.attempt = n + 1
      <3>1. n + 1 \in 0..MaxRetries + 1
        BY <2>2
      <3> HIDE DEF o, n
      <3> QED BY <1>1, <3>1 DEF Task, Phases
    <2> HIDE DEF d
    <2>4. WorkOf(d, Held(guard', a), Held(writer', a)) = Output + 3 * (MaxRetries + 1 - (n + 1)) + 2
      BY <2>3 DEF WorkOf, Tries
    <2>5. WorkLeft(a) = Output + 3 * (MaxRetries + 1 - n)
      BY <2>1 DEF WorkLeft, WorkOf, Tries
    <2>6. WorkOf(d, Held(guard', a), Held(writer', a)) < WorkLeft(a)
      <3>1. Output \in Nat
        BY <1>1, WorkTypes
      <3> HIDE DEF n
      <3> QED BY <2>2, <2>4, <2>5, <3>1
    <2> QED BY <1>2, <2>1, <2>3, <2>6, OneTaskCounts
  <1>4. CASE RunFails(a) \/ Retry(a)
    <2>1. PICK p \in {"backoff", "failed", "waiting"} :
            /\ task' = [task EXCEPT ![a] = [o EXCEPT !.phase = p]]
            /\ p = "waiting" => o.phase = "backoff"
            /\ p # "waiting" => o.phase = "running"
      BY <1>4 DEF RunFails, Retry, Become, In
    <2> DEFINE d == [o EXCEPT !.phase = p]
    <2>2. d \in Task /\ d.phase = p /\ d.attempt = n
      <3> HIDE DEF o, n
      <3> QED BY <1>1 DEF Task, Phases, Settled, n
    <2>3. task' = [task EXCEPT ![a] = d]
      BY <2>1
    <2> HIDE DEF d
    <2>4. Tries(d) = Tries(o)
      BY <2>2 DEF Tries
    <2>5. WorkOf(d, Held(guard', a), Held(writer', a)) < WorkLeft(a)
      BY <1>1, <2>1, <2>2, <2>4, WorkTypes DEF WorkOf, WorkLeft
    <2> QED BY <1>2, <2>2, <2>3, <2>5, OneTaskCounts
  <1>5. ASSUME NEW found \in SUBSET Findable, RunSucceeds(a, found)
        PROVE  CountsDown(a)
    <2> DEFINE d == [o EXCEPT !.phase = "writing", !.found = found, !.unwritten = found]
    <2>1. task' = [task EXCEPT ![a] = d] /\ o.phase = "running"
      BY <1>5 DEF RunSucceeds, Become, In
    <2>2. d \in Task /\ d.phase = "writing" /\ d.unwritten = found
      <3>1. found \in SUBSET Assets
        BY ParametersAssumption
      <3> HIDE DEF o
      <3> QED BY <1>1, <3>1 DEF Task, Phases
    <2>3. Cardinality(found) <= Cardinality(Findable) /\ Cardinality(found) \in Nat
          /\ Cardinality(Findable) \in Nat
      <3>1. IsFiniteSet(Findable)
        BY ParametersAssumption, FS_Subset
      <3> QED BY <3>1, FS_Subset, FS_CardinalityType
    <2> HIDE DEF d
    <2>4. WorkOf(d, Held(guard', a), Held(writer', a)) = Cardinality(found) + 2 - Held(writer', a)
      BY <2>2 DEF WorkOf
    <2>5. WorkLeft(a) = Cardinality(Findable) + 1 + Tries(o) + 2
      BY <2>1 DEF WorkLeft, WorkOf, Output
    <2>6. WorkOf(d, Held(guard', a), Held(writer', a)) < WorkLeft(a)
      BY <1>1, <2>3, <2>4, <2>5, WorkTypes
    <2> QED BY <1>2, <2>1, <2>2, <2>6, OneTaskCounts
  <1> QED BY <1>3, <1>4, <1>5

LEMMA WriteCounts ==
  ASSUME IInv, NEW a \in Adapters, NEW t \in Assets, WriteOne(a, t)
  PROVE  CountsDown(a)
  <1> DEFINE o == task[a]
             u == o.unwritten \ {t}
             d == [o EXCEPT !.unwritten = u]
  <1>1. o \in Task /\ o.phase = "writing" /\ t \in o.unwritten
    BY DEF IInv, TypeOK, WriteOne, In
  <1>2. task' = [task EXCEPT ![a] = d] /\ guard' = guard /\ writer' = writer
    BY DEF WriteOne, Become
  <1>3. d \in Task /\ d.unwritten = u /\ d.phase = "writing"
    <2>1. u \in SUBSET Assets
      BY <1>1 DEF Task
    <2> HIDE DEF o, u
    <2> QED BY <1>1, <2>1 DEF Task
  <1>4. Cardinality(u) = Cardinality(o.unwritten) - 1
    <2>1. IsFiniteSet(o.unwritten)
      BY <1>1, ParametersAssumption, FS_Subset DEF Task
    <2> QED BY <1>1, <2>1, FS_RemoveElement
  <1>5. WorkOf(d, Held(guard', a), Held(writer', a)) < WorkLeft(a)
    <2> HIDE DEF u, d
    <2> QED BY <1>1, <1>2, <1>3, <1>4, WorkTypes DEF WorkLeft, WorkOf
  <1>6. MovesFor(a, guard, guard') /\ MovesFor(a, writer, writer')
    BY <1>2 DEF MovesFor
  <1> HIDE DEF d
  <1> QED BY <1>2, <1>3, <1>5, <1>6, OneTaskCounts

LEMMA EndingCounts ==
  ASSUME IInv, NEW a \in Adapters,
         \/ ParseRaises(a) \/ EndWrite(a) \/ Refused(a)
         \/ \E breaks \in BOOLEAN : Crash(a, breaks)
  PROVE  CountsDown(a)
  <1>1. task[a] \in Task /\ PhaseSound(a, task[a])
    BY DEF IInv, TypeOK, TasksSound
  <1>2. MovesFor(a, guard, guard') /\ MovesFor(a, writer, writer')
    BY DEF ParseRaises, OnlyTask, EndWrite, Refused, Crash, Released, MovesFor
  <1>3. PICK p \in {"crashed", "ok"} : task' = [task EXCEPT ![a] = [task[a] EXCEPT !.phase = p]]
    BY DEF ParseRaises, EndWrite, Refused, Crash, Become
  <1>4. task[a].phase \in {"running", "writing", "checking"}
    BY <1>1 DEF ParseRaises, EndWrite, Refused, Crash, UsesSession, In, PhaseSound
  <1>5. [task[a] EXCEPT !.phase = p] \in Task /\ [task[a] EXCEPT !.phase = p].phase \in Settled
    BY <1>1 DEF Task, Phases, Settled
  <1> QED BY <1>2, <1>3, <1>4, <1>5, SettlingCounts DEF Settled

\* Every step of a stage brings the stage nearer its end.
THEOREM EveryStageRunsOut == Spec => StageRunsOut
  <1> DEFINE Down == \E a \in Adapters : CountsDown(a)
  <1>1. ASSUME IInv, NEW a \in Adapters, Advance(a)
        PROVE  CountsDown(a)
    BY <1>1, LockCounts, CheckCounts, AttemptCounts, WriteCounts, EndingCounts DEF Advance
  <1>2. IInv /\ (Loop \/ Abort) => stage' # stage \/ outcome' # "open"
    <2>1. IInv /\ NextStage => stage' # stage
      BY ParametersAssumption DEF NextStage, IInv, TypeOK
    <2> QED BY <2>1 DEF Loop, Commit, RollBack, Abort, RolledBack
  <1>3. IInv /\ [Next]_vars => [stage' = stage /\ outcome' = "open" => Down]_vars
    BY <1>1, <1>2 DEF Next
  <1> QED BY <1>3, RunInvariant, PTL DEF Spec, StageRunsOut

===============================================================================
