----------------------------- MODULE ScanHistory -----------------------------
(***************************************************************************)
(* What kiyooo remembers of successive scan runs, and what it tells about  *)
(* the difference: the transactions of kiyooo/cli.py's `_run_scan` after   *)
(* and around the orchestrator (predecessor, seeds, decay, snapshots,      *)
(* diff), the dry runs and ingest batches that write ScanRun and Asset     *)
(* rows too, and the chain's choice of a run to work on.                   *)
(*                                                                         *)
(* A job is one READ COMMITTED transaction: Load and Touch are one         *)
(* get_or_create (db/repo/asset.py), its SELECT and its flush; a flushed   *)
(* row is locked until the transaction ends; Commit publishes, Abort       *)
(* drops.  Instants are counted in opened runs: run n starts at instant n, *)
(* and what happens before the next run opens happens at instant n.        *)
(***************************************************************************)
EXTENDS Naturals, Sequences, FiniteSets

CONSTANTS
  Assets,        \* asset identities, UNIQUE(type, value)
  SeedSets,      \* what commands start from: a seed file, one changed asset
  TypeOf,        \* Asset.type
  Marks,         \* values of the remaining compared field: tech, or serial
  NoMark,        \* that field when nothing was read
  Observable,    \* what a scan may find of each asset
  Jobs,          \* processes that may run a command
  Threshold,     \* DEFAULT_DECAY_SCAN_THRESHOLD
  MaxRuns,       \* bound on runs opened while none overlap
  MaxOverlapped  \* and on runs opened once some have overlapped

Kinds == {"scan", "dry", "ingest"}
Types == {"http_service", "tcp_service", "cert", "other"}

\* HTTP_RESPONSE or TLS_CERT evidence as far as it is compared: "gated" is 401
\* or 403, "ok" is 200; login: the title has a login keyword.
Observation == [status : {"gated", "ok", "other"}, login : BOOLEAN, mark : Marks]
\* AssetSnapshot.state
State == [status : {"gated", "ok", "other"}, auth : BOOLEAN, mark : Marks]
EventKinds == {"ASSET_NEW", "ASSET_GONE", "PORT_OPENED", "PORT_CLOSED",
               "WENT_PUBLIC", "AUTH_REMOVED", "TECH_CHANGED", "CERT_CHANGED"}

Partial(S, T) == UNION {[D -> T] : D \in SUBSET S}
Nothing == [a \in {} |-> {}]

Run == [kind : Kinds, completed : BOOLEAN, prev : Nat,
        snapshot : Partial(Assets, State),
        events : Partial(Assets, EventKinds),
        chained : Nat]

\* The row of a run whose transaction has not committed, or never will.
Unpublished == [kind |-> "scan", completed |-> FALSE, prev |-> 0,
                snapshot |-> Nothing, events |-> Nothing, chained |-> 0]

ASSUME ParametersAssumption ==
  /\ SeedSets \subseteq SUBSET Assets
  /\ TypeOf \in [Assets -> Types]
  /\ NoMark \in Marks
  /\ Observable \in [Assets -> SUBSET Observation]
  /\ \A seeds \in SeedSets : \A a \in seeds : TypeOf[a] = "other"
  /\ Threshold \in Nat \ {0}
  /\ {MaxRuns, MaxOverlapped} \subseteq Nat

ASSUME FiniteAssumption == IsFiniteSet(Assets)

VARIABLES
  runs,        \* ScanRun rows with their AssetSnapshot and ChangeEvent rows,
               \* by order of started_at
  lastSeen,    \* Asset.last_seen, 0 while there is no row
  active,      \* Asset.is_active
  overlapped,  \* history: did any two transactions overlap?
  job          \* open transactions

vars == <<runs, lastSeen, active, overlapped, job>>

Phases == {"idle", "begun", "observing", "decaying", "chaining"}

\* seeds: none for an ingest batch; loaded: is_active of the ORM objects the session holds; pending: the row
\* get_or_create has selected and not yet flushed, at which instant, and
\* whether it exists; reactivates, retired: flushed writes of is_active.
JobState == [phase : Phases, kind : Kinds, seeds : SUBSET Assets,
             run : Nat, prev : Nat,
             found : Partial(Assets, Observation),
             loaded : Partial(Assets, BOOLEAN),
             pending : SUBSET [asset : Assets, at : Nat, exists : BOOLEAN],
             seenAt : [Assets -> Nat],
             reactivates : SUBSET Assets,
             stale : SUBSET Assets, retired : SUBSET Assets]

Closed == [phase |-> "idle", kind |-> "scan", seeds |-> {}, run |-> 0, prev |-> 0,
           found |-> Nothing, loaded |-> Nothing, pending |-> {},
           seenAt |-> [a \in Assets |-> 0], reactivates |-> {},
           stale |-> {}, retired |-> {}]

Idle(j) == job[j].phase = "idle"

Init ==
  /\ runs = <<>>
  /\ lastSeen = [a \in Assets |-> 0]
  /\ active = [a \in Assets |-> FALSE]
  /\ overlapped = FALSE
  /\ job = [j \in Jobs |-> Closed]

-----------------------------------------------------------------------------
(* Snapshots and their differences *)

\* No evidence of the compared kind, or content too large to be inline.
Blank == [status |-> "other", login |-> FALSE, mark |-> NoMark]

BuildState(a, o) ==
  [status |-> IF TypeOf[a] = "http_service" THEN o.status ELSE "other",
   auth   |-> TypeOf[a] = "http_service" /\ (o.status = "gated" \/ o.login),
   mark   |-> IF TypeOf[a] \in {"http_service", "cert"} THEN o.mark ELSE NoMark]

NewKind(a) == IF TypeOf[a] = "tcp_service" THEN "PORT_OPENED" ELSE "ASSET_NEW"
GoneKind(a) == IF TypeOf[a] = "tcp_service" THEN "PORT_CLOSED" ELSE "ASSET_GONE"
Appearances == {"PORT_OPENED", "ASSET_NEW"}
Departures == {"PORT_CLOSED", "ASSET_GONE"}

WentPublic(before, after) == before.status = "gated" /\ after.status = "ok"
AuthRemoved(before, after) == before.auth /\ ~after.auth

\* Mutant: a change of technology hides every other change.
ChangedKindTechFirst(a, before, after) ==
  CASE TypeOf[a] = "http_service" ->
         IF before.mark # after.mark THEN {"TECH_CHANGED"}
         ELSE IF WentPublic(before, after) THEN {"WENT_PUBLIC"}
         ELSE IF AuthRemoved(before, after) THEN {"AUTH_REMOVED"} ELSE {}
    [] TypeOf[a] = "cert" /\ before.mark # after.mark -> {"CERT_CHANGED"}
    [] OTHER -> {}

\* The one kind told of an asset seen in both runs, the strongest that applies;
\* {} where the code returns None.
ChangedKind(a, before, after) ==
  CASE TypeOf[a] = "http_service" ->
         IF WentPublic(before, after) THEN {"WENT_PUBLIC"}
         ELSE IF AuthRemoved(before, after) THEN {"AUTH_REMOVED"}
         ELSE IF before.mark # after.mark THEN {"TECH_CHANGED"} ELSE {}
    [] TypeOf[a] = "cert" /\ before.mark # after.mark -> {"CERT_CHANGED"}
    [] OTHER -> {}

\* The kinds, at most one, that the diff of two snapshots tells of an asset.
KindsOf(a, p, q) ==
  IF a \notin DOMAIN p THEN {NewKind(a)}
  ELSE IF a \notin DOMAIN q THEN {GoneKind(a)}
  ELSE ChangedKind(a, p[a], q[a])

\* Mutant: a kind of None is recorded like any other.
DiffKeepsNone(p, q) ==
  [a \in DOMAIN p \cup DOMAIN q |->
     IF KindsOf(a, p, q) = {} THEN "none" ELSE CHOOSE k \in KindsOf(a, p, q) : TRUE]

\* Mutant: loops over the current snapshots only.
DiffOfCurrent(p, q) ==
  [a \in {b \in DOMAIN q : KindsOf(b, p, q) # {}} |->
     CHOOSE k \in KindsOf(a, p, q) : TRUE]

Diff(p, q) ==
  [a \in {b \in DOMAIN p \cup DOMAIN q : KindsOf(b, p, q) # {}} |->
     CHOOSE k \in KindsOf(a, p, q) : TRUE]

-----------------------------------------------------------------------------
(* Choosing a run *)

Completed == {n \in DOMAIN runs : runs[n].completed}

\* Mutant: started_at in ascending order.
Oldest(S) == IF S = {} THEN 0 ELSE CHOOSE n \in S : \A m \in S : n <= m

\* The run with the greatest started_at.
Newest(S) == IF S = {} THEN 0 ELSE CHOOSE n \in S : \A m \in S : m <= n
Latest == Newest(Completed)

\* Mutant: one run too few.
CutoffOffByOne(S) ==
  CHOOSE n \in S : Cardinality({m \in S : m > n}) = Threshold - 2

\* started_at of the Threshold-th newest run of S.
Cutoff(S) == CHOOSE n \in S : Cardinality({m \in S : m > n}) = Threshold - 1

Bound(overlap) == IF overlap THEN MaxOverlapped ELSE MaxRuns

\* The predecessor is read before the run's own row is inserted.
Begin(j, k) ==
  /\ Idle(j)
  /\ \E seeds \in IF k = "ingest" THEN {{}} ELSE SeedSets :
       job' = [job EXCEPT ![j] = [Closed EXCEPT !.phase = "begun", !.kind = k,
                                    !.seeds = seeds,
                                    !.prev = IF k = "scan" THEN Latest ELSE 0]]
  /\ overlapped' = (overlapped \/ \E i \in Jobs : ~Idle(i))
  /\ Len(runs) < Bound(overlapped')
  /\ UNCHANGED <<runs, lastSeen, active>>

Open(j) ==
  /\ job[j].phase = "begun"
  /\ Len(runs) < Bound(overlapped)
  /\ runs' = Append(runs, Unpublished)
  /\ job' = [job EXCEPT ![j].phase = "observing", ![j].run = Len(runs) + 1]
  /\ UNCHANGED <<lastSeen, active, overlapped>>

-----------------------------------------------------------------------------
(* Assets: get_or_create, last_seen and is_active *)

RowFree(j, a) ==
  \A i \in Jobs \ {j} : job[i].seenAt[a] = 0 /\ a \notin job[i].retired

\* What job j reads of the row: its own writes, else what is committed.
SeenBy(j, a) == IF job[j].seenAt[a] > 0 THEN job[j].seenAt[a] ELSE lastSeen[a]
ActiveTo(j, a) ==
  active[a] \/ a \in job[j].reactivates \/ (job[j].seenAt[a] > 0 /\ lastSeen[a] = 0)

SeedsLoaded(j) == job[j].seeds \subseteq DOMAIN job[j].loaded

\* Seeds come first, and are all that a dry run upserts.
MayFind(j, a) ==
  /\ job[j].phase = "observing" /\ job[j].pending = {}
  /\ a \in job[j].seeds \/ (SeedsLoaded(j) /\ job[j].kind # "dry")
  /\ job[j].seenAt[a] < Len(runs)

\* get_or_create's SELECT.  The session's identity map keeps the is_active it
\* loaded first, whatever is committed later.
Load(j, a, o) ==
  /\ MayFind(j, a)
  /\ LET d == job[j]
         known == IF a \in DOMAIN d.loaded THEN d.loaded[a] ELSE active[a]
     IN job' = [job EXCEPT
          ![j].pending = {[asset |-> a, at |-> Len(runs),
                           exists |-> lastSeen[a] > 0 \/ a \in DOMAIN d.loaded]},
          ![j].loaded = [b \in DOMAIN @ \cup {a} |-> IF b = a THEN known ELSE @[b]],
          ![j].found = IF d.kind # "scan" \/ a \in DOMAIN @ THEN @
                       ELSE [b \in DOMAIN @ \cup {a} |-> IF b = a THEN o ELSE @[b]]]
  /\ UNCHANGED <<runs, lastSeen, active, overlapped>>

\* Its flush: is_active is written only if the loaded value differs.  An
\* INSERT that meets a row committed since the SELECT fails (Abort).
Touch(j) ==
  \E p \in job[j].pending :
    /\ RowFree(j, p.asset)
    /\ p.exists \/ lastSeen[p.asset] = 0
    /\ job' = [job EXCEPT
         ![j].pending = {},
         ![j].seenAt[p.asset] = p.at,
         ![j].reactivates = IF p.exists /\ ~job[j].loaded[p.asset]
                              THEN @ \cup {p.asset} ELSE @,
         ![j].loaded[p.asset] = TRUE]
    /\ UNCHANGED <<runs, lastSeen, active, overlapped>>

\* The orchestrator has flushed its own row as completed; decay then reads the
\* newest completed runs and the assets last seen before the oldest of them.
ReadStale(j) ==
  /\ job[j].phase = "observing" /\ job[j].kind = "scan"
  /\ job[j].pending = {} /\ SeedsLoaded(j)
  /\ LET recent == Completed \cup {job[j].run}
     IN job' = [job EXCEPT ![j].phase = "decaying",
          ![j].stale = {a \in Assets :
             /\ Cardinality(recent) >= Threshold
             /\ SeenBy(j, a) > 0 /\ ActiveTo(j, a)
             /\ SeenBy(j, a) < Cutoff(recent)}]
  /\ UNCHANGED <<runs, lastSeen, active, overlapped>>

MarkInactive(j, a) ==
  /\ job[j].phase = "decaying" /\ a \in job[j].stale
  /\ RowFree(j, a)
  /\ job' = [job EXCEPT ![j].stale = @ \ {a}, ![j].retired = @ \cup {a}]
  /\ UNCHANGED <<runs, lastSeen, active, overlapped>>

-----------------------------------------------------------------------------
(* The end of a transaction *)

\* One snapshot per asset with evidence of this run, and per seed.
SnapshotOf(j) == [a \in DOMAIN job[j].found |-> BuildState(a, job[j].found[a])]

Before(j) == IF job[j].prev = 0 THEN Nothing ELSE runs[job[j].prev].snapshot

Publish(j) ==
  /\ lastSeen' = [a \in Assets |-> SeenBy(j, a)]
  /\ active' = [a \in Assets |-> ActiveTo(j, a) /\ a \notin job[j].retired]

CommitScan(j) ==
  LET n == job[j].run IN
  /\ job[j].phase = "decaying" /\ job[j].stale = {}
  /\ runs' = [runs EXCEPT ![n] =
               [Unpublished EXCEPT !.completed = TRUE, !.prev = job[j].prev,
                  !.snapshot = SnapshotOf(j),
                  !.events = Diff(Before(j), SnapshotOf(j))]]
  /\ Publish(j)
  /\ job' = [job EXCEPT ![j] = [Closed EXCEPT !.phase = "chaining", !.run = n]]
  /\ UNCHANGED overlapped

\* A dry run upserts its seeds and completes; an ingest batch upserts the
\* assets it names, under a run of its own that was born completed.
CommitOther(j) ==
  /\ job[j].phase = "observing" /\ job[j].kind # "scan"
  /\ job[j].pending = {} /\ SeedsLoaded(j)
  /\ runs' = [runs EXCEPT ![job[j].run] =
               [Unpublished EXCEPT !.kind = job[j].kind, !.completed = TRUE]]
  /\ Publish(j)
  /\ job' = [job EXCEPT ![j] = Closed]
  /\ UNCHANGED overlapped

\* _latest_scan_run_id: what detect, triage and route will work on.
Chain(j) ==
  /\ job[j].phase = "chaining"
  /\ runs' = [runs EXCEPT ![job[j].run].chained = Latest]
  /\ job' = [job EXCEPT ![j] = Closed]
  /\ UNCHANGED <<lastSeen, active, overlapped>>

\* An exception, a deadlock, a killed process; or a scan without a chain.
Abort(j) ==
  /\ ~Idle(j)
  /\ job' = [job EXCEPT ![j] = Closed]
  /\ UNCHANGED <<runs, lastSeen, active, overlapped>>

Step(j) ==
  \/ Open(j)
  \/ \E a \in Assets : \E o \in Observable[a] : Load(j, a, o)
  \/ Touch(j)
  \/ ReadStale(j)
  \/ \E a \in Assets : MarkInactive(j, a)
  \/ CommitScan(j)
  \/ CommitOther(j)
  \/ Chain(j)
  \/ Abort(j)

Next == \E j \in Jobs : Step(j) \/ \E k \in Kinds : Begin(j, k)

Spec == Init /\ [][Next]_vars

-----------------------------------------------------------------------------
(* Properties *)

\* Every variable, and every field of every open transaction, has its type.
TypeOK ==
  /\ runs \in Seq(Run)
  /\ lastSeen \in [Assets -> Nat]
  /\ active \in [Assets -> BOOLEAN]
  /\ overlapped \in BOOLEAN
  /\ job \in [Jobs -> JobState]

Told(n, a, kinds) ==
  n \in Completed /\ a \in DOMAIN runs[n].events /\ runs[n].events[a] \in kinds

SnapshotBefore(n) ==
  IF runs[n].prev = 0 THEN Nothing ELSE runs[runs[n].prev].snapshot

\* However transactions overlap, abort or lie between: a scan is compared with
\* a run that was over before it started, and the appearances and departures
\* it tells, applied to what that run saw, give exactly what it saw itself.
FeedExplainsSnapshots ==
  \A n \in Completed : runs[n].kind = "scan" =>
    LET before == DOMAIN SnapshotBefore(n)
        appeared == {a \in Assets : Told(n, a, Appearances)}
        departed == {a \in Assets : Told(n, a, Departures)}
    IN /\ runs[n].prev \in Completed \cup {0} /\ runs[n].prev < n
       /\ appeared \cap before = {} /\ departed \subseteq before
       /\ DOMAIN runs[n].snapshot = (before \ departed) \cup appeared

\* As long as only scans run, one at a time, the feed never tells twice that
\* an asset appeared without telling in between that it had gone.
FeedAlternates ==
  ~overlapped /\ (\A n \in Completed : runs[n].kind = "scan") =>
    \A m, n \in Completed, a \in Assets :
      m < n /\ Told(m, a, Appearances) /\ Told(n, a, Appearances) =>
        \E k \in m..n : Told(k, a, Departures)

\* A service that asked for a login in the run compared with, and asks for
\* none now, is told with the high severity of these two kinds, whatever else
\* changed about it (diff/rules.py's priorities).
AccessLossIsTold ==
  \A n \in Completed, a \in Assets :
    LET before == SnapshotBefore(n)
        after == runs[n].snapshot
    IN a \in DOMAIN before \cap DOMAIN after
         /\ before[a].auth /\ ~after[a].auth =>
           Told(n, a, {"WENT_PUBLIC", "AUTH_REMOVED"})

\* Commands that do not overlap declare an asset inactive only when Threshold
\* completed runs have started since it was last seen, counting the dry runs
\* and ingest batches among them.
DecayIsEarned ==
  ~overlapped =>
    \A a \in Assets : lastSeen[a] > 0 /\ ~active[a] =>
      Cardinality({n \in Completed : n > lastSeen[a]}) >= Threshold

\* The chain that follows a scan works on a completed run that started no
\* earlier than the scan itself, even if an overlapping run ended in between.
ChainNeverOlder ==
  \A n \in Completed : runs[n].chained # 0 =>
    runs[n].chained \in Completed /\ runs[n].chained >= n
=============================================================================
