-------------------------- MODULE ScanHistoryProofs --------------------------
(***************************************************************************)
(* Theorems about ScanHistory for every set of assets and jobs, every kind *)
(* of run and every interleaving: what the change feed tells, which run a  *)
(* chain works on, and when an asset is declared inactive.                 *)
(***************************************************************************)
EXTENDS ScanHistory, FiniteSetTheorems, WellFoundedInduction, SequenceTheorems, TLAPS

\* A job whose run's row is flushed and not yet committed.
Working(d) == d.phase \in {"observing", "decaying"}

RecordSound(d) ==
  /\ Working(d) =>
       d.run \in DOMAIN runs /\ ~runs[d.run].completed /\ d.prev < d.run
  /\ d.phase = "begun" => d.prev <= Len(runs)
  /\ d.phase = "begun" \/ Working(d) => d.prev \in Completed \cup {0}
  /\ d.phase = "chaining" => d.run \in Completed

JobsSound ==
  /\ \A j \in Jobs : RecordSound(job[j])
  /\ \A i, j \in Jobs :
       i # j /\ Working(job[i]) /\ Working(job[j]) => job[i].run # job[j].run

\* A committed scan tells the difference to a committed predecessor; other
\* runs have no snapshots; a chain works on a committed run no older.
RunSound(n) ==
  /\ \A a \in DOMAIN runs[n].snapshot :
       runs[n].snapshot[a].auth => TypeOf[a] = "http_service"
  /\ n \in Completed =>
       /\ runs[n].kind = "scan" =>
            /\ runs[n].prev \in Completed \cup {0}
            /\ runs[n].prev < n
            /\ runs[n].events = Diff(SnapshotBefore(n), runs[n].snapshot)
       /\ runs[n].kind # "scan" => runs[n].snapshot = Nothing
       /\ runs[n].chained # 0 =>
            runs[n].chained \in Completed /\ runs[n].chained >= n

RunsSound == \A n \in DOMAIN runs : RunSound(n)

IInv == TypeOK /\ JobsSound /\ RunsSound

-----------------------------------------------------------------------------
(* Partial functions, snapshots and their differences *)

\* A function is partial on S exactly if its domain lies in S.
LEMMA PartialIntro ==
  ASSUME NEW S, NEW T, NEW D \in SUBSET S, NEW f \in [D -> T]
  PROVE  f \in Partial(S, T)
  BY DEF Partial

LEMMA PartialElim ==
  ASSUME NEW S, NEW T, NEW f \in Partial(S, T)
  PROVE  DOMAIN f \subseteq S /\ f \in [DOMAIN f -> T] /\ \A x \in DOMAIN f : f[x] \in T
  BY DEF Partial

\* Adding or changing one point keeps a function partial.
LEMMA PartialExtend ==
  ASSUME NEW S, NEW T, NEW f \in Partial(S, T), NEW a \in S, NEW v \in T
  PROVE  [b \in DOMAIN f \cup {a} |-> IF b = a THEN v ELSE f[b]] \in Partial(S, T)
  <1>1. [b \in DOMAIN f \cup {a} |-> IF b = a THEN v ELSE f[b]]
          \in [DOMAIN f \cup {a} -> T]
    BY PartialElim
  <1>2. DOMAIN f \cup {a} \in SUBSET S
    BY PartialElim
  <1> QED BY <1>1, <1>2, PartialIntro

LEMMA NothingPartial == ASSUME NEW T PROVE Nothing \in Partial(Assets, T)
  <1>1. Nothing \in [{} -> T]
    BY DEF Nothing
  <1> QED BY <1>1, PartialIntro

\* Of an asset at most one kind of event is told, and which appearances and
\* departures they are is decided by the two domains alone.
LEMMA KindsOfShape ==
  ASSUME NEW a \in Assets, NEW p, NEW q
  PROVE  /\ \/ KindsOf(a, p, q) = {}
            \/ \E k \in EventKinds : KindsOf(a, p, q) = {k}
         /\ a \notin DOMAIN p =>
              \E k \in Appearances : KindsOf(a, p, q) = {k}
         /\ a \in DOMAIN p \ DOMAIN q =>
              \E k \in Departures : KindsOf(a, p, q) = {k}
         /\ a \in DOMAIN p \cap DOMAIN q =>
              KindsOf(a, p, q) \cap (Appearances \cup Departures) = {}
  <1>1. CASE a \notin DOMAIN p
    BY <1>1 DEF KindsOf, NewKind, Appearances, EventKinds
  <1>2. CASE a \in DOMAIN p /\ a \notin DOMAIN q
    BY <1>2 DEF KindsOf, GoneKind, Departures, EventKinds
  <1>3. CASE a \in DOMAIN p /\ a \in DOMAIN q
    <2> DEFINE K == ChangedKind(a, p[a], q[a])
    <2>1. KindsOf(a, p, q) = K
      BY <1>3 DEF KindsOf
    <2>2. K = {} \/ \E k \in {"WENT_PUBLIC", "AUTH_REMOVED", "TECH_CHANGED",
                              "CERT_CHANGED"} : K = {k}
      BY DEF ChangedKind
    <2> HIDE DEF K
    <2> QED BY <1>3, <2>1, <2>2 DEF Appearances, Departures, EventKinds
  <1> QED BY <1>1, <1>2, <1>3

\* The diff of two snapshots has exactly the events KindsOf names.
LEMMA DiffTells ==
  ASSUME NEW p, NEW q, NEW a, NEW k, KindsOf(a, p, q) = {k},
         a \in DOMAIN p \cup DOMAIN q
  PROVE  a \in DOMAIN Diff(p, q) /\ Diff(p, q)[a] = k
  BY DEF Diff

LEMMA DiffIsTold ==
  ASSUME NEW p, NEW q, NEW a \in DOMAIN Diff(p, q)
  PROVE  a \in DOMAIN p \cup DOMAIN q /\ Diff(p, q)[a] \in KindsOf(a, p, q)
  BY DEF Diff

\* A login that is no longer asked for outranks a change of technology.
LEMMA DiffTellsAccessLoss ==
  ASSUME NEW p, NEW q, NEW a, a \in DOMAIN p, a \in DOMAIN q,
         TypeOf[a] = "http_service", p[a].auth, ~q[a].auth
  PROVE  /\ a \in DOMAIN Diff(p, q)
         /\ Diff(p, q)[a] \in {"WENT_PUBLIC", "AUTH_REMOVED"}
  <1>1. PICK k \in {"WENT_PUBLIC", "AUTH_REMOVED"} : KindsOf(a, p, q) = {k}
    BY DEF KindsOf, ChangedKind, AuthRemoved
  <1>2. a \in DOMAIN Diff(p, q) /\ Diff(p, q)[a] = k
    BY <1>1 DEF Diff
  <1> QED BY <1>2

LEMMA DiffType ==
  ASSUME NEW p, NEW q, DOMAIN p \subseteq Assets, DOMAIN q \subseteq Assets
  PROVE  Diff(p, q) \in Partial(Assets, EventKinds)
  <1> DEFINE D == {b \in DOMAIN p \cup DOMAIN q : KindsOf(b, p, q) # {}}
  <1>1. D \in SUBSET Assets
    OBVIOUS
  <1>2. ASSUME NEW a \in D
        PROVE  (CHOOSE k \in KindsOf(a, p, q) : TRUE) \in EventKinds
    <2>1. \E k \in EventKinds : KindsOf(a, p, q) = {k}
      BY <1>1, KindsOfShape
    <2> QED BY <2>1
  <1>3. Diff(p, q) \in [D -> EventKinds]
    BY <1>2 DEF Diff
  <1> QED BY <1>1, <1>3, PartialIntro

\* What a snapshot records, and that only web services ask for a login.
LEMMA BuildStateType ==
  ASSUME NEW a \in Assets, NEW o \in Observation
  PROVE  /\ BuildState(a, o) \in State
         /\ BuildState(a, o).auth => TypeOf[a] = "http_service"
  BY ParametersAssumption DEF BuildState, State, Observation

-----------------------------------------------------------------------------
(* Choosing a run *)

LEMMA CompletedType ==
  ASSUME TypeOK
  PROVE  /\ Len(runs) \in Nat /\ DOMAIN runs = 1..Len(runs)
         /\ Completed \subseteq 1..Len(runs)
         /\ \A n \in DOMAIN runs : runs[n] \in Run
  BY DEF TypeOK, Completed

\* A set of runs that is not empty has a newest.
LEMMA NewestIsGreatest ==
  ASSUME NEW N \in Nat, NEW S \in SUBSET (1..N), S # {}
  PROVE  Newest(S) \in S /\ \A m \in S : m <= Newest(S)
  <1> DEFINE T == {k \in Nat : \E n \in S : k = N - n}
             R == OpToRel(<, Nat)
  <1>1. T \subseteq Nat /\ T # {}
    <2>1. PICK n \in S : TRUE
      OBVIOUS
    <2>2. N - n \in T
      BY <2>1
    <2> QED BY <2>2
  <1>2. PICK k \in T : \A y \in T : ~(<<y, k>> \in R)
    BY <1>1, NatLessThanWellFounded, WFMin
  <1>3. PICK n \in S : k = N - n
    BY <1>2
  <1>4. ASSUME NEW m \in S
        PROVE  m <= n
    <2>1. N - m \in T
      OBVIOUS
    <2>2. <<N - m, k>> \notin R
      BY <1>2, <2>1
    <2>3. ~(N - m < k)
      BY <2>1, <2>2, <1>1 DEF OpToRel
    <2> QED BY <1>3, <2>3
  <1>5. \E x \in S : \A m \in S : m <= x
    BY <1>4
  <1>6. Newest(S) = CHOOSE x \in S : \A m \in S : m <= x
    BY DEF Newest
  <1> QED BY <1>5, <1>6

LEMMA LatestIsNewest ==
  ASSUME TypeOK
  PROVE  /\ Latest \in Completed \cup {0}
         /\ Latest \in Nat /\ Latest <= Len(runs)
         /\ \A n \in Completed : Latest \in Completed /\ n <= Latest
  <1>1. CASE Completed = {}
    BY <1>1, CompletedType DEF Latest, Newest
  <1>2. CASE Completed # {}
    <2>1. Latest \in Completed /\ \A n \in Completed : n <= Latest
      BY <1>2, CompletedType, NewestIsGreatest DEF Latest
    <2> QED BY <2>1, CompletedType
  <1> QED BY <1>1, <1>2

-----------------------------------------------------------------------------
(* Rows and records *)

LEMMA UnpublishedType ==
  /\ Unpublished \in Run
  /\ DOMAIN Unpublished.snapshot = {} /\ ~Unpublished.completed
  /\ Unpublished.chained = 0 /\ Unpublished.prev = 0
  BY NothingPartial DEF Unpublished, Run, Kinds, Nothing

LEMMA ClosedType == Closed \in JobState
  BY NothingPartial DEF Closed, JobState, Phases, Kinds

\* Committed rows keep everything but the run their chain worked on.
RunsStand ==
  \A n \in Completed :
    /\ n \in Completed'
    /\ runs'[n].kind = runs[n].kind
    /\ runs'[n].prev = runs[n].prev
    /\ runs'[n].snapshot = runs[n].snapshot
    /\ runs'[n].events = runs[n].events

\* While rows stand, what was sound of a committed run is still sound.
LEMMA StandingSound ==
  ASSUME TypeOK, RunsStand, NEW n \in Completed, RunSound(n),
         \/ runs'[n].chained = runs[n].chained
         \/ runs'[n].chained \in Completed /\ runs'[n].chained >= n
  PROVE  RunSound(n)'
  <1>1. n \in DOMAIN runs /\ n \in Nat
    BY CompletedType DEF Completed
  <1>2. \A a \in DOMAIN runs'[n].snapshot :
          runs'[n].snapshot[a].auth => TypeOf[a] = "http_service"
    BY <1>1 DEF RunSound, RunsStand
  <1>3. ASSUME runs'[n].kind = "scan"
        PROVE  /\ runs'[n].prev \in Completed' \cup {0}
               /\ runs'[n].prev < n
               /\ runs'[n].events = Diff(SnapshotBefore(n)', runs'[n].snapshot)
    <2>1. /\ runs[n].prev \in Completed \cup {0} /\ runs[n].prev < n
          /\ runs[n].events = Diff(SnapshotBefore(n), runs[n].snapshot)
      BY <1>3 DEF RunSound, RunsStand
    <2>2. SnapshotBefore(n)' = SnapshotBefore(n)
      BY <2>1 DEF SnapshotBefore, RunsStand
    <2> QED BY <2>1, <2>2 DEF RunsStand
  <1>4. runs'[n].kind # "scan" => runs'[n].snapshot = Nothing
    BY DEF RunSound, RunsStand
  <1>5. runs'[n].chained # 0 =>
          runs'[n].chained \in Completed' /\ runs'[n].chained >= n
    BY DEF RunSound, RunsStand
  <1> QED BY <1>2, <1>3, <1>4, <1>5 DEF RunSound

\* A step of one job that leaves the rows alone and keeps its own.
LEMMA QuietStep ==
  ASSUME IInv, UNCHANGED <<runs, lastSeen, active>>, overlapped' \in BOOLEAN,
         NEW j \in Jobs, NEW d \in JobState, job' = [job EXCEPT ![j] = d],
         RecordSound(d),
         Working(d) => Working(job[j]) /\ d.run = job[j].run
  PROVE  IInv'
  <1>1. TypeOK'
    BY DEF IInv, TypeOK
  <1>2. Completed' = Completed
    BY DEF Completed
  <1>3. RunsSound'
    BY <1>2 DEF IInv, RunsSound, RunSound, SnapshotBefore
  <1>4. job \in [Jobs -> JobState]
    BY DEF IInv, TypeOK
  <1>5. \A i \in Jobs : RecordSound(job[i])'
    BY <1>2, <1>4 DEF IInv, JobsSound, RecordSound, Working
  <1>6. \A i, k \in Jobs :
          i # k /\ Working(job'[i]) /\ Working(job'[k]) => job'[i].run # job'[k].run
    BY <1>4 DEF IInv, JobsSound
  <1> QED BY <1>1, <1>3, <1>5, <1>6 DEF IInv, JobsSound, Working

-----------------------------------------------------------------------------
(* Steps that leave the rows alone *)

LEMMA InitSound == Init => IInv
  <1> SUFFICES ASSUME Init PROVE IInv
    OBVIOUS
  <1>1. TypeOK
    BY ClosedType, EmptySeq DEF Init, TypeOK
  <1>2. JobsSound
    BY DEF Init, JobsSound, RecordSound, Working, Closed
  <1>3. RunsSound
    BY DEF Init, RunsSound
  <1> QED BY <1>1, <1>2, <1>3 DEF IInv

LEMMA BeginSound ==
  ASSUME IInv, NEW j \in Jobs, NEW k \in Kinds, Begin(j, k)
  PROVE  IInv'
  <1>1. TypeOK
    BY DEF IInv
  <1>2. PICK seeds \in IF k = "ingest" THEN {{}} ELSE SeedSets :
          job' = [job EXCEPT ![j] = [Closed EXCEPT !.phase = "begun", !.kind = k,
                                       !.seeds = seeds,
                                       !.prev = IF k = "scan" THEN Latest ELSE 0]]
    BY DEF Begin
  <1> DEFINE prev == IF k = "scan" THEN Latest ELSE 0
             d == [Closed EXCEPT !.phase = "begun", !.kind = k, !.seeds = seeds,
                                 !.prev = prev]
  <1>3. prev \in Completed \cup {0} /\ prev \in Nat /\ prev <= Len(runs)
    BY <1>1, LatestIsNewest, CompletedType
  <1>4. seeds \in SUBSET Assets
    BY <1>2, ParametersAssumption
  <1> HIDE DEF prev
  <1>5. d \in JobState /\ d.phase = "begun" /\ d.prev = prev
    BY <1>3, <1>4, ClosedType DEF JobState, Phases
  <1>6. job' = [job EXCEPT ![j] = d] /\ UNCHANGED <<runs, lastSeen, active>>
    BY <1>2 DEF Begin, prev
  <1>7. overlapped' \in BOOLEAN
    BY <1>1 DEF Begin, TypeOK
  <1> HIDE DEF d
  <1>8. RecordSound(d) /\ ~Working(d)
    BY <1>3, <1>5 DEF RecordSound, Working
  <1> QED BY <1>5, <1>6, <1>7, <1>8, QuietStep

\* A record that keeps its phase, run and predecessor is as sound as it was.
LEMMA KeptSound ==
  ASSUME IInv, NEW j \in Jobs, NEW d,
         d.phase = job[j].phase, d.run = job[j].run, d.prev = job[j].prev
  PROVE  RecordSound(d) /\ (Working(d) => Working(job[j]))
  BY DEF IInv, JobsSound, RecordSound, Working

LEMMA LoadSound ==
  ASSUME IInv, NEW j \in Jobs, NEW a \in Assets, NEW o \in Observable[a],
         Load(j, a, o)
  PROVE  IInv'
  <1> DEFINE d == job[j]
             known == IF a \in DOMAIN d.loaded THEN d.loaded[a] ELSE active[a]
             pending == {[asset |-> a, at |-> Len(runs),
                          exists |-> lastSeen[a] > 0 \/ a \in DOMAIN d.loaded]}
             loaded == [b \in DOMAIN d.loaded \cup {a} |->
                          IF b = a THEN known ELSE d.loaded[b]]
             found == IF d.kind # "scan" \/ a \in DOMAIN d.found THEN d.found
                      ELSE [b \in DOMAIN d.found \cup {a} |->
                              IF b = a THEN o ELSE d.found[b]]
             e == [d EXCEPT !.pending = pending, !.loaded = loaded, !.found = found]
  <1>1. TypeOK /\ d \in JobState /\ Len(runs) \in Nat
    BY CompletedType DEF IInv, TypeOK
  <1>2. d.loaded \in Partial(Assets, BOOLEAN)
        /\ d.found \in Partial(Assets, Observation)
    BY <1>1 DEF JobState
  <1>3. known \in BOOLEAN
    BY <1>1, <1>2, PartialElim DEF TypeOK
  <1>4. loaded \in Partial(Assets, BOOLEAN)
    BY <1>2, <1>3, PartialExtend
  <1>5. found \in Partial(Assets, Observation)
    <2>1. o \in Observation
      BY ParametersAssumption
    <2> QED BY <1>2, <2>1, PartialExtend
  <1>6. pending \in SUBSET [asset : Assets, at : Nat, exists : BOOLEAN]
    BY <1>1
  <1> HIDE DEF known, pending, loaded, found
  <1>7. e \in JobState /\ e.phase = d.phase /\ e.run = d.run /\ e.prev = d.prev
    BY <1>1, <1>4, <1>5, <1>6 DEF JobState
  <1>8. job' = [job EXCEPT ![j] = e]
    BY <1>1 DEF Load, TypeOK, known, pending, loaded, found
  <1>9. UNCHANGED <<runs, lastSeen, active>> /\ overlapped' \in BOOLEAN
    BY <1>1 DEF Load, TypeOK
  <1> HIDE DEF e
  <1> QED BY <1>7, <1>8, <1>9, KeptSound, QuietStep

LEMMA TouchSound ==
  ASSUME IInv, NEW j \in Jobs, Touch(j)
  PROVE  IInv'
  <1> DEFINE d == job[j]
  <1>1. TypeOK /\ d \in JobState /\ job \in [Jobs -> JobState]
    BY DEF IInv, TypeOK
  <1>2. PICK p \in d.pending :
          job' = [job EXCEPT
            ![j].pending = {},
            ![j].seenAt[p.asset] = p.at,
            ![j].reactivates = IF p.exists /\ ~job[j].loaded[p.asset]
                                 THEN @ \cup {p.asset} ELSE @,
            ![j].loaded[p.asset] = TRUE]
    BY DEF Touch
  <1> DEFINE seenAt == [d.seenAt EXCEPT ![p.asset] = p.at]
             woken == IF p.exists /\ ~d.loaded[p.asset]
                        THEN d.reactivates \cup {p.asset} ELSE d.reactivates
             loaded == [d.loaded EXCEPT ![p.asset] = TRUE]
             e == [d EXCEPT !.pending = {}, !.seenAt = seenAt,
                            !.reactivates = woken, !.loaded = loaded]
  <1>3. p.asset \in Assets /\ p.at \in Nat
    BY <1>1 DEF JobState
  <1>4. seenAt \in [Assets -> Nat] /\ woken \in SUBSET Assets
    BY <1>1, <1>3 DEF JobState
  <1>5. loaded \in Partial(Assets, BOOLEAN)
    <2>1. d.loaded \in Partial(Assets, BOOLEAN)
      BY <1>1 DEF JobState
    <2>2. DOMAIN d.loaded \in SUBSET Assets /\ d.loaded \in [DOMAIN d.loaded -> BOOLEAN]
      BY <2>1, PartialElim
    <2>3. loaded \in [DOMAIN d.loaded -> BOOLEAN]
      BY <2>2
    <2> HIDE DEF loaded
    <2> QED BY <2>2, <2>3, PartialIntro
  <1>6. job' = [job EXCEPT ![j] = e]
    BY <1>1, <1>2
  <1> HIDE DEF seenAt, woken, loaded
  <1>7. e \in JobState /\ e.phase = d.phase /\ e.run = d.run /\ e.prev = d.prev
    BY <1>1, <1>4, <1>5 DEF JobState
  <1>8. UNCHANGED <<runs, lastSeen, active>> /\ overlapped' \in BOOLEAN
    BY <1>1 DEF Touch, TypeOK
  <1> HIDE DEF e
  <1> QED BY <1>6, <1>7, <1>8, KeptSound, QuietStep

LEMMA ReadStaleSound ==
  ASSUME IInv, NEW j \in Jobs, ReadStale(j)
  PROVE  IInv'
  <1>1. TypeOK /\ job[j] \in JobState /\ job \in [Jobs -> JobState]
    BY DEF IInv, TypeOK
  <1>2. PICK S \in SUBSET Assets :
          job' = [job EXCEPT ![j].phase = "decaying", ![j].stale = S]
    BY DEF ReadStale
  <1> DEFINE e == [job[j] EXCEPT !.phase = "decaying", !.stale = S]
  <1>3. /\ e \in JobState /\ e.phase = "decaying"
        /\ e.run = job[j].run /\ e.prev = job[j].prev
    BY <1>1 DEF JobState, Phases
  <1>4. job' = [job EXCEPT ![j] = e]
    BY <1>1, <1>2
  <1>5. job[j].phase = "observing"
        /\ UNCHANGED <<runs, lastSeen, active>> /\ overlapped' \in BOOLEAN
    BY <1>1 DEF ReadStale, TypeOK
  <1> HIDE DEF e
  <1>6. RecordSound(e) /\ Working(job[j])
    BY <1>3, <1>5 DEF IInv, JobsSound, RecordSound, Working
  <1> QED BY <1>3, <1>4, <1>5, <1>6, QuietStep

LEMMA MarkInactiveSound ==
  ASSUME IInv, NEW j \in Jobs, NEW a \in Assets, MarkInactive(j, a)
  PROVE  IInv'
  <1> DEFINE stale == job[j].stale \ {a}
             retired == job[j].retired \cup {a}
             e == [job[j] EXCEPT !.stale = stale, !.retired = retired]
  <1>1. TypeOK /\ job[j] \in JobState /\ job \in [Jobs -> JobState]
    BY DEF IInv, TypeOK
  <1>2. stale \in SUBSET Assets /\ retired \in SUBSET Assets
    BY <1>1 DEF JobState
  <1>3. job' = [job EXCEPT ![j] = e]
    BY <1>1 DEF MarkInactive
  <1> HIDE DEF stale, retired
  <1>4. /\ e \in JobState /\ e.phase = job[j].phase
        /\ e.run = job[j].run /\ e.prev = job[j].prev
    BY <1>1, <1>2 DEF JobState
  <1>5. UNCHANGED <<runs, lastSeen, active>> /\ overlapped' \in BOOLEAN
    BY <1>1 DEF MarkInactive, TypeOK
  <1> HIDE DEF e
  <1> QED BY <1>3, <1>4, <1>5, KeptSound, QuietStep

LEMMA AbortSound ==
  ASSUME IInv, NEW j \in Jobs, Abort(j)
  PROVE  IInv'
  <1>1. RecordSound(Closed) /\ ~Working(Closed)
    BY DEF RecordSound, Working, Closed
  <1>2. job' = [job EXCEPT ![j] = Closed] /\ UNCHANGED <<runs, lastSeen, active>>
        /\ overlapped' \in BOOLEAN
    BY DEF Abort, IInv, TypeOK
  <1> QED BY <1>1, <1>2, ClosedType, QuietStep

-----------------------------------------------------------------------------
(* Steps that write rows *)

\* A new row is nobody else's, not completed, and later than any predecessor.
LEMMA OpenSound ==
  ASSUME IInv, NEW j \in Jobs, Open(j)
  PROVE  IInv'
  <1> DEFINE N == Len(runs)
             M == N + 1
             e == [job[j] EXCEPT !.phase = "observing", !.run = M]
  <1>1. TypeOK /\ job[j] \in JobState /\ job \in [Jobs -> JobState] /\ N \in Nat
        /\ runs \in Seq(Run)
    BY CompletedType DEF IInv, TypeOK
  <1>2. job' = [job EXCEPT ![j] = e] /\ runs' = Append(runs, Unpublished)
        /\ UNCHANGED <<lastSeen, active, overlapped>> /\ job[j].phase = "begun"
    BY <1>1 DEF Open
  <1>3. /\ e \in JobState /\ e.phase = "observing"
        /\ e.run = N + 1 /\ e.prev = job[j].prev
    <2>1. M \in Nat
      BY <1>1
    <2> HIDE DEF M
    <2>2. /\ e \in JobState /\ e.phase = "observing"
          /\ e.run = M /\ e.prev = job[j].prev
      BY <1>1, <2>1 DEF JobState, Phases
    <2> QED BY <2>2 DEF M
  <1> HIDE DEF e
  <1>4. /\ runs' \in Seq(Run) /\ DOMAIN runs' = 1..N + 1
        /\ runs'[N + 1] = Unpublished
        /\ \A n \in DOMAIN runs : n \in DOMAIN runs' /\ n <= N /\ runs'[n] = runs[n]
    BY <1>1, <1>2, UnpublishedType, AppendProperties, LenProperties
  <1>5. TypeOK'
    BY <1>1, <1>2, <1>3, <1>4 DEF TypeOK
  <1>6. Completed' = Completed
    <2>1. \A n \in DOMAIN runs' : n \in DOMAIN runs \/ n = N + 1
      BY <1>1, <1>4, CompletedType
    <2> QED BY <1>4, <2>1, UnpublishedType DEF Completed
  <1>7. RunsStand
    BY <1>4, <1>6 DEF RunsStand, Completed
  <1>8. RunsSound'
    <2> SUFFICES ASSUME NEW n \in DOMAIN runs' PROVE RunSound(n)'
      BY DEF RunsSound
    <2>1. CASE n \in Completed
      BY <1>1, <1>4, <1>7, <2>1, StandingSound DEF IInv, RunsSound, Completed
    <2>2. CASE n \in DOMAIN runs /\ n \notin Completed
      BY <1>4, <1>6, <2>2 DEF IInv, RunsSound, RunSound
    <2>3. CASE n = N + 1
      BY <1>1, <1>4, <1>6, <2>3, UnpublishedType, CompletedType DEF RunSound
    <2> QED BY <1>1, <1>4, <2>1, <2>2, <2>3, CompletedType
  <1>9. ASSUME NEW i \in Jobs
        PROVE  RecordSound(job[i])'
    <2>1. CASE i = j
      <3>1. job[j].prev <= N /\ job[j].prev \in Completed \cup {0}
            /\ job[j].prev \in Nat
        BY <1>1, <1>2 DEF IInv, JobsSound, RecordSound, JobState
      <3> QED BY <1>1, <1>2, <1>3, <1>4, <1>6, <2>1, <3>1, UnpublishedType
                 DEF RecordSound, Working
    <2>2. CASE i # j
      <3>1. job'[i] = job[i] /\ RecordSound(job[i]) /\ job[i].prev \in Nat
        BY <1>1, <1>2, <2>2 DEF IInv, JobsSound, JobState
      <3>2. Len(runs') = N + 1
        BY <1>1, <1>2, UnpublishedType, AppendProperties
      <3> QED BY <1>1, <1>4, <1>6, <3>1, <3>2 DEF RecordSound, Working
    <2> QED BY <2>1, <2>2
  <1>10. \A i, k \in Jobs :
           i # k /\ Working(job[i])' /\ Working(job[k])' => job'[i].run # job'[k].run
    <2>1. \A i \in Jobs \ {j} : Working(job[i]) => job[i].run # N + 1
      BY <1>1, <1>4 DEF IInv, JobsSound, RecordSound
    <2> QED BY <1>1, <1>2, <1>3, <2>1 DEF IInv, JobsSound, Working
  <1> QED BY <1>5, <1>8, <1>9, <1>10 DEF IInv, JobsSound

\* The commit of a row that tells the difference to what its job compared with.
LEMMA PublishSound ==
  ASSUME IInv, NEW j \in Jobs, Working(job[j]), NEW row \in Run,
         runs' = [runs EXCEPT ![job[j].run] = row],
         NEW d \in JobState, job' = [job EXCEPT ![j] = d],
         ~Working(d), d.phase # "begun",
         d.phase = "chaining" => d.run = job[j].run,
         Publish(j), overlapped' = overlapped,
         row.completed, row.chained = 0,
         \A a \in DOMAIN row.snapshot :
           row.snapshot[a].auth => TypeOf[a] = "http_service",
         row.kind = "scan" => /\ row.prev = job[j].prev
                              /\ row.events = Diff(Before(j), row.snapshot),
         row.kind # "scan" => row.snapshot = Nothing
  PROVE  IInv'
  <1> DEFINE m == job[j].run
  <1>1. TypeOK /\ job[j] \in JobState /\ job \in [Jobs -> JobState]
        /\ runs \in Seq(Run)
    BY DEF IInv, TypeOK
  <1>2. m \in DOMAIN runs /\ m \notin Completed /\ job[j].prev < m
        /\ job[j].prev \in Completed \cup {0}
    BY DEF IInv, JobsSound, RecordSound, Completed
  <1>3. /\ DOMAIN runs' = DOMAIN runs /\ runs' \in Seq(Run) /\ runs'[m] = row
        /\ \A n \in DOMAIN runs : n # m => runs'[n] = runs[n]
        /\ Len(runs') = Len(runs)
    BY <1>1, <1>2, ExceptSeq
  <1>4. Completed' = Completed \cup {m}
    BY <1>2, <1>3 DEF Completed
  <1>5. TypeOK'
    <2>1. lastSeen' \in [Assets -> Nat]
      BY <1>1 DEF Publish, SeenBy, TypeOK, JobState
    <2>2. active' \in [Assets -> BOOLEAN]
      BY DEF Publish
    <2>3. job' \in [Jobs -> JobState]
      BY <1>1
    <2> QED BY <1>1, <1>3, <2>1, <2>2, <2>3 DEF TypeOK
  <1>6. RunsStand
    BY <1>2, <1>3, <1>4 DEF RunsStand, Completed
  <1>7. RunsSound'
    <2> SUFFICES ASSUME NEW n \in DOMAIN runs' PROVE RunSound(n)'
      BY DEF RunsSound
    <2>1. CASE n \in Completed
      BY <1>1, <1>2, <1>3, <1>6, <2>1, StandingSound DEF IInv, RunsSound, Completed
    <2>2. CASE n \notin Completed /\ n # m
      BY <1>3, <1>4, <2>2 DEF IInv, RunsSound, RunSound
    <2>3. CASE n = m
      <3>1. row.kind = "scan" => SnapshotBefore(n)' = Before(j)
        BY <1>2, <1>3, <1>6, <2>3 DEF SnapshotBefore, Before, RunsStand
      <3> QED BY <1>2, <1>3, <1>4, <2>3, <3>1 DEF RunSound
    <2> QED BY <2>1, <2>2, <2>3
  <1>8. ASSUME NEW i \in Jobs
        PROVE  RecordSound(job[i])'
    <2>1. CASE i = j
      BY <1>1, <1>4, <2>1 DEF RecordSound, Working
    <2>2. CASE i # j
      <3>1. /\ job'[i] = job[i] /\ RecordSound(job[i])
            /\ Working(job[i]) => job[i].run # m
        BY <1>1, <2>2 DEF IInv, JobsSound
      <3> QED BY <1>3, <1>4, <3>1 DEF RecordSound, Working
    <2> QED BY <2>1, <2>2
  <1>9. \A i, k \in Jobs :
          i # k /\ Working(job[i])' /\ Working(job[k])' => job'[i].run # job'[k].run
    BY <1>1 DEF IInv, JobsSound, Working
  <1> QED BY <1>5, <1>7, <1>8, <1>9 DEF IInv, JobsSound

LEMMA SnapshotType ==
  ASSUME TypeOK, NEW j \in Jobs
  PROVE  /\ SnapshotOf(j) \in Partial(Assets, State)
         /\ \A a \in DOMAIN SnapshotOf(j) :
              SnapshotOf(j)[a].auth => TypeOf[a] = "http_service"
  <1>1. job[j].found \in Partial(Assets, Observation)
    BY DEF TypeOK, JobState
  <1> DEFINE D == DOMAIN job[j].found
  <1>2. D \in SUBSET Assets /\ \A a \in D : job[j].found[a] \in Observation
    BY <1>1, PartialElim
  <1>3. SnapshotOf(j) \in [D -> State]
    BY <1>2, BuildStateType DEF SnapshotOf
  <1>4. \A a \in D : SnapshotOf(j)[a] = BuildState(a, job[j].found[a])
    BY DEF SnapshotOf
  <1> QED BY <1>2, <1>3, <1>4, PartialIntro, BuildStateType

LEMMA BeforeType ==
  ASSUME IInv, NEW j \in Jobs, Working(job[j])
  PROVE  DOMAIN Before(j) \subseteq Assets
  <1>1. job[j].prev \in Completed \cup {0} /\ TypeOK
    BY DEF IInv, JobsSound, RecordSound
  <1>2. CASE job[j].prev = 0
    BY <1>2 DEF Before, Nothing
  <1>3. CASE job[j].prev # 0
    <2>1. runs[job[j].prev].snapshot \in Partial(Assets, State)
      BY <1>1, <1>3, CompletedType DEF Completed, Run
    <2> QED BY <1>3, <2>1, PartialElim DEF Before
  <1> QED BY <1>2, <1>3

LEMMA CommitScanSound ==
  ASSUME IInv, NEW j \in Jobs, CommitScan(j)
  PROVE  IInv'
  <1> DEFINE n == job[j].run
             row == [Unpublished EXCEPT !.completed = TRUE, !.prev = job[j].prev,
                       !.snapshot = SnapshotOf(j),
                       !.events = Diff(Before(j), SnapshotOf(j))]
             d == [Closed EXCEPT !.phase = "chaining", !.run = n]
  <1>1. TypeOK /\ job[j] \in JobState /\ Working(job[j])
    BY DEF IInv, TypeOK, CommitScan, Working
  <1>2. SnapshotOf(j) \in Partial(Assets, State)
    BY <1>1, SnapshotType
  <1>3. Diff(Before(j), SnapshotOf(j)) \in Partial(Assets, EventKinds)
    BY <1>1, <1>2, BeforeType, PartialElim, DiffType
  <1>4. /\ row \in Run /\ row.completed /\ row.chained = 0
        /\ row.prev = job[j].prev /\ row.snapshot = SnapshotOf(j)
        /\ row.events = Diff(Before(j), SnapshotOf(j)) /\ row.kind = "scan"
    BY <1>1, <1>2, <1>3, UnpublishedType DEF Run, JobState, Unpublished
  <1>5. /\ d \in JobState /\ d.phase = "chaining" /\ d.run = n
    BY <1>1, ClosedType DEF JobState, Phases, Closed
  <1>6. /\ runs' = [runs EXCEPT ![n] = row] /\ job' = [job EXCEPT ![j] = d]
        /\ Publish(j) /\ overlapped' = overlapped
    BY DEF CommitScan
  <1>7. \A a \in DOMAIN row.snapshot :
          row.snapshot[a].auth => TypeOf[a] = "http_service"
    BY <1>1, <1>4, SnapshotType
  <1> HIDE DEF row, d
  <1> QED BY <1>1, <1>4, <1>5, <1>6, <1>7, PublishSound DEF Working

LEMMA CommitOtherSound ==
  ASSUME IInv, NEW j \in Jobs, CommitOther(j)
  PROVE  IInv'
  <1> DEFINE n == job[j].run
             row == [Unpublished EXCEPT !.kind = job[j].kind, !.completed = TRUE]
  <1>1. TypeOK /\ job[j] \in JobState /\ Working(job[j])
    BY DEF IInv, TypeOK, CommitOther, Working
  <1>2. /\ row \in Run /\ row.completed /\ row.chained = 0
        /\ row.snapshot = Nothing /\ row.kind # "scan"
    BY <1>1, UnpublishedType DEF Run, JobState, Unpublished, CommitOther
  <1>3. /\ runs' = [runs EXCEPT ![n] = row] /\ job' = [job EXCEPT ![j] = Closed]
        /\ Publish(j) /\ overlapped' = overlapped
    BY DEF CommitOther
  <1>4. Closed.phase = "idle"
    BY DEF Closed
  <1>5. DOMAIN row.snapshot = {}
    BY <1>2 DEF Nothing
  <1> HIDE DEF row
  <1> QED BY <1>1, <1>2, <1>3, <1>4, <1>5, ClosedType, PublishSound DEF Working

\* The chain writes nothing but its choice, the newest completed run.
LEMMA ChainSound ==
  ASSUME IInv, NEW j \in Jobs, Chain(j)
  PROVE  IInv'
  <1> DEFINE m == job[j].run
             row == [runs[m] EXCEPT !.chained = Latest]
  <1>1. TypeOK /\ job[j] \in JobState /\ job \in [Jobs -> JobState]
        /\ runs \in Seq(Run)
    BY DEF IInv, TypeOK
  <1>2. m \in Completed /\ m \in DOMAIN runs /\ runs[m] \in Run
    BY <1>1, CompletedType DEF IInv, JobsSound, RecordSound, Chain, Completed
  <1>3. Latest \in Completed /\ Latest >= m /\ Latest \in Nat
    BY <1>1, <1>2, LatestIsNewest, CompletedType
  <1>4. /\ row \in Run /\ row.chained = Latest
        /\ row.kind = runs[m].kind /\ row.completed = runs[m].completed
        /\ row.prev = runs[m].prev /\ row.snapshot = runs[m].snapshot
        /\ row.events = runs[m].events
    BY <1>2, <1>3 DEF Run
  <1>5. /\ runs' = [runs EXCEPT ![m] = row] /\ job' = [job EXCEPT ![j] = Closed]
        /\ UNCHANGED <<lastSeen, active, overlapped>>
    BY <1>1, <1>2 DEF Chain
  <1> HIDE DEF row
  <1>6. /\ DOMAIN runs' = DOMAIN runs /\ runs' \in Seq(Run) /\ runs'[m] = row
        /\ \A n \in DOMAIN runs : n # m => runs'[n] = runs[n]
        /\ Len(runs') = Len(runs)
    BY <1>1, <1>2, <1>4, <1>5, ExceptSeq
  <1>7. Completed' = Completed /\ RunsStand
    BY <1>2, <1>4, <1>6 DEF Completed, RunsStand
  <1>8. TypeOK'
    BY <1>1, <1>5, <1>6, ClosedType DEF TypeOK
  <1>9. RunsSound'
    <2> SUFFICES ASSUME NEW n \in DOMAIN runs' PROVE RunSound(n)'
      BY DEF RunsSound
    <2>1. CASE n \in Completed
      BY <1>1, <1>3, <1>4, <1>6, <1>7, <2>1, StandingSound
         DEF IInv, RunsSound, Completed
    <2>2. CASE n \notin Completed
      BY <1>2, <1>6, <1>7, <2>2 DEF IInv, RunsSound, RunSound
    <2> QED BY <2>1, <2>2
  <1>10. ASSUME NEW i \in Jobs
         PROVE  RecordSound(job[i])'
    <2>1. job'[i] \in {job[i], Closed}
      BY <1>1, <1>5
    <2> QED BY <1>2, <1>4, <1>6, <1>7, <2>1
            DEF IInv, JobsSound, RecordSound, Working, Closed, Completed
  <1>11. \A i, k \in Jobs :
           i # k /\ Working(job[i])' /\ Working(job[k])' => job'[i].run # job'[k].run
    BY <1>1, <1>5 DEF IInv, JobsSound, Working, Closed
  <1> QED BY <1>8, <1>9, <1>10, <1>11 DEF IInv, JobsSound

-----------------------------------------------------------------------------
(* Theorems *)

LEMMA NextSound == IInv /\ [Next]_vars => IInv'
  <1> SUFFICES ASSUME IInv, [Next]_vars PROVE IInv'
    OBVIOUS
  <1>1. CASE UNCHANGED vars
    BY <1>1 DEF vars, IInv, TypeOK, JobsSound, RecordSound, RunsSound, RunSound,
                SnapshotBefore, Completed, Working
  <1>2. ASSUME NEW j \in Jobs, NEW k \in Kinds, Begin(j, k)
        PROVE  IInv'
    BY <1>2, BeginSound
  <1>3. ASSUME NEW j \in Jobs, Step(j)
        PROVE  IInv'
    <2>1. CASE Open(j)
      BY <2>1, OpenSound
    <2>2. CASE \E a \in Assets : \E o \in Observable[a] : Load(j, a, o)
      BY <2>2, LoadSound
    <2>3. CASE Touch(j)
      BY <2>3, TouchSound
    <2>4. CASE ReadStale(j)
      BY <2>4, ReadStaleSound
    <2>5. CASE \E a \in Assets : MarkInactive(j, a)
      BY <2>5, MarkInactiveSound
    <2>6. CASE CommitScan(j)
      BY <2>6, CommitScanSound
    <2>7. CASE CommitOther(j)
      BY <2>7, CommitOtherSound
    <2>8. CASE Chain(j)
      BY <2>8, ChainSound
    <2>9. CASE Abort(j)
      BY <2>9, AbortSound
    <2> QED BY <1>3, <2>1, <2>2, <2>3, <2>4, <2>5, <2>6, <2>7, <2>8, <2>9 DEF Step
  <1> QED BY <1>1, <1>2, <1>3 DEF Next

LEMMA AlwaysIInv == Spec => []IInv
  <1>1. Init => IInv
    BY InitSound
  <1>2. IInv /\ [Next]_vars => IInv'
    BY NextSound
  <1> QED BY <1>1, <1>2, PTL DEF Spec

\* Every variable and every open transaction keeps its type (db/models.py).
THEOREM HistoryTypes == Spec => []TypeOK
  <1>1. IInv => TypeOK
    BY DEF IInv
  <1> QED BY <1>1, AlwaysIInv, PTL

LEMMA ToldOfDiff ==
  ASSUME IInv, NEW n \in Completed, runs[n].kind = "scan"
  PROVE  /\ TypeOK /\ runs[n].prev \in Completed \cup {0} /\ runs[n].prev < n
         /\ runs[n].events = Diff(SnapshotBefore(n), runs[n].snapshot)
         /\ DOMAIN runs[n].snapshot \subseteq Assets
         /\ DOMAIN SnapshotBefore(n) \subseteq Assets
  <1>1. TypeOK /\ n \in DOMAIN runs /\ RunSound(n)
    BY DEF IInv, RunsSound, Completed
  <1>2. ASSUME NEW m \in DOMAIN runs
        PROVE  DOMAIN runs[m].snapshot \subseteq Assets
    <2>1. runs[m].snapshot \in Partial(Assets, State)
      BY <1>1, CompletedType DEF Run
    <2> QED BY <2>1, PartialElim
  <1>3. DOMAIN SnapshotBefore(n) \subseteq Assets
    BY <1>1, <1>2 DEF SnapshotBefore, Nothing, RunSound, Completed
  <1> QED BY <1>1, <1>2, <1>3 DEF RunSound

\* What a scan tells of appearances and departures, applied to what its
\* predecessor saw, gives what it saw itself (diff/engine.py).
THEOREM FeedAlwaysExplains == Spec => []FeedExplainsSnapshots
  <1>1. IInv => FeedExplainsSnapshots
    <2> SUFFICES ASSUME IInv, NEW n \in Completed, runs[n].kind = "scan"
                 PROVE
      LET before == DOMAIN SnapshotBefore(n)
          appeared == {a \in Assets : Told(n, a, Appearances)}
          departed == {a \in Assets : Told(n, a, Departures)}
      IN /\ runs[n].prev \in Completed \cup {0} /\ runs[n].prev < n
         /\ appeared \cap before = {} /\ departed \subseteq before
         /\ DOMAIN runs[n].snapshot = (before \ departed) \cup appeared
      BY DEF FeedExplainsSnapshots
    <2> DEFINE p == SnapshotBefore(n)
               q == runs[n].snapshot
    <2>1. /\ runs[n].prev \in Completed \cup {0} /\ runs[n].prev < n
          /\ runs[n].events = Diff(p, q)
          /\ DOMAIN p \subseteq Assets /\ DOMAIN q \subseteq Assets
      BY ToldOfDiff
    <2> HIDE DEF p, q
    <2>2. ASSUME NEW a \in Assets
          PROVE  /\ Told(n, a, Appearances) <=> a \in DOMAIN q \ DOMAIN p
                 /\ Told(n, a, Departures) <=> a \in DOMAIN p \ DOMAIN q
      <3>1. Appearances \cap Departures = {}
        BY DEF Appearances, Departures
      <3>2. CASE a \in DOMAIN q \ DOMAIN p
        <4>1. PICK k \in Appearances : KindsOf(a, p, q) = {k}
          BY <3>2, KindsOfShape
        <4>2. a \in DOMAIN Diff(p, q) /\ Diff(p, q)[a] = k
          BY <3>2, <4>1, DiffTells
        <4>3. a \in DOMAIN runs[n].events /\ runs[n].events[a] = k
          BY <2>1, <4>2
        <4> QED BY <3>1, <3>2, <4>1, <4>3 DEF Told
      <3>3. CASE a \in DOMAIN p \ DOMAIN q
        <4>1. PICK k \in Departures : KindsOf(a, p, q) = {k}
          BY <3>3, KindsOfShape
        <4>2. a \in DOMAIN Diff(p, q) /\ Diff(p, q)[a] = k
          BY <3>3, <4>1, DiffTells
        <4>3. a \in DOMAIN runs[n].events /\ runs[n].events[a] = k
          BY <2>1, <4>2
        <4> QED BY <3>1, <3>3, <4>1, <4>3 DEF Told
      <3>4. CASE a \in DOMAIN p \cap DOMAIN q
        BY <2>1, <3>4, KindsOfShape, DiffIsTold DEF Told
      <3>5. CASE a \notin DOMAIN p \cup DOMAIN q
        BY <2>1, <3>5, DiffIsTold DEF Told
      <3> QED BY <3>2, <3>3, <3>4, <3>5
    <2> QED BY <2>1, <2>2 DEF p, q
  <1> QED BY <1>1, AlwaysIInv, PTL

\* A service that no longer asks for a login is told as such, whatever else
\* changed about it (diff/rules.py).
THEOREM AccessLossAlwaysTold == Spec => []AccessLossIsTold
  <1>1. IInv => AccessLossIsTold
    <2> SUFFICES ASSUME IInv, NEW n \in Completed, NEW a \in Assets,
                        a \in DOMAIN SnapshotBefore(n) \cap DOMAIN runs[n].snapshot,
                        SnapshotBefore(n)[a].auth, ~runs[n].snapshot[a].auth
                 PROVE  Told(n, a, {"WENT_PUBLIC", "AUTH_REMOVED"})
      BY DEF AccessLossIsTold
    <2> DEFINE p == SnapshotBefore(n)
               q == runs[n].snapshot
    <2>1. runs[n].kind = "scan"
      BY DEF IInv, RunsSound, RunSound, Completed, Nothing
    <2>2. runs[n].prev \in Completed \cup {0} /\ runs[n].events = Diff(p, q)
      BY <2>1, ToldOfDiff
    <2>3. TypeOf[a] = "http_service"
      BY <2>2 DEF IInv, RunsSound, RunSound, Completed, SnapshotBefore, Nothing
    <2>4. /\ a \in DOMAIN Diff(p, q)
          /\ Diff(p, q)[a] \in {"WENT_PUBLIC", "AUTH_REMOVED"}
      BY <2>3, DiffTellsAccessLoss
    <2> HIDE DEF p, q
    <2> QED BY <2>2, <2>4 DEF Told
  <1> QED BY <1>1, AlwaysIInv, PTL

\* A chain works on a completed run that started no earlier than its scan
\* (cli.py's _latest_scan_run_id).
THEOREM ChainIsNeverOlder == Spec => []ChainNeverOlder
  <1>1. IInv => ChainNeverOlder
    BY DEF IInv, RunsSound, RunSound, ChainNeverOlder, Completed
  <1> QED BY <1>1, AlwaysIInv, PTL

-----------------------------------------------------------------------------
(* Histories without overlap.  A scan is then compared with the newest run    *)
(* there is, and what a job has loaded of an asset is what is committed; this *)
(* is where the alternation of the feed and the merit of a decay come from.   *)

SeenIn(d, a) == IF d.seenAt[a] > 0 THEN d.seenAt[a] ELSE lastSeen[a]

\* Threshold runs, the job's own among them, are newer than the asset's row.
Due(d, a) ==
  Cardinality({n \in Completed \cup {d.run} : n > SeenIn(d, a)}) >= Threshold

\* A job knows every committed run, the asset rows as they are, and retires
\* only what is due.
Aware(d) ==
  /\ d.kind = "scan" => \A m \in Completed : m <= d.prev
  /\ Working(d) => d.run = Len(runs)
Truthful(d) ==
  /\ \A a \in Assets : d.seenAt[a] > 0 => a \in DOMAIN d.loaded /\ d.loaded[a]
  /\ \A a \in DOMAIN d.loaded :
       d.loaded[a] => active[a] \/ a \in d.reactivates \/ lastSeen[a] = 0
  /\ \A p \in d.pending : p.asset \in DOMAIN d.loaded
Merited(d) ==
  /\ d.phase # "decaying" => d.retired = {}
  /\ d.phase = "decaying" =>
       d.kind = "scan" /\ \A a \in d.stale \cup d.retired : Due(d, a)
Calm(d) ==
  /\ d.phase # "observing" => d.pending = {}
  /\ d.phase = "begun" \/ Working(d) => Aware(d) /\ Truthful(d) /\ Merited(d)

Consecutive ==
  \A n \in Completed : runs[n].kind = "scan" =>
    \A m \in Completed : m < n => m <= runs[n].prev

CalmInv ==
  ~overlapped =>
    /\ \A i, j \in Jobs : i # j => Idle(i) \/ Idle(j)
    /\ Consecutive
    /\ \A j \in Jobs : Calm(job[j])
    /\ DecayIsEarned

\* Of some numbers there is a least.
LEMMA LeastOf ==
  ASSUME NEW T \in SUBSET Nat, T # {}
  PROVE  \E k \in T : \A n \in T : k <= n
  <1> DEFINE R == OpToRel(<, Nat)
  <1>1. PICK k \in T : \A n \in T : ~(<<n, k>> \in R)
    BY NatLessThanWellFounded, WFMin
  <1>2. ASSUME NEW n \in T
        PROVE  k <= n
    <2>1. k \in Nat /\ n \in Nat
      OBVIOUS
    <2>2. <<n, k>> \notin R
      BY <1>1
    <2>3. ~(n < k)
      BY <2>1, <2>2 DEF OpToRel
    <2> QED BY <2>1, <2>3
  <1> QED BY <1>2

LEMMA RunsFinite ==
  ASSUME NEW N \in Nat, NEW S \in SUBSET (1..N)
  PROVE  IsFiniteSet(S) /\ Cardinality(S) \in Nat
  <1>1. 1 \in Int /\ N \in Int
    OBVIOUS
  <1>2. IsFiniteSet(1..N)
    BY <1>1, FS_Interval
  <1> QED BY <1>2, FS_Subset, FS_CardinalityType

\* Of at least Threshold runs, one has just Threshold - 1 newer ones: the
\* greatest that has as many.
LEMMA CutoffExists ==
  ASSUME NEW N \in Nat, NEW S \in SUBSET (1..N), Cardinality(S) >= Threshold
  PROVE  Cutoff(S) \in S /\ Cardinality({m \in S : m > Cutoff(S)}) = Threshold - 1
  <1> DEFINE above(n) == {m \in S : m > n}
             T == {n \in S : Cardinality(above(n)) >= Threshold - 1}
  <1>0. Threshold \in Nat /\ Threshold > 0 /\ \A m \in S : m \in Nat
    BY ParametersAssumption
  <1>1. ASSUME NEW n \in S
        PROVE  IsFiniteSet(above(n)) /\ Cardinality(above(n)) \in Nat
    <2>1. above(n) \in SUBSET (1..N)
      OBVIOUS
    <2> HIDE DEF above
    <2> QED BY <2>1, RunsFinite
  \* Taking the least of some runs away leaves one fewer, those above it.
  <1>2. ASSUME NEW U \in SUBSET S, U # {}
        PROVE  \E k \in U : /\ \A n \in U : k <= n
                            /\ Cardinality(U \ {k}) = Cardinality(U) - 1
    <2>1. U \in SUBSET Nat /\ U \in SUBSET (1..N)
      OBVIOUS
    <2>2. PICK k \in U : \A n \in U : k <= n
      BY <1>2, <2>1, LeastOf
    <2>3. Cardinality(U \ {k}) = Cardinality(U) - 1
      BY <2>1, RunsFinite, FS_RemoveElement
    <2> QED BY <2>2, <2>3
  <1>3. T # {}
    <2>1. S # {}
      BY <1>0, FS_EmptySet
    <2>2. PICK k \in S : /\ \A n \in S : k <= n
                         /\ Cardinality(S \ {k}) = Cardinality(S) - 1
      BY <1>2, <2>1
    <2>3. above(k) = S \ {k}
      <3>1. \A m \in S : m > k <=> m # k
        BY <1>0, <2>2
      <3> QED BY <3>1
    <2>4. Cardinality(S) \in Nat
      BY RunsFinite
    <2>5. Cardinality(above(k)) >= Threshold - 1
      <3> HIDE DEF above
      <3> QED BY <1>0, <2>2, <2>3, <2>4
    <2>6. k \in T
      <3> HIDE DEF above
      <3> QED BY <2>5
    <2> QED BY <2>6
  <1>4. T \in SUBSET (1..N)
    OBVIOUS
  <1> DEFINE n == Newest(T)
  <1>5. n \in T /\ \A m \in T : m <= n
    <2> HIDE DEF T
    <2> QED BY <1>3, <1>4, NewestIsGreatest
  <1>6. n \in S /\ Cardinality(above(n)) >= Threshold - 1
    BY <1>5
  <1> HIDE DEF n
  <1>7. Cardinality(above(n)) = Threshold - 1
    <2>1. CASE above(n) = {}
      <3> HIDE DEF above
      <3> QED BY <1>0, <1>6, <2>1, FS_EmptySet
    <2>2. CASE above(n) # {}
      <3>1. above(n) \in SUBSET S
        OBVIOUS
      <3>2. PICK k \in above(n) :
              /\ \A m \in above(n) : k <= m
              /\ Cardinality(above(n) \ {k}) = Cardinality(above(n)) - 1
        <4> HIDE DEF above
        <4> QED BY <1>2, <2>2, <3>1
      <3>3. k \in S /\ k > n /\ above(k) = above(n) \ {k}
        <4>1. k \in S /\ k > n /\ \A m \in S : m > n => k <= m
          BY <3>2
        <4>2. n \in Nat /\ k \in Nat
          BY <1>0, <1>6, <4>1
        <4>3. \A m \in S : m > k <=> m > n /\ m # k
          BY <1>0, <4>1, <4>2
        <4> QED BY <4>1, <4>3
      <3>4. k \notin T
        BY <1>4, <1>5, <3>3
      <3>5. ~(Cardinality(above(k)) >= Threshold - 1)
        BY <3>3, <3>4
      <3> HIDE DEF above
      <3> QED BY <1>0, <1>1, <1>6, <3>2, <3>3, <3>5
    <2> QED BY <2>1, <2>2
  <1>8. \E x \in S : Cardinality({m \in S : m > x}) = Threshold - 1
    BY <1>6, <1>7
  <1> QED BY <1>8 DEF Cutoff

\* An asset last seen before the cutoff has Threshold newer runs.
LEMMA CutoffCounts ==
  ASSUME NEW N \in Nat, NEW S \in SUBSET (1..N), Cardinality(S) >= Threshold,
         NEW at \in Nat, at < Cutoff(S)
  PROVE  Cardinality({n \in S : n > at}) >= Threshold
  <1> DEFINE c == Cutoff(S)
             newer == {n \in S : n > at}
             above == {m \in S : m > c}
  <1>1. c \in S /\ Cardinality(above) = Threshold - 1 /\ at < c
    BY CutoffExists
  <1> HIDE DEF c
  <1>2. above \cup {c} \subseteq newer /\ c \notin above
    <2>1. c \in Nat /\ \A m \in S : m \in Nat
      BY <1>1
    <2>2. ~(c > c) /\ c > at /\ \A m \in S : m > c => m > at
      BY <1>1, <2>1
    <2> QED BY <1>1, <2>2
  <1>3. newer \in SUBSET (1..N) /\ above \in SUBSET (1..N)
    OBVIOUS
  <1> HIDE DEF newer, above
  <1>4. IsFiniteSet(newer) /\ IsFiniteSet(above)
        /\ Cardinality(newer) \in Nat /\ Cardinality(above) \in Nat
    BY <1>3, RunsFinite
  <1>5. Cardinality(above \cup {c}) = Cardinality(above) + 1
    BY <1>2, <1>4, FS_AddElement
  <1>6. Cardinality(above \cup {c}) <= Cardinality(newer)
    BY <1>2, <1>4, FS_Subset
  <1>7. Cardinality(newer) >= Threshold
    BY <1>1, <1>4, <1>5, <1>6, ParametersAssumption
  <1> QED BY <1>7 DEF newer

\* Without overlap the job that steps is the only one open.
LEMMA AloneThere ==
  ASSUME CalmInv, ~overlapped, NEW j \in Jobs, ~Idle(j)
  PROVE  \A i \in Jobs \ {j} : Idle(i)
  BY DEF CalmInv

\* A step that leaves the rows alone and whose record stays calm.
LEMMA CalmStep ==
  ASSUME IInv, CalmInv, NEW j \in Jobs, NEW d, job' = [job EXCEPT ![j] = d],
         UNCHANGED <<runs, lastSeen, active, overlapped>>, ~Idle(j),
         ~overlapped => Calm(d)
  PROVE  CalmInv'
  <1> SUFFICES ASSUME ~overlapped
               PROVE  (/\ \A i, k \in Jobs : i # k => Idle(i) \/ Idle(k)
                       /\ Consecutive
                       /\ \A i \in Jobs : Calm(job[i])
                       /\ DecayIsEarned)'
    BY DEF CalmInv
  <1>1. /\ job \in [Jobs -> JobState]
        /\ \A i \in Jobs : job'[i] = IF i = j THEN d ELSE job[i]
    BY DEF IInv, TypeOK
  <1>2. Completed' = Completed
    BY DEF Completed
  <1>3. \A i \in Jobs \ {j} : Idle(i)'
    BY <1>1, AloneThere DEF Idle
  <1>4. Consecutive' /\ DecayIsEarned'
    BY <1>2 DEF CalmInv, Consecutive, DecayIsEarned
  <1>5. ASSUME NEW i \in Jobs
        PROVE  Calm(job[i])'
    <2>1. Calm(job'[i])
      BY <1>1 DEF CalmInv
    <2> QED BY <1>2, <2>1 DEF Calm, Aware, Truthful, Merited, Due, SeenIn, Working
  <1> QED BY <1>3, <1>4, <1>5

LEMMA BeginCalm ==
  ASSUME IInv, CalmInv, NEW j \in Jobs, NEW k \in Kinds, Begin(j, k)
  PROVE  CalmInv'
  <1> SUFFICES ASSUME ~overlapped'
               PROVE  (/\ \A i, m \in Jobs : i # m => Idle(i) \/ Idle(m)
                       /\ Consecutive
                       /\ \A i \in Jobs : Calm(job[i])
                       /\ DecayIsEarned)'
    BY DEF CalmInv
  <1>1. /\ ~overlapped /\ \A i \in Jobs : Idle(i)
        /\ UNCHANGED <<runs, lastSeen, active>>
    BY DEF Begin
  <1>2. PICK seeds \in IF k = "ingest" THEN {{}} ELSE SeedSets :
          job' = [job EXCEPT ![j] = [Closed EXCEPT !.phase = "begun", !.kind = k,
                                       !.seeds = seeds,
                                       !.prev = IF k = "scan" THEN Latest ELSE 0]]
    BY DEF Begin
  <1> DEFINE prev == IF k = "scan" THEN Latest ELSE 0
             d == [Closed EXCEPT !.phase = "begun", !.kind = k, !.seeds = seeds,
                                 !.prev = prev]
  <1> HIDE DEF prev
  <1>3. /\ d.phase = "begun" /\ d.kind = k /\ d.prev = prev
        /\ d.loaded = Nothing /\ d.pending = {} /\ d.retired = {}
        /\ d.seenAt = [a \in Assets |-> 0]
    BY DEF Closed
  <1>4. \A i \in Jobs : job'[i] = IF i = j THEN d ELSE job[i]
    BY <1>2 DEF IInv, TypeOK, prev
  <1>5. Completed' = Completed
    BY <1>1 DEF Completed
  <1>6. \A m \in Completed : m <= Latest
    BY LatestIsNewest DEF IInv
  <1> HIDE DEF d
  <1>7. Aware(d)
    BY <1>3, <1>6 DEF Aware, Working, prev
  <1>8. Truthful(d) /\ Merited(d)
    BY <1>3 DEF Truthful, Merited, Nothing
  <1>9. Calm(d)
    BY <1>3, <1>7, <1>8 DEF Calm
  <1>10. Consecutive' /\ DecayIsEarned'
    BY <1>1, <1>5 DEF CalmInv, Consecutive, DecayIsEarned
  <1>11. \A i \in Jobs \ {j} : Idle(i)'
    BY <1>1, <1>4 DEF Idle
  <1>12. ASSUME NEW i \in Jobs
         PROVE  Calm(job[i])'
    <2>1. Calm(job'[i])
      BY <1>1, <1>4, <1>9 DEF CalmInv
    <2> QED BY <1>1, <1>5, <2>1 DEF Calm, Aware, Truthful, Merited, Due, SeenIn, Working
  <1> QED BY <1>10, <1>11, <1>12

LEMMA LoadCalm ==
  ASSUME IInv, CalmInv, NEW j \in Jobs, NEW a \in Assets, NEW o \in Observable[a],
         Load(j, a, o)
  PROVE  CalmInv'
  <1> DEFINE d == job[j]
             known == IF a \in DOMAIN d.loaded THEN d.loaded[a] ELSE active[a]
             pending == {[asset |-> a, at |-> Len(runs),
                          exists |-> lastSeen[a] > 0 \/ a \in DOMAIN d.loaded]}
             loaded == [b \in DOMAIN d.loaded \cup {a} |->
                          IF b = a THEN known ELSE d.loaded[b]]
             found == IF d.kind # "scan" \/ a \in DOMAIN d.found THEN d.found
                      ELSE [b \in DOMAIN d.found \cup {a} |->
                              IF b = a THEN o ELSE d.found[b]]
             e == [d EXCEPT !.pending = pending, !.loaded = loaded, !.found = found]
  <1>1. d \in JobState /\ job \in [Jobs -> JobState] /\ d.phase = "observing"
    BY DEF IInv, TypeOK, Load, MayFind
  <1>2. /\ DOMAIN loaded = DOMAIN d.loaded \cup {a}
        /\ \A b \in DOMAIN loaded : loaded[b] = IF b = a THEN known ELSE d.loaded[b]
        /\ \A p \in pending : p.asset = a
    OBVIOUS
  <1>3. job' = [job EXCEPT ![j] = e] /\ UNCHANGED <<runs, lastSeen, active, overlapped>>
    BY <1>1 DEF Load
  <1> HIDE DEF pending, loaded, found
  <1>4. /\ e.phase = "observing" /\ e.kind = d.kind /\ e.prev = d.prev /\ e.run = d.run
        /\ e.pending = pending /\ e.loaded = loaded /\ e.retired = d.retired
        /\ e.seenAt = d.seenAt /\ e.reactivates = d.reactivates
    BY <1>1 DEF JobState
  <1> HIDE DEF e
  <1>5. ASSUME ~overlapped
        PROVE  Calm(e)
    <2>1. Aware(d) /\ Truthful(d) /\ Merited(d)
      BY <1>1, <1>5 DEF CalmInv, Calm, Working
    <2>2. Aware(e) /\ Merited(e)
      BY <1>1, <1>4, <2>1 DEF Aware, Merited, Working
    <2>3. Truthful(e)
      BY <1>2, <1>4, <2>1 DEF Truthful
    <2> QED BY <1>4, <2>2, <2>3 DEF Calm
  <1>6. ~Idle(j)
    BY <1>1 DEF Idle
  <1> QED BY <1>3, <1>5, <1>6, CalmStep

LEMMA TouchCalm ==
  ASSUME IInv, CalmInv, NEW j \in Jobs, Touch(j), ~overlapped
  PROVE  CalmInv'
  <1> DEFINE d == job[j]
  <1>1. d \in JobState /\ job \in [Jobs -> JobState] /\ d.phase = "observing"
    BY DEF IInv, TypeOK, Touch, CalmInv, Calm
  <1>2. PICK p \in d.pending :
          /\ p.exists \/ lastSeen[p.asset] = 0
          /\ job' = [job EXCEPT
               ![j].pending = {},
               ![j].seenAt[p.asset] = p.at,
               ![j].reactivates = IF p.exists /\ ~job[j].loaded[p.asset]
                                    THEN @ \cup {p.asset} ELSE @,
               ![j].loaded[p.asset] = TRUE]
          /\ UNCHANGED <<runs, lastSeen, active, overlapped>>
    BY DEF Touch
  <1> DEFINE seenAt == [d.seenAt EXCEPT ![p.asset] = p.at]
             woken == IF p.exists /\ ~d.loaded[p.asset]
                        THEN d.reactivates \cup {p.asset} ELSE d.reactivates
             loaded == [d.loaded EXCEPT ![p.asset] = TRUE]
             e == [d EXCEPT !.pending = {}, !.seenAt = seenAt,
                            !.reactivates = woken, !.loaded = loaded]
  <1>3. Aware(d) /\ Truthful(d) /\ Merited(d)
    BY <1>1 DEF CalmInv, Calm, Working
  <1>4. p.asset \in DOMAIN d.loaded
    BY <1>3 DEF Truthful
  <1>5. /\ \A a \in Assets : a # p.asset => seenAt[a] = d.seenAt[a]
        /\ DOMAIN loaded = DOMAIN d.loaded /\ loaded[p.asset]
        /\ \A a \in DOMAIN loaded : a # p.asset => loaded[a] = d.loaded[a]
    BY <1>1, <1>4 DEF JobState
  <1>6. d.loaded[p.asset] \/ p.asset \in woken \/ lastSeen[p.asset] = 0
    BY <1>2
  <1>7. d.reactivates \subseteq woken
    OBVIOUS
  <1>8. job' = [job EXCEPT ![j] = e]
    BY <1>1, <1>2
  <1> HIDE DEF seenAt, woken, loaded
  <1>9. /\ e.phase = "observing" /\ e.kind = d.kind /\ e.prev = d.prev /\ e.run = d.run
        /\ e.pending = {} /\ e.loaded = loaded /\ e.retired = d.retired
        /\ e.seenAt = seenAt /\ e.reactivates = woken
    BY <1>1 DEF JobState
  <1> HIDE DEF e
  <1>10. Aware(e) /\ Merited(e)
    BY <1>1, <1>3, <1>9 DEF Aware, Merited, Working
  <1>11. Truthful(e)
    BY <1>3, <1>4, <1>5, <1>6, <1>7, <1>9 DEF Truthful
  <1>12. Calm(e) /\ ~Idle(j)
    BY <1>1, <1>9, <1>10, <1>11 DEF Calm, Idle
  <1> QED BY <1>2, <1>8, <1>12, CalmStep

LEMMA ReadStaleCalm ==
  ASSUME IInv, CalmInv, NEW j \in Jobs, ReadStale(j)
  PROVE  CalmInv'
  <1> DEFINE d == job[j]
             recent == Completed \cup {d.run}
             stale == {a \in Assets :
                         /\ Cardinality(recent) >= Threshold
                         /\ SeenBy(j, a) > 0 /\ ActiveTo(j, a)
                         /\ SeenBy(j, a) < Cutoff(recent)}
             e == [d EXCEPT !.phase = "decaying", !.stale = stale]
  <1>1. /\ d \in JobState /\ job \in [Jobs -> JobState] /\ d.phase = "observing"
        /\ d.pending = {} /\ d.kind = "scan"
    BY DEF IInv, TypeOK, ReadStale
  <1>2. job' = [job EXCEPT ![j] = e] /\ UNCHANGED <<runs, lastSeen, active, overlapped>>
    BY <1>1 DEF ReadStale
  <1>3. recent \in SUBSET (1..Len(runs)) /\ Len(runs) \in Nat
    BY <1>1, CompletedType DEF IInv, JobsSound, RecordSound, Working
  <1>4. ASSUME NEW a \in stale
        PROVE  Due(d, a)
    <2>1. a \in Assets /\ Cardinality(recent) >= Threshold /\ SeenBy(j, a) < Cutoff(recent)
      BY <1>4
    <2>2. SeenBy(j, a) = SeenIn(d, a)
      BY DEF SeenBy, SeenIn
    <2>3. SeenBy(j, a) \in Nat
      BY <1>1, <2>1 DEF SeenBy, IInv, TypeOK, JobState
    <2> HIDE DEF recent
    <2>4. Cardinality({n \in recent : n > SeenBy(j, a)}) >= Threshold
      BY <1>3, <2>1, <2>3, CutoffCounts
    <2> QED BY <2>2, <2>4 DEF Due, recent
  <1> HIDE DEF stale
  <1>5. /\ e.phase = "decaying" /\ e.kind = d.kind /\ e.prev = d.prev /\ e.run = d.run
        /\ e.pending = {} /\ e.loaded = d.loaded /\ e.retired = d.retired
        /\ e.seenAt = d.seenAt /\ e.reactivates = d.reactivates /\ e.stale = stale
    BY <1>1 DEF JobState
  <1> HIDE DEF e
  <1>6. ASSUME ~overlapped
        PROVE  Calm(e)
    <2>1. Aware(d) /\ Truthful(d) /\ Merited(d)
      BY <1>1, <1>6 DEF CalmInv, Calm, Working
    <2>2. Aware(e) /\ Truthful(e)
      BY <1>1, <1>5, <2>1 DEF Aware, Truthful, Working
    <2>3. e.stale \cup e.retired = stale
      BY <1>1, <1>5, <2>1 DEF Merited
    <2>4. \A a : Due(d, a) => Due(e, a)
      BY <1>5 DEF Due, SeenIn
    <2>5. Merited(e)
      BY <1>1, <1>4, <1>5, <2>3, <2>4 DEF Merited
    <2> QED BY <1>5, <2>2, <2>5 DEF Calm
  <1>7. ~Idle(j)
    BY <1>1 DEF Idle
  <1> QED BY <1>2, <1>6, <1>7, CalmStep

LEMMA MarkInactiveCalm ==
  ASSUME IInv, CalmInv, NEW j \in Jobs, NEW a \in Assets, MarkInactive(j, a)
  PROVE  CalmInv'
  <1> DEFINE d == job[j]
             stale == d.stale \ {a}
             retired == d.retired \cup {a}
             e == [d EXCEPT !.stale = stale, !.retired = retired]
  <1>1. /\ d \in JobState /\ job \in [Jobs -> JobState] /\ d.phase = "decaying"
        /\ a \in d.stale
    BY DEF IInv, TypeOK, MarkInactive
  <1>2. job' = [job EXCEPT ![j] = e] /\ UNCHANGED <<runs, lastSeen, active, overlapped>>
    BY <1>1 DEF MarkInactive
  <1>3. stale \cup retired = d.stale \cup d.retired
    BY <1>1
  <1> HIDE DEF stale, retired
  <1>4. /\ e.phase = "decaying" /\ e.kind = d.kind /\ e.prev = d.prev /\ e.run = d.run
        /\ e.pending = d.pending /\ e.loaded = d.loaded /\ e.retired = retired
        /\ e.seenAt = d.seenAt /\ e.reactivates = d.reactivates /\ e.stale = stale
    BY <1>1 DEF JobState
  <1> HIDE DEF e
  <1>5. ASSUME ~overlapped
        PROVE  Calm(e)
    <2>1. Aware(d) /\ Truthful(d) /\ Merited(d) /\ d.pending = {}
      BY <1>1, <1>5 DEF CalmInv, Calm, Working
    <2>2. Aware(e) /\ Truthful(e)
      BY <1>1, <1>4, <2>1 DEF Aware, Truthful, Working
    <2>3. \A b : Due(d, b) => Due(e, b)
      BY <1>4 DEF Due, SeenIn
    <2>4. Merited(e)
      BY <1>1, <1>3, <1>4, <2>1, <2>3 DEF Merited
    <2> QED BY <1>4, <2>1, <2>2, <2>4 DEF Calm
  <1>6. ~Idle(j)
    BY <1>1 DEF Idle
  <1> QED BY <1>2, <1>5, <1>6, CalmStep

LEMMA AbortCalm ==
  ASSUME IInv, CalmInv, NEW j \in Jobs, Abort(j)
  PROVE  CalmInv'
  <1>1. Calm(Closed)
    BY DEF Calm, Closed, Working
  <1>2. /\ job' = [job EXCEPT ![j] = Closed] /\ ~Idle(j)
        /\ UNCHANGED <<runs, lastSeen, active, overlapped>>
    BY DEF Abort
  <1> QED BY <1>1, <1>2, CalmStep

\* A step of the only open job that writes rows: what has to be shown is what
\* it makes of the rows and of its own record.
LEMMA WriteCalm ==
  ASSUME IInv, CalmInv, NEW j \in Jobs, NEW d, job' = [job EXCEPT ![j] = d],
         overlapped' = overlapped, ~Idle(j),
         ~overlapped => Consecutive' /\ DecayIsEarned' /\ Calm(job[j])'
  PROVE  CalmInv'
  <1> SUFFICES ASSUME ~overlapped
               PROVE  (/\ \A i, k \in Jobs : i # k => Idle(i) \/ Idle(k)
                       /\ Consecutive
                       /\ \A i \in Jobs : Calm(job[i])
                       /\ DecayIsEarned)'
    BY DEF CalmInv
  <1>1. \A i \in Jobs \ {j} : job'[i] = job[i] /\ Idle(i)
    BY AloneThere DEF IInv, TypeOK
  <1>2. \A i \in Jobs \ {j} : Idle(i)'
    BY <1>1 DEF Idle
  <1>3. ASSUME NEW i \in Jobs \ {j}
        PROVE  Calm(job[i])'
    <2>1. job'[i].phase = "idle" /\ job'[i].pending = {}
      BY <1>1 DEF Idle, CalmInv, Calm
    <2> QED BY <2>1 DEF Calm, Working
  <1>4. Calm(job[j])'
    OBVIOUS
  <1> QED BY <1>2, <1>3, <1>4

LEMMA OpenCalm ==
  ASSUME IInv, CalmInv, NEW j \in Jobs, Open(j)
  PROVE  CalmInv'
  <1> DEFINE d == job[j]
             M == Len(runs) + 1
             e == [d EXCEPT !.phase = "observing", !.run = M]
  <1>1. /\ d \in JobState /\ job \in [Jobs -> JobState] /\ d.phase = "begun"
        /\ runs \in Seq(Run) /\ Len(runs) \in Nat
    BY DEF IInv, TypeOK, Open
  <1>2. job' = [job EXCEPT ![j] = e] /\ runs' = Append(runs, Unpublished)
        /\ UNCHANGED <<lastSeen, active, overlapped>>
    BY <1>1 DEF Open
  <1>3. /\ DOMAIN runs' = 1..M /\ Len(runs') = M /\ runs'[M] = Unpublished
        /\ \A n \in DOMAIN runs : n \in DOMAIN runs' /\ runs'[n] = runs[n]
    BY <1>1, <1>2, UnpublishedType, AppendProperties, LenProperties
  <1>4. Completed' = Completed
    <2>1. \A n \in DOMAIN runs' : n \in DOMAIN runs \/ n = M
      BY <1>1, <1>3, CompletedType DEF IInv
    <2> QED BY <1>3, <2>1, UnpublishedType DEF Completed
  <1> HIDE DEF M
  <1>5. /\ e.phase = "observing" /\ e.kind = d.kind /\ e.prev = d.prev /\ e.run = M
        /\ e.pending = d.pending /\ e.loaded = d.loaded /\ e.retired = d.retired
        /\ e.seenAt = d.seenAt /\ e.reactivates = d.reactivates
    BY <1>1 DEF JobState
  <1>6. job'[j] = e
    BY <1>1, <1>2
  <1> HIDE DEF e
  <1>7. ASSUME ~overlapped
        PROVE  Consecutive' /\ DecayIsEarned' /\ Calm(job[j])'
    <2>1. Consecutive' /\ DecayIsEarned'
      BY <1>2, <1>3, <1>4, <1>7 DEF CalmInv, Consecutive, DecayIsEarned, Completed
    <2>2. Aware(d) /\ Truthful(d) /\ Merited(d)
      BY <1>1, <1>7 DEF CalmInv, Calm
    <2>3. Aware(job[j])'
      BY <1>3, <1>4, <1>5, <1>6, <2>2 DEF Aware
    <2>4. Truthful(job[j])' /\ Merited(job[j])'
      BY <1>1, <1>2, <1>5, <1>6, <2>2 DEF Truthful, Merited
    <2> QED BY <1>5, <1>6, <2>1, <2>3, <2>4 DEF Calm
  <1>8. ~Idle(j)
    BY <1>1 DEF Idle
  <1> QED BY <1>2, <1>7, <1>8, WriteCalm

\* An asset that ends a commit inactive was due when it was retired, or was
\* inactive and not seen, and is as far behind as before.
LEMMA CommitDecay ==
  ASSUME IInv, CalmInv, ~overlapped, NEW j \in Jobs, Working(job[j]), Publish(j),
         Completed' = Completed \cup {job[j].run}
  PROVE  DecayIsEarned'
  <1> DEFINE d == job[j]
  <1>1. d \in JobState /\ TypeOK
    BY DEF IInv, TypeOK
  <1>2. Truthful(d) /\ Merited(d) /\ DecayIsEarned
    BY DEF CalmInv, Calm
  <1>3. Completed' \in SUBSET (1..Len(runs)) /\ Len(runs) \in Nat
    BY <1>1, CompletedType DEF IInv, JobsSound, RecordSound
  <1> SUFFICES ASSUME NEW a \in Assets, lastSeen'[a] > 0, ~active'[a]
               PROVE  Cardinality({n \in Completed' : n > lastSeen'[a]}) >= Threshold
    BY DEF DecayIsEarned
  <1>4. lastSeen'[a] = SeenIn(d, a)
    BY DEF Publish, SeenBy, SeenIn
  <1>5. CASE a \in d.retired
    <2>1. Due(d, a)
      BY <1>2, <1>5 DEF Merited
    <2> QED BY <1>4, <2>1 DEF Due
  <1>6. CASE a \notin d.retired
    <2>1. ~active[a] /\ a \notin d.reactivates /\ ~(d.seenAt[a] > 0 /\ lastSeen[a] = 0)
      BY <1>6 DEF Publish, ActiveTo
    <2>2. ~(d.seenAt[a] > 0)
      BY <1>2, <2>1 DEF Truthful
    <2>3. lastSeen'[a] = lastSeen[a]
      BY <1>4, <2>2 DEF SeenIn
    <2>4. Cardinality({n \in Completed : n > lastSeen[a]}) >= Threshold
      BY <1>2, <2>1, <2>3 DEF DecayIsEarned
    <2> DEFINE old == {n \in Completed : n > lastSeen[a]}
               new == {n \in Completed' : n > lastSeen[a]}
    <2>5. old \subseteq new /\ new \in SUBSET (1..Len(runs))
          /\ old \in SUBSET (1..Len(runs))
      BY <1>3
    <2> HIDE DEF old, new
    <2>6. IsFiniteSet(new) /\ Cardinality(new) \in Nat /\ Cardinality(old) \in Nat
      BY <1>3, <2>5, RunsFinite
    <2>7. Cardinality(old) <= Cardinality(new)
      BY <2>5, <2>6, FS_Subset
    <2>8. Cardinality(old) >= Threshold
      BY <2>4 DEF old
    <2>9. Cardinality(new) >= Threshold
      BY <2>6, <2>7, <2>8, ParametersAssumption
    <2> QED BY <2>3, <2>9 DEF new
  <1> QED BY <1>5, <1>6

LEMMA CommitCalm ==
  ASSUME IInv, CalmInv, NEW j \in Jobs, Working(job[j]), NEW row,
         runs' = [runs EXCEPT ![job[j].run] = row],
         NEW d, job' = [job EXCEPT ![j] = d], Calm(d), ~Working(d), d.phase # "begun",
         Publish(j), overlapped' = overlapped,
         row.completed,
         ~overlapped /\ row.kind = "scan" =>
           row.prev = job[j].prev /\ job[j].kind = "scan"
  PROVE  CalmInv'
  <1> DEFINE m == job[j].run
  <1>1. TypeOK /\ job[j] \in JobState /\ job \in [Jobs -> JobState] /\ runs \in Seq(Run)
    BY DEF IInv, TypeOK
  <1>2. m \in DOMAIN runs /\ m \notin Completed
    BY DEF IInv, JobsSound, RecordSound, Completed
  <1>3. /\ DOMAIN runs' = DOMAIN runs /\ runs'[m] = row
        /\ \A n \in DOMAIN runs : n # m => runs'[n] = runs[n]
    BY <1>1, <1>2
  <1>4. Completed' = Completed \cup {m}
    BY <1>2, <1>3 DEF Completed
  <1>5. ASSUME ~overlapped
        PROVE  Consecutive' /\ DecayIsEarned' /\ Calm(job[j])'
    <2>1. Aware(job[j]) /\ Consecutive
      BY <1>5 DEF CalmInv, Calm
    <2>2. m = Len(runs) /\ Len(runs) \in Nat /\ Completed \subseteq 1..Len(runs)
      BY <1>1, <2>1, CompletedType DEF Aware
    <2>3. ASSUME NEW n \in Completed', runs'[n].kind = "scan", NEW k \in Completed', k < n
          PROVE  k <= runs'[n].prev
      <3>1. k # m /\ k \in Completed
        BY <1>4, <2>2, <2>3
      <3>2. CASE n = m
        BY <1>3, <1>5, <2>1, <2>3, <3>1, <3>2 DEF Aware
      <3>3. CASE n # m
        BY <1>3, <1>4, <2>1, <2>3, <3>1, <3>3 DEF Consecutive, Completed
      <3> QED BY <3>2, <3>3
    <2>4. Consecutive'
      BY <2>3 DEF Consecutive
    <2>5. DecayIsEarned'
      BY <1>4, <1>5, CommitDecay
    <2>6. Calm(job[j])'
      <3>1. job'[j] = d
        BY <1>1
      <3> QED BY <3>1 DEF Calm, Working
    <2> QED BY <2>4, <2>5, <2>6
  <1>6. ~Idle(j)
    BY DEF Working, Idle
  <1> QED BY <1>5, <1>6, WriteCalm

LEMMA CommitsCalm ==
  ASSUME IInv, CalmInv, NEW j \in Jobs, CommitScan(j) \/ CommitOther(j)
  PROVE  CalmInv'
  <1>0. Working(job[j]) /\ job[j] \in JobState
    BY DEF CommitScan, CommitOther, Working, IInv, TypeOK
  <1>1. CASE CommitScan(j)
    <2> DEFINE row == [Unpublished EXCEPT !.completed = TRUE, !.prev = job[j].prev,
                         !.snapshot = SnapshotOf(j),
                         !.events = Diff(Before(j), SnapshotOf(j))]
               d == [Closed EXCEPT !.phase = "chaining", !.run = job[j].run]
    <2>1. row.completed /\ row.prev = job[j].prev
      BY DEF Unpublished
    <2>2. d.phase = "chaining" /\ d.pending = {}
      BY DEF Closed
    <2>3. /\ runs' = [runs EXCEPT ![job[j].run] = row] /\ job' = [job EXCEPT ![j] = d]
          /\ Publish(j) /\ overlapped' = overlapped
      BY <1>1 DEF CommitScan
    <2> HIDE DEF row, d
    <2>4. Calm(d) /\ ~Working(d) /\ d.phase # "begun"
      BY <2>2 DEF Calm, Working
    <2>5. ~overlapped => job[j].kind = "scan"
      BY <1>0, <1>1 DEF CommitScan, CalmInv, Calm, Merited
    <2> QED BY <1>0, <2>1, <2>3, <2>4, <2>5, CommitCalm
  <1>2. CASE CommitOther(j)
    <2> DEFINE row == [Unpublished EXCEPT !.kind = job[j].kind, !.completed = TRUE]
    <2>1. row.completed /\ row.kind = job[j].kind /\ job[j].kind # "scan"
      BY <1>2 DEF Unpublished, CommitOther
    <2>2. /\ runs' = [runs EXCEPT ![job[j].run] = row] /\ job' = [job EXCEPT ![j] = Closed]
          /\ Publish(j) /\ overlapped' = overlapped
      BY <1>2 DEF CommitOther
    <2>3. Calm(Closed) /\ ~Working(Closed) /\ Closed.phase # "begun"
      BY DEF Calm, Working, Closed
    <2> HIDE DEF row
    <2> QED BY <1>0, <2>1, <2>2, <2>3, CommitCalm
  <1> QED BY <1>1, <1>2

LEMMA ChainCalm ==
  ASSUME IInv, CalmInv, NEW j \in Jobs, Chain(j)
  PROVE  CalmInv'
  <1> DEFINE m == job[j].run
             row == [runs[m] EXCEPT !.chained = Latest]
  <1>1. TypeOK /\ job[j] \in JobState /\ job \in [Jobs -> JobState] /\ ~Idle(j)
    BY DEF IInv, TypeOK, Chain, Idle
  <1>2. m \in Completed /\ m \in DOMAIN runs /\ runs[m] \in Run
    BY <1>1, CompletedType DEF IInv, JobsSound, RecordSound, Chain, Completed
  <1>3. /\ row.kind = runs[m].kind /\ row.completed = runs[m].completed
        /\ row.prev = runs[m].prev
    BY <1>2 DEF Run
  <1>4. /\ runs' = [runs EXCEPT ![m] = row] /\ job' = [job EXCEPT ![j] = Closed]
        /\ UNCHANGED <<lastSeen, active, overlapped>>
    BY <1>1, <1>2 DEF Chain
  <1> HIDE DEF row
  <1>5. DOMAIN runs' = DOMAIN runs /\ \A n \in DOMAIN runs :
          runs'[n].kind = runs[n].kind /\ runs'[n].completed = runs[n].completed
          /\ runs'[n].prev = runs[n].prev
    BY <1>2, <1>3, <1>4
  <1>6. Completed' = Completed
    BY <1>5 DEF Completed
  <1>7. ASSUME ~overlapped
        PROVE  Consecutive' /\ DecayIsEarned' /\ Calm(job[j])'
    <2>1. Consecutive' /\ DecayIsEarned'
      BY <1>4, <1>5, <1>6, <1>7 DEF CalmInv, Consecutive, DecayIsEarned, Completed
    <2>2. job'[j] = Closed
      BY <1>1, <1>4
    <2>3. Calm(job[j])'
      BY <2>2 DEF Calm, Closed, Working
    <2> QED BY <2>1, <2>3
  <1> QED BY <1>1, <1>4, <1>7, WriteCalm

LEMMA NextCalm ==
  ASSUME IInv, CalmInv, [Next]_vars
  PROVE  CalmInv'
  <1>1. CASE UNCHANGED vars
    BY <1>1 DEF vars, CalmInv, Idle, Consecutive, DecayIsEarned, Calm, Aware, Truthful,
                Merited, Due, SeenIn, Completed, Working
  <1>2. ASSUME NEW j \in Jobs, NEW k \in Kinds, Begin(j, k)
        PROVE  CalmInv'
    BY <1>2, BeginCalm
  <1>3. ASSUME NEW j \in Jobs, Step(j)
        PROVE  CalmInv'
    <2>1. CASE Open(j)
      BY <2>1, OpenCalm
    <2>2. CASE \E a \in Assets : \E o \in Observable[a] : Load(j, a, o)
      BY <2>2, LoadCalm
    <2>3. CASE Touch(j)
      <3>1. overlapped => CalmInv'
        BY <2>3 DEF Touch, CalmInv
      <3> QED BY <2>3, <3>1, TouchCalm
    <2>4. CASE ReadStale(j)
      BY <2>4, ReadStaleCalm
    <2>5. CASE \E a \in Assets : MarkInactive(j, a)
      BY <2>5, MarkInactiveCalm
    <2>6. CASE CommitScan(j) \/ CommitOther(j)
      BY <2>6, CommitsCalm
    <2>7. CASE Chain(j)
      BY <2>7, ChainCalm
    <2>8. CASE Abort(j)
      BY <2>8, AbortCalm
    <2> QED BY <1>3, <2>1, <2>2, <2>3, <2>4, <2>5, <2>6, <2>7, <2>8 DEF Step
  <1> QED BY <1>1, <1>2, <1>3 DEF Next

LEMMA AlwaysCalm == Spec => [](IInv /\ CalmInv)
  <1>1. Init => CalmInv
    <2> SUFFICES ASSUME Init PROVE CalmInv
      OBVIOUS
    <2>1. Completed = {} /\ \A j \in Jobs : job[j] = Closed
      BY EmptySeq DEF Init, Completed
    <2>2. Calm(Closed) /\ Closed.phase = "idle"
      BY DEF Calm, Closed, Working
    <2>3. DecayIsEarned /\ Consecutive
      BY <2>1 DEF Init, DecayIsEarned, Consecutive
    <2> QED BY <2>1, <2>2, <2>3 DEF CalmInv, Idle
  <1> QED BY <1>1, NextCalm, AlwaysIInv, PTL DEF Spec

\* Commands that do not overlap retire only assets that Threshold completed runs
\* have passed by (recon/decay.py), however ingest batches, dry runs and scans
\* alternate and abort.
THEOREM DecayIsAlwaysEarned == Spec => []DecayIsEarned
  <1>1. CalmInv => DecayIsEarned
    BY DEF CalmInv, DecayIsEarned
  <1> QED BY <1>1, AlwaysCalm, PTL

\* What a scan tells of one asset follows from the two snapshots' domains.
LEMMA ToldMeans ==
  ASSUME IInv, NEW n \in Completed, runs[n].kind = "scan", NEW a \in Assets
  PROVE  /\ Told(n, a, Appearances) => a \notin DOMAIN SnapshotBefore(n)
                                       /\ a \in DOMAIN runs[n].snapshot
         /\ a \in DOMAIN SnapshotBefore(n) \ DOMAIN runs[n].snapshot
              => Told(n, a, Departures)
  <1> DEFINE p == SnapshotBefore(n)
             q == runs[n].snapshot
  <1>1. runs[n].events = Diff(p, q)
    BY ToldOfDiff
  <1> HIDE DEF p, q
  <1>2. ASSUME Told(n, a, Appearances)
        PROVE  a \notin DOMAIN p /\ a \in DOMAIN q
    <2>1. a \in DOMAIN Diff(p, q) /\ Diff(p, q)[a] \in Appearances
      BY <1>1, <1>2 DEF Told
    <2>2. a \in DOMAIN p \cup DOMAIN q /\ Diff(p, q)[a] \in KindsOf(a, p, q)
      BY <2>1, DiffIsTold
    <2>3. Appearances \cap Departures = {}
      BY DEF Appearances, Departures
    <2>4. CASE a \in DOMAIN p /\ a \notin DOMAIN q
      <3>1. PICK k \in Departures : KindsOf(a, p, q) = {k}
        BY <2>4, KindsOfShape
      <3> QED BY <2>1, <2>2, <2>3, <3>1
    <2>5. CASE a \in DOMAIN p \cap DOMAIN q
      <3>1. KindsOf(a, p, q) \cap (Appearances \cup Departures) = {}
        BY <2>5, KindsOfShape
      <3> QED BY <2>1, <2>2, <3>1
    <2> QED BY <2>2, <2>4, <2>5
  <1>3. ASSUME a \in DOMAIN p \ DOMAIN q
        PROVE  Told(n, a, Departures)
    <2>1. PICK k \in Departures : KindsOf(a, p, q) = {k}
      BY <1>3, KindsOfShape
    <2>2. a \in DOMAIN Diff(p, q) /\ Diff(p, q)[a] = k
      BY <1>3, <2>1, DiffTells
    <2> QED BY <1>1, <2>1, <2>2 DEF Told
  <1> QED BY <1>2, <1>3 DEF p, q

\* Between two runs that tell an asset appeared, one tells it departed: the
\* first scan whose snapshot lacks it was compared with one that has it.
LEMMA AppearancesAlternate ==
  ASSUME IInv, CalmInv, ~overlapped, \A n \in Completed : runs[n].kind = "scan",
         NEW m \in Completed, NEW n \in Completed, NEW a \in Assets, m < n,
         Told(m, a, Appearances), Told(n, a, Appearances)
  PROVE  \E k \in m..n : Told(k, a, Departures)
  <1>0. /\ TypeOK /\ Consecutive /\ m \in Nat /\ n \in Nat
        /\ \A k \in Completed : k \in Nat /\ k > 0
    BY CompletedType DEF IInv, CalmInv
  <1> DEFINE H == {k \in Completed : a \in DOMAIN runs[k].snapshot}
             T == {k \in Completed : m <= k /\ k <= n /\ k \notin H}
  \* What run k was compared with is a run from m on.
  <1>1. ASSUME NEW k \in Completed, m < k
        PROVE  \E i \in Completed :
                 /\ m <= i /\ i < k
                 /\ i \in H <=> a \in DOMAIN SnapshotBefore(k)
    <2>1. m <= runs[k].prev
      BY <1>0, <1>1 DEF Consecutive
    <2>2. runs[k].prev \in Completed \cup {0} /\ runs[k].prev < k
      BY ToldOfDiff
    <2>3. runs[k].prev # 0
      BY <1>0, <2>1
    <2> QED BY <2>1, <2>2, <2>3 DEF SnapshotBefore
  <1>2. m \in H /\ a \notin DOMAIN SnapshotBefore(n)
    BY ToldMeans
  <1>3. T # {}
    <2>1. PICK i \in Completed : m <= i /\ i < n /\ i \notin H
      BY <1>1, <1>2
    <2>2. i \in T
      BY <1>0, <2>1
    <2> QED BY <2>2
  <1>4. T \in SUBSET Nat
    BY <1>0
  <1>5. PICK k \in T : \A i \in T : k <= i
    <2> HIDE DEF T
    <2> QED BY <1>3, <1>4, LeastOf
  <1>6. k \in Completed /\ m <= k /\ k <= n /\ k \notin H
    BY <1>5
  <1>7. m < k
    BY <1>0, <1>2, <1>6
  <1>8. PICK i \in Completed :
          /\ m <= i /\ i < k
          /\ i \in H <=> a \in DOMAIN SnapshotBefore(k)
    BY <1>1, <1>6, <1>7
  <1>9. i \notin T /\ i <= n
    BY <1>0, <1>5, <1>6, <1>8
  <1>10. i \in H
    BY <1>8, <1>9
  <1>11. a \in DOMAIN SnapshotBefore(k) \ DOMAIN runs[k].snapshot
    BY <1>6, <1>8, <1>10
  <1>12. Told(k, a, Departures)
    BY <1>6, <1>11, ToldMeans
  <1>13. k \in m..n
    BY <1>0, <1>6
  <1> QED BY <1>12, <1>13

\* As long as only scans run, one at a time, no appearance is told twice without
\* the departure between them, over histories of any length.
THEOREM FeedAlwaysAlternates == Spec => []FeedAlternates
  <1>1. IInv /\ CalmInv => FeedAlternates
    BY AppearancesAlternate DEF FeedAlternates
  <1> QED BY <1>1, AlwaysCalm, PTL

=============================================================================
