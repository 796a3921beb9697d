------------------------------ MODULE IngestProofs ------------------------------
(***************************************************************************)
(* Theorems about Ingest for every set of sources, overlapping imports,    *)
(* reports and org-contexts: what the database holds of what vendors       *)
(* recorded, that vendor rows and findings keep naming each other, and     *)
(* that only an import takes a finding from the worker's triage.           *)
(***************************************************************************)
EXTENDS Ingest, FiniteSetTheorems, NaturalsInduction, WellFoundedInduction, TLAPS

-----------------------------------------------------------------------------
(* What the invariants are made of *)

JobFields ==
    {"phase", "src", "org", "since", "todo", "read", "now", "run", "cut", "raws", "finds"}

\* What a source of a system may have imported into it.
Items(sys) == ParseAll(sys, {r \in Reportable[sys] : ~Raises(sys, r)})

FindingRow == [run : 1..opened, status : {"new", "triaged"}]

\* The finding an item is filed under, if any.
KeysOf(o, f) == IF CategoryOf(o, f) # Unmapped THEN {KeyOf(o, f)} ELSE {}

JobSound(j) ==
    /\ DOMAIN job[j] = JobFields
    /\ job[j].phase \in ImportPhases
    /\ job[j].org \in Orgs
    /\ job[j].phase # "idle" =>
           /\ job[j].src \in Sources
           /\ job[j].since \in 0..clock /\ job[j].read \in 0..clock /\ job[j].now \in 0..clock
           /\ job[j].todo \subseteq Items(system[job[j].src])
    /\ job[j].phase = "batch" => job[j].run \in 1..opened
    /\ job[j].phase # "batch" => DOMAIN job[j].raws = {} /\ DOMAIN job[j].finds = {}
    /\ \A k \in DOMAIN job[j].finds :
           job[j].finds[k] \in FindingRow /\ job[j].finds[k].run = job[j].run

ChainSound ==
    /\ DOMAIN chain = {"phase", "run", "saw", "known", "list"}
    /\ chain.phase \in ChainPhases /\ chain.run \in 0..opened
    /\ chain.phase = "scanned" => completed # {}

TypeInv ==
    /\ system \in [Sources -> Systems]
    /\ clock \in 0..MaxClock /\ edits \in 0..MaxEdits /\ opened \in 0..MaxRuns
    /\ org \in Orgs
    /\ DOMAIN reported = Sources
    /\ \A s \in Sources : reported[s] \subseteq [rec : Reportable[system[s]], at : 1..clock]
    /\ watermark \in [Sources -> 0..clock]
    /\ \A k \in DOMAIN findings : findings[k] \in FindingRow
    /\ completed \subseteq [id : 1..opened, trigger : {"ingest", "scan"}]
    /\ DOMAIN job = Jobs /\ \A j \in Jobs : JobSound(j)
    /\ ChainSound

-----------------------------------------------------------------------------
(* Type correctness *)

LEMMA Bounds ==
  /\ PageCap \in Nat \ {0} /\ MaxClock \in Nat /\ MaxRuns \in Nat /\ MaxEdits \in Nat
  /\ DOMAIN Reportable = Systems
  BY ParametersAssumption DEF ParametersAssumption

LEMMA IdleFields ==
  /\ DOMAIN Idle = JobFields /\ Idle.phase = "idle" /\ Idle.org = org /\ Idle.since = 0
  /\ Idle.todo = {} /\ Idle.read = 0 /\ Idle.now = 0 /\ Idle.run = 0 /\ Idle.cut = {}
  /\ DOMAIN Idle.raws = {} /\ DOMAIN Idle.finds = {}
  BY DEF Idle, JobFields, NoRows

\* Time and runs only grow, and a system is a source's for good.
Later ==
  /\ system' = system
  /\ clock \in Nat /\ clock' \in Nat /\ clock <= clock'
  /\ opened \in Nat /\ opened' \in Nat /\ opened <= opened'

LEMMA JobStays ==
  ASSUME Later, NEW i, JobSound(i), job'[i] = job[i]
  PROVE  JobSound(i)'
  <1>1. FindingRow \subseteq FindingRow'
    BY DEF Later, FindingRow
  <1> QED BY <1>1 DEF JobSound, Later

LEMMA IdleSound ==
  ASSUME Later, org \in Orgs, NEW i, job'[i] = Idle
  PROVE  JobSound(i)'
  BY IdleFields DEF JobSound, ImportPhases

\* Steps of one import leave the tables, the chain and the other imports alone.
LEMMA OneJob ==
  ASSUME TypeInv, NEW j \in Jobs, JobSound(j)',
         DOMAIN job' = Jobs, \A i \in Jobs \ {j} : job'[i] = job[i],
         UNCHANGED <<system, clock, edits, org, reported, watermark, findings, completed, chain>>,
         opened' \in {opened, opened + 1}, opened' <= MaxRuns
  PROVE  TypeInv'
  <1>1. Later /\ opened' \in 0..MaxRuns /\ FindingRow \subseteq FindingRow'
    BY Bounds DEF TypeInv, Later, FindingRow
  <1>2. \A i \in Jobs : JobSound(i)'
    BY <1>1, JobStays DEF TypeInv
  <1>3. ChainSound'
    BY <1>1 DEF TypeInv, ChainSound, Later
  <1> QED BY <1>1, <1>2, <1>3 DEF TypeInv, Later

LEMMA Numbers ==
  ASSUME TypeInv
  PROVE  /\ clock \in Nat /\ opened \in Nat /\ opened <= MaxRuns /\ edits \in Nat
         /\ DOMAIN job = Jobs
  BY Bounds DEF TypeInv

LEMMA BeginTypes ==
  ASSUME TypeInv, NEW j \in Jobs, NEW s \in Sources, BeginImport(j, s)
  PROVE  TypeInv'
  <1>1. PICK since \in Since(s) :
          job' = [job EXCEPT ![j] = [Idle EXCEPT !.phase = "fetch", !.src = s, !.since = since]]
    BY DEF BeginImport
  <1>2. since \in 0..clock
    <2>1. watermark[s] \in 0..clock /\ clock \in Nat
      BY Bounds DEF TypeInv
    <2> QED BY <2>1 DEF Since
  <1>3. /\ DOMAIN job'[j] = JobFields /\ job'[j].phase = "fetch" /\ job'[j].src = s
        /\ job'[j].since = since /\ job'[j].org = org /\ job'[j].read = 0 /\ job'[j].now = 0
        /\ job'[j].todo = {} /\ DOMAIN job'[j].raws = {} /\ DOMAIN job'[j].finds = {}
    BY <1>1, IdleFields DEF TypeInv, JobFields
  <1>4. JobSound(j)'
    BY <1>2, <1>3, Bounds DEF BeginImport, JobSound, TypeInv, ImportPhases
  <1> QED BY <1>1, <1>4, Numbers, OneJob DEF BeginImport

LEMMA FetchFields ==
  ASSUME TypeInv, NEW j \in Jobs, Fetch(j)
  PROVE  /\ job[j].phase = "fetch" /\ job[j].src \in Sources /\ DOMAIN job[j] = JobFields
         /\ DOMAIN job'[j] = JobFields
         /\ job'[j].phase = "open" /\ job'[j].src = job[j].src /\ job'[j].org = job[j].org
         /\ job'[j].since = job[j].since /\ job'[j].read = clock /\ job'[j].now = job[j].now
         /\ job'[j].raws = job[j].raws /\ job'[j].finds = job[j].finds
         /\ \E got \in SUBSET {e \in reported[job[j].src] : e.at > job[j].since} :
              /\ \A e \in got : ~Raises(system[job[j].src], e.rec)
              /\ job'[j].cut = {e \in reported[job[j].src] : e.at > job[j].since} \ got
              /\ job'[j].todo = ParseAll(system[job[j].src], {e.rec : e \in got})
  <1> DEFINE s == job[j].src
             matching == {e \in reported[s] : e.at > job[j].since}
  <1>1. job[j].phase = "fetch" /\ s \in Sources /\ DOMAIN job[j] = JobFields /\ DOMAIN job = Jobs
    BY DEF Fetch, TypeInv, JobSound
  <1>2. PICK got \in Reports(s, matching) :
          /\ \A e \in got : ~Raises(system[s], e.rec)
          /\ job' = [job EXCEPT ![j] = [@ EXCEPT
                        !.phase = "open", !.read = clock, !.cut = matching \ got,
                        !.todo = ParseAll(system[s], {e.rec : e \in got})]]
    BY DEF Fetch
  <1>3. got \in SUBSET matching
    <2>1. Pages(matching) \subseteq SUBSET matching /\ Exports(matching) \subseteq SUBSET matching
          /\ ToolReports(s, matching) \subseteq SUBSET matching
      BY DEF Pages, Exports, ToolReports
    <2> QED BY <1>2, <2>1 DEF Reports
  <1> HIDE DEF s, matching
  <1>4. /\ DOMAIN job'[j] = JobFields /\ job'[j].phase = "open" /\ job'[j].src = job[j].src
        /\ job'[j].org = job[j].org /\ job'[j].since = job[j].since /\ job'[j].read = clock
        /\ job'[j].now = job[j].now
        /\ job'[j].raws = job[j].raws /\ job'[j].finds = job[j].finds
        /\ job'[j].cut = matching \ got
        /\ job'[j].todo = ParseAll(system[s], {e.rec : e \in got})
    BY <1>1, <1>2 DEF JobFields
  <1> QED BY <1>1, <1>2, <1>3, <1>4 DEF s, matching

LEMMA FetchTypes ==
  ASSUME TypeInv, NEW j \in Jobs, Fetch(j)
  PROVE  TypeInv'
  <1>1. PICK got \in SUBSET {e \in reported[job[j].src] : e.at > job[j].since} :
          /\ \A e \in got : ~Raises(system[job[j].src], e.rec)
          /\ job'[j].todo = ParseAll(system[job[j].src], {e.rec : e \in got})
    BY FetchFields
  <1>2. job'[j].todo \subseteq Items(system[job[j].src])
    <2>1. {e.rec : e \in got} \subseteq
            {r \in Reportable[system[job[j].src]] : ~Raises(system[job[j].src], r)}
      BY <1>1, FetchFields DEF TypeInv
    <2> QED BY <1>1, <2>1 DEF Items, ParseAll
  <1>3. Later
    BY Bounds DEF Fetch, TypeInv, Later
  <1>4. JobSound(j)'
    <2>1. /\ job[j].org \in Orgs /\ job[j].since \in 0..clock /\ job[j].now \in 0..clock
          /\ DOMAIN job[j].raws = {} /\ DOMAIN job[j].finds = {}
      BY FetchFields DEF TypeInv, JobSound
    <2>2. /\ DOMAIN job'[j] = JobFields /\ job'[j].phase = "open" /\ job'[j].src = job[j].src
          /\ job'[j].org = job[j].org /\ job'[j].since = job[j].since /\ job'[j].read = clock
          /\ job'[j].now = job[j].now /\ job[j].src \in Sources
          /\ job'[j].raws = job[j].raws /\ job'[j].finds = job[j].finds
      BY FetchFields
    <2>3. job'[j].todo \subseteq Items(system'[job'[j].src]) /\ clock' \in 0..clock'
      BY <1>2, <1>3, <2>2 DEF Later
    <2>4. clock' = clock
      BY DEF Fetch
    <2> QED BY <2>1, <2>2, <2>3, <2>4 DEF JobSound, ImportPhases
  <1>5. DOMAIN job' = Jobs /\ \A i \in Jobs \ {j} : job'[i] = job[i]
    BY DEF Fetch, TypeInv
  <1> QED BY <1>4, <1>5, Numbers, OneJob DEF Fetch

LEMMA OpenFields ==
  ASSUME TypeInv, NEW j \in Jobs, OpenRun(j)
  PROVE  /\ job[j].phase = "open" /\ job[j].src \in Sources /\ opened < MaxRuns
         /\ opened' = opened + 1 /\ DOMAIN job' = Jobs
         /\ DOMAIN job'[j] = JobFields /\ job'[j].phase = "batch" /\ job'[j].src = job[j].src
         /\ job'[j].org = job[j].org /\ job'[j].since = job[j].since /\ job'[j].read = job[j].read
         /\ job'[j].now = clock /\ job'[j].run = opened + 1 /\ job'[j].todo = job[j].todo
         /\ job'[j].cut = job[j].cut
         /\ job'[j].raws = job[j].raws /\ job'[j].finds = job[j].finds
  <1>1. job[j].phase = "open" /\ job[j].src \in Sources /\ DOMAIN job[j] = JobFields
        /\ DOMAIN job = Jobs
    BY DEF OpenRun, TypeInv, JobSound
  <1> QED BY <1>1 DEF OpenRun, JobFields

LEMMA OpenTypes ==
  ASSUME TypeInv, NEW j \in Jobs, OpenRun(j)
  PROVE  TypeInv'
  <1>1. /\ job[j].org \in Orgs /\ job[j].since \in 0..clock /\ job[j].read \in 0..clock
        /\ job[j].todo \subseteq Items(system[job[j].src])
        /\ DOMAIN job[j].raws = {} /\ DOMAIN job[j].finds = {}
    BY OpenFields DEF TypeInv, JobSound
  <1>2. system' = system /\ clock' = clock
    BY DEF OpenRun
  <1>3. opened' \in 1..opened' /\ clock \in 0..clock
    BY OpenFields, Numbers
  <1>4. JobSound(j)'
    BY <1>1, <1>2, <1>3, OpenFields DEF JobSound, ImportPhases
  <1>5. \A i \in Jobs \ {j} : job'[i] = job[i]
    BY DEF OpenRun
  <1>6. opened' \in {opened, opened + 1} /\ opened' <= MaxRuns /\ DOMAIN job' = Jobs
    BY OpenFields, Numbers, Bounds
  <1> QED BY <1>4, <1>5, <1>6, OneJob DEF OpenRun

\* The row of a finding that is upserted.
LEMMA UpsertedRow ==
  ASSUME NEW table, NEW key, NEW run \in 1..opened,
         key \in DOMAIN table => table[key] \in FindingRow
  PROVE  UpsertFinding(table, key, run) \in FindingRow /\ UpsertFinding(table, key, run).run = run
  BY DEF UpsertFinding, FindingRow

\* What one imported finding adds to its import.
Ingested(j, f) ==
  LET keys == KeysOf(job[j].org, f)
      rawKey == <<job[j].src, f.ext>>
  IN  /\ job[j].phase = "batch" /\ job[j].src \in Sources /\ DOMAIN job' = Jobs
      /\ DOMAIN job'[j] = JobFields /\ job'[j].phase = "batch" /\ job'[j].src = job[j].src
      /\ job'[j].org = job[j].org /\ job'[j].since = job[j].since /\ job'[j].read = job[j].read
      /\ job'[j].now = job[j].now /\ job'[j].run = job[j].run /\ job'[j].cut = job[j].cut
      /\ job'[j].todo = job[j].todo \ {f}
      /\ DOMAIN job'[j].finds = DOMAIN job[j].finds \cup keys
      /\ \A k \in DOMAIN job[j].finds \ keys : job'[j].finds[k] = job[j].finds[k]
      /\ \A k \in keys :
           job'[j].finds[k] = UpsertFinding(Over(job[j].finds, findings), k, job[j].run)
      /\ DOMAIN job'[j].raws = DOMAIN job[j].raws \cup {rawKey}
      /\ \A r \in DOMAIN job[j].raws \ {rawKey} : job'[j].raws[r] = job[j].raws[r]
      /\ job'[j].raws[rawKey].item = f
      /\ job'[j].raws[rawKey].org = job[j].org
      /\ job'[j].raws[rawKey].key = keys
      /\ job'[j].raws[rawKey].status =
           IF CategoryOf(job[j].org, f) # Unmapped THEN "mapped" ELSE Unmapped

LEMMA IngestFields ==
  ASSUME TypeInv, NEW j \in Jobs, NEW f \in job[j].todo, IngestFinding(j, f)
  PROVE  Ingested(j, f)
  <1>1. job[j].phase = "batch" /\ job[j].src \in Sources /\ DOMAIN job[j] = JobFields
        /\ DOMAIN job = Jobs
    BY DEF IngestFinding, TypeInv, JobSound
  <1> DEFINE rawKey == <<job[j].src, f.ext>>
             keys == KeysOf(job[j].org, f)
             upserts == [k \in keys |->
                           UpsertFinding(Over(job[j].finds, findings), k, job[j].run)]
             row == [item |-> f, org |-> job[j].org, key |-> keys,
                     status |-> IF CategoryOf(job[j].org, f) # Unmapped THEN "mapped" ELSE Unmapped]
             one == [k \in {rawKey} |-> row]
  <1>2. job' = [job EXCEPT ![j] = [@ EXCEPT !.todo = job[j].todo \ {f},
                                             !.finds = Over(upserts, job[j].finds),
                                             !.raws = Over(one, job[j].raws)]]
    BY DEF IngestFinding, KeysOf
  <1>3. /\ row.item = f /\ row.org = job[j].org /\ row.key = keys
        /\ row.status = IF CategoryOf(job[j].org, f) # Unmapped THEN "mapped" ELSE Unmapped
    OBVIOUS
  <1>4. DOMAIN one = {rawKey} /\ one[rawKey] = row
    OBVIOUS
  <1>5. DOMAIN upserts = keys
        /\ \A k \in keys : upserts[k] = UpsertFinding(Over(job[j].finds, findings), k, job[j].run)
    OBVIOUS
  <1> HIDE DEF rawKey, keys, upserts, row, one
  <1>6. /\ DOMAIN job' = Jobs
        /\ DOMAIN job'[j] = JobFields /\ job'[j].phase = "batch" /\ job'[j].src = job[j].src
        /\ job'[j].org = job[j].org /\ job'[j].since = job[j].since /\ job'[j].read = job[j].read
        /\ job'[j].now = job[j].now /\ job'[j].run = job[j].run /\ job'[j].cut = job[j].cut
        /\ job'[j].todo = job[j].todo \ {f}
        /\ job'[j].finds = Over(upserts, job[j].finds) /\ job'[j].raws = Over(one, job[j].raws)
    BY <1>1, <1>2 DEF JobFields
  <1>7. /\ DOMAIN job'[j].finds = DOMAIN job[j].finds \cup keys
        /\ \A k \in DOMAIN job[j].finds \ keys : job'[j].finds[k] = job[j].finds[k]
        /\ \A k \in keys :
             job'[j].finds[k] = UpsertFinding(Over(job[j].finds, findings), k, job[j].run)
    BY <1>5, <1>6 DEF Over
  <1>8. /\ DOMAIN job'[j].raws = DOMAIN job[j].raws \cup {rawKey}
        /\ \A r \in DOMAIN job[j].raws \ {rawKey} : job'[j].raws[r] = job[j].raws[r]
        /\ job'[j].raws[rawKey] = row
    BY <1>4, <1>6 DEF Over
  <1> QED BY <1>1, <1>3, <1>6, <1>7, <1>8 DEF Ingested, rawKey, keys

LEMMA IngestTypes ==
  ASSUME TypeInv, NEW j \in Jobs, NEW f \in job[j].todo, IngestFinding(j, f)
  PROVE  TypeInv'
  <1>0. Ingested(j, f)
    BY IngestFields
  <1>1. /\ job[j].phase = "batch"
        /\ job[j].org \in Orgs /\ job[j].since \in 0..clock /\ job[j].read \in 0..clock
        /\ job[j].now \in 0..clock /\ job[j].run \in 1..opened /\ job[j].src \in Sources
        /\ job[j].todo \subseteq Items(system[job[j].src])
        /\ \A k \in DOMAIN job[j].finds :
             job[j].finds[k] \in FindingRow /\ job[j].finds[k].run = job[j].run
        /\ \A k \in DOMAIN findings : findings[k] \in FindingRow
    BY <1>0 DEF Ingested, TypeInv, JobSound
  <1>2. UNCHANGED <<system, clock, edits, org, reported, watermark, findings, completed, chain,
                    opened>>
    BY DEF IngestFinding
  <1>3. ASSUME NEW k \in DOMAIN job'[j].finds
        PROVE  job'[j].finds[k] \in FindingRow /\ job'[j].finds[k].run = job[j].run
    <2> DEFINE table == Over(job[j].finds, findings)
    <2>1. k \in DOMAIN table => table[k] \in FindingRow
      BY <1>1 DEF Over
    <2> HIDE DEF table
    <2>2. UpsertFinding(table, k, job[j].run) \in FindingRow
          /\ UpsertFinding(table, k, job[j].run).run = job[j].run
      BY <1>1, <2>1, UpsertedRow
    <2>3. CASE k \in KeysOf(job[j].org, f)
      BY <1>0, <2>2, <2>3 DEF Ingested, table
    <2>4. CASE k \notin KeysOf(job[j].org, f)
      <3>1. k \in DOMAIN job[j].finds \ KeysOf(job[j].org, f)
        BY <1>0, <1>3, <2>4 DEF Ingested
      <3>2. job'[j].finds[k] = job[j].finds[k]
        BY <1>0, <3>1 DEF Ingested
      <3> QED BY <1>1, <3>1, <3>2
    <2> QED BY <2>3, <2>4
  <1>4. FindingRow' = FindingRow
    BY <1>2 DEF FindingRow
  <1>5. /\ DOMAIN job' = Jobs /\ DOMAIN job'[j] = JobFields /\ job'[j].phase = "batch"
        /\ job'[j].src = job[j].src /\ job'[j].org = job[j].org /\ job'[j].since = job[j].since
        /\ job'[j].read = job[j].read /\ job'[j].now = job[j].now /\ job'[j].run = job[j].run
        /\ job'[j].todo \subseteq job[j].todo
    BY <1>0 DEF Ingested
  <1>6. JobSound(j)'
    BY <1>1, <1>2, <1>3, <1>4, <1>5 DEF JobSound, ImportPhases
  <1>7. \A i \in Jobs \ {j} : job'[i] = job[i]
    BY DEF IngestFinding
  <1> QED BY <1>2, <1>5, <1>6, <1>7, Numbers, OneJob

LEMMA AbortTypes ==
  ASSUME TypeInv, NEW j \in Jobs, AbortImport(j)
  PROVE  TypeInv'
  <1>1. job'[j] = Idle /\ DOMAIN job' = Jobs /\ \A i \in Jobs \ {j} : job'[i] = job[i]
    BY DEF AbortImport, TypeInv
  <1>2. Later
    BY Bounds DEF TypeInv, AbortImport, Later
  <1>3. JobSound(j)'
    BY <1>1, <1>2, IdleSound DEF TypeInv
  <1> QED BY <1>1, <1>3, Numbers, OneJob DEF AbortImport

LEMMA CommitTypes ==
  ASSUME TypeInv, NEW j \in Jobs, CommitImport(j)
  PROVE  TypeInv'
  <1>1. UNCHANGED <<system, clock, reported, org, edits, opened, chain>> /\ job[j].phase = "batch"
    BY DEF CommitImport
  <1>2. /\ job[j].src \in Sources /\ job[j].now \in 0..clock /\ job[j].run \in 1..opened
        /\ \A k \in DOMAIN job[j].finds : job[j].finds[k] \in FindingRow
        /\ \A k \in DOMAIN findings : findings[k] \in FindingRow
        /\ watermark \in [Sources -> 0..clock]
        /\ completed \subseteq [id : 1..opened, trigger : {"ingest", "scan"}]
        /\ DOMAIN job = Jobs /\ org \in Orgs
    BY <1>1 DEF TypeInv, JobSound
  <1>3. Later /\ FindingRow' = FindingRow
    BY <1>1, Numbers DEF TypeInv, Later, FindingRow
  <1>4. job'[j] = Idle /\ DOMAIN job' = Jobs /\ \A i \in Jobs \ {j} : job'[i] = job[i]
    BY <1>2 DEF CommitImport
  <1>5. \A i \in Jobs : JobSound(i)'
    <2>1. JobSound(j)'
      BY <1>2, <1>3, <1>4, IdleSound
    <2> QED BY <1>3, <1>4, <2>1, JobStays DEF TypeInv
  <1>6. \A k \in DOMAIN findings' : findings'[k] \in FindingRow'
    BY <1>2, <1>3 DEF CommitImport, Over
  <1>7. watermark' \in [Sources -> 0..clock']
    <2>1. NewWatermark(j) \in 0..clock
      BY <1>2 DEF NewWatermark
    <2> QED BY <1>1, <1>2, <2>1 DEF CommitImport
  <1>8. completed' \subseteq [id : 1..opened', trigger : {"ingest", "scan"}]
        /\ completed \subseteq completed'
    BY <1>1, <1>2 DEF CommitImport
  <1>9. ChainSound'
    BY <1>1, <1>8 DEF TypeInv, ChainSound
  <1> QED BY <1>1, <1>4, <1>5, <1>6, <1>7, <1>8, <1>9 DEF TypeInv

\* Of completed runs there is a latest.
LEMMA LatestRun ==
  ASSUME TypeInv, completed # {}
  PROVE  Latest \in completed /\ Latest.id \in 1..opened
  <1> DEFINE T == {k \in Nat : \E r \in completed : k = opened - r.id}
             R == OpToRel(<, Nat)
  <1>0. opened \in Nat /\ \A r \in completed : r.id \in 1..opened
    BY Numbers DEF TypeInv
  <1>1. T \subseteq Nat /\ T # {}
    <2>1. PICK r \in completed : TRUE
      OBVIOUS
    <2>2. opened - r.id \in T
      BY <1>0, <2>1
    <2> QED BY <2>2
  <1>2. PICK k \in T : \A y \in T : ~(<<y, k>> \in R)
    BY <1>1, NatLessThanWellFounded, WFMin
  <1>3. PICK r \in completed : k = opened - r.id
    BY <1>2
  <1>4. ASSUME NEW q \in completed
        PROVE  q.id <= r.id
    <2>1. opened - q.id \in T
      BY <1>0
    <2>2. <<opened - q.id, k>> \notin R
      BY <1>2, <2>1
    <2>3. ~(opened - q.id < k)
      BY <2>1, <2>2, <1>1 DEF OpToRel
    <2> QED BY <1>0, <1>3, <2>3
  <1>5. \E x \in completed : \A q \in completed : q.id <= x.id
    BY <1>4
  <1>6. Latest \in completed
    BY <1>5 DEF Latest
  <1> QED BY <1>0, <1>6

\* Steps outside the imports leave their rows and the watermarks alone.
LEMMA NoJob ==
  ASSUME TypeInv, job' = job, system' = system, clock' \in {clock, clock + 1}, clock' <= MaxClock,
         opened' \in {opened, opened + 1}, opened' <= MaxRuns,
         edits' \in 0..MaxEdits, org' \in Orgs, watermark' = watermark,
         DOMAIN reported' = Sources,
         \A s \in Sources : reported'[s] \subseteq [rec : Reportable[system[s]], at : 1..clock'],
         \A k \in DOMAIN findings' : findings'[k] \in FindingRow',
         completed' \subseteq [id : 1..opened', trigger : {"ingest", "scan"}],
         ChainSound'
  PROVE  TypeInv'
  <1>1. Later /\ clock' \in 0..MaxClock /\ opened' \in 0..MaxRuns
    BY Bounds DEF TypeInv, Later
  <1>2. \A i \in Jobs : JobSound(i)'
    BY <1>1, JobStays DEF TypeInv
  <1>3. watermark' \in [Sources -> 0..clock']
    BY <1>1 DEF TypeInv, Later
  <1> QED BY <1>1, <1>2, <1>3 DEF TypeInv

LEMMA WorldTypes ==
  ASSUME TypeInv,
         \/ \E s \in Sources : \E r \in Reportable[system[s]] : Report(s, r)
         \/ \E o \in Orgs : EditOrg(o)
  PROVE  TypeInv'
  <1>1. /\ UNCHANGED <<system, watermark, raw, findings, opened, completed, job, chain>>
        /\ clock' \in {clock, clock + 1} /\ edits' \in {edits, edits + 1}
        /\ clock' <= MaxClock /\ edits' \in 0..MaxEdits /\ org' \in Orgs /\ clock \in Nat
    BY Bounds DEF TypeInv, Report, EditOrg
  <1>2. DOMAIN reported' = Sources
        /\ \A s \in Sources : reported'[s] \subseteq [rec : Reportable[system[s]], at : 1..clock']
    <2>1. DOMAIN reported = Sources
          /\ \A s \in Sources : reported[s] \subseteq [rec : Reportable[system[s]], at : 1..clock]
      BY DEF TypeInv
    <2>2. CASE \E o \in Orgs : EditOrg(o)
      BY <2>1, <2>2 DEF EditOrg
    <2>3. ASSUME NEW s \in Sources, NEW r \in Reportable[system[s]], Report(s, r)
          PROVE  <1>2!1 /\ <1>2!2
      <3> DEFINE new == [rec |-> r, at |-> clock + 1]
      <3>1. clock' = clock + 1 /\ reported' = [reported EXCEPT ![s] = @ \cup {new}]
        BY <2>3 DEF Report
      <3>2. new \in [rec : Reportable[system[s]], at : 1..clock']
        BY <1>1, <3>1
      <3> HIDE DEF new
      <3>3. \A t \in Sources : reported'[t] \subseteq reported[t] \cup (IF t = s THEN {new} ELSE {})
        BY <2>1, <3>1
      <3>4. 1..clock \subseteq 1..clock'
        BY <1>1, <3>1
      <3> QED BY <2>1, <3>1, <3>2, <3>3, <3>4
    <2> QED BY <2>2, <2>3
  <1>3. opened' <= MaxRuns /\ FindingRow' = FindingRow /\ ChainSound'
    BY <1>1, Numbers DEF TypeInv, ChainSound, FindingRow
  <1> QED BY <1>1, <1>2, <1>3, NoJob DEF TypeInv

LEMMA ScanTypes ==
  ASSUME TypeInv, CommitScan
  PROVE  TypeInv'
  <1>1. /\ UNCHANGED <<system, clock, reported, org, edits, watermark, raw, findings, job>>
        /\ opened' = opened + 1 /\ opened < MaxRuns
        /\ completed' = completed \cup {[id |-> opened + 1, trigger |-> "scan"]}
        /\ chain' = [chain EXCEPT !.phase = "scanned"]
    BY DEF CommitScan
  <1>2. opened \in Nat /\ opened' <= MaxRuns /\ FindingRow \subseteq FindingRow'
    BY <1>1, Numbers, Bounds DEF FindingRow
  <1>3. completed' \subseteq [id : 1..opened', trigger : {"ingest", "scan"}] /\ completed' # {}
    <2> DEFINE new == [id |-> opened + 1, trigger |-> "scan"]
    <2>1. new \in [id : 1..opened', trigger : {"ingest", "scan"}]
      BY <1>1, <1>2
    <2> HIDE DEF new
    <2>2. completed \subseteq [id : 1..opened, trigger : {"ingest", "scan"}]
      BY DEF TypeInv
    <2>3. [id : 1..opened, trigger : {"ingest", "scan"}]
            \subseteq [id : 1..opened', trigger : {"ingest", "scan"}]
      BY <1>1, <1>2
    <2>4. completed' = completed \cup {new}
      BY <1>1 DEF new
    <2> QED BY <2>1, <2>2, <2>3, <2>4
  <1>4. ChainSound'
    BY <1>1, <1>2, <1>3 DEF TypeInv, ChainSound, ChainPhases
  <1> QED BY <1>1, <1>2, <1>3, <1>4, Numbers, NoJob DEF TypeInv

LEMMA DetectFields ==
  ASSUME TypeInv, NEW keys, ChainDetect(keys)
  PROVE  /\ DOMAIN chain' = {"phase", "run", "saw", "known", "list"} /\ chain.phase = "scanned"
         /\ chain'.phase = "detected" /\ chain'.run = Latest.id /\ chain'.saw = keys
         /\ chain'.known = completed /\ Latest.id \in 1..opened
         /\ DOMAIN findings' = keys \cup DOMAIN findings
         /\ \A k \in keys : findings'[k] = UpsertFinding(findings, k, Latest.id)
         /\ \A k \in DOMAIN findings \ keys : findings'[k] = findings[k]
  <1>1. DOMAIN chain = {"phase", "run", "saw", "known", "list"} /\ completed # {}
    BY DEF ChainDetect, TypeInv, ChainSound
  <1>2. /\ DOMAIN findings' = keys \cup DOMAIN findings
        /\ \A k \in keys : findings'[k] = UpsertFinding(findings, k, Latest.id)
        /\ \A k \in DOMAIN findings \ keys : findings'[k] = findings[k]
    BY DEF ChainDetect, Over
  <1>3. chain' = [chain EXCEPT !.phase = "detected", !.run = Latest.id, !.saw = keys,
                               !.known = completed] /\ chain.phase = "scanned"
    BY DEF ChainDetect
  <1>4. /\ DOMAIN chain' = {"phase", "run", "saw", "known", "list"}
        /\ chain'.phase = "detected" /\ chain'.run = Latest.id /\ chain'.saw = keys
        /\ chain'.known = completed
    BY <1>1, <1>3
  <1> QED BY <1>1, <1>2, <1>3, <1>4, LatestRun

LEMMA ChainTypes ==
  ASSUME TypeInv, (\E keys \in SUBSET Detectable : ChainDetect(keys)) \/ ChainTriage \/ ChainEnds
  PROVE  TypeInv'
  <1>1. UNCHANGED <<system, clock, reported, org, edits, watermark, raw, opened, completed, job>>
    BY DEF ChainDetect, ChainTriage, ChainEnds
  <1>2. FindingRow' = FindingRow /\ \A k \in DOMAIN findings : findings[k] \in FindingRow
    BY <1>1 DEF TypeInv, FindingRow
  <1>3. ASSUME NEW keys \in SUBSET Detectable, ChainDetect(keys)
        PROVE  ChainSound' /\ \A k \in DOMAIN findings' : findings'[k] \in FindingRow'
    <2>0. /\ DOMAIN chain' = {"phase", "run", "saw", "known", "list"}
          /\ chain'.phase = "detected" /\ chain'.run = Latest.id /\ Latest.id \in 1..opened
          /\ DOMAIN findings' = keys \cup DOMAIN findings
          /\ \A k \in keys : findings'[k] = UpsertFinding(findings, k, Latest.id)
          /\ \A k \in DOMAIN findings \ keys : findings'[k] = findings[k]
      BY <1>3, DetectFields
    <2>1. \A k \in keys : UpsertFinding(findings, k, Latest.id) \in FindingRow
      BY <1>2, <2>0, UpsertedRow
    <2>2. \A k \in DOMAIN findings' : findings'[k] \in FindingRow'
      BY <1>2, <2>0, <2>1
    <2>3. ChainSound'
      BY <1>1, <2>0, Numbers DEF ChainSound, ChainPhases
    <2> QED BY <2>2, <2>3
  <1>4. ASSUME ChainTriage
        PROVE  ChainSound' /\ \A k \in DOMAIN findings' : findings'[k] \in FindingRow'
    BY <1>1, <1>2, <1>4 DEF ChainTriage, TypeInv, ChainSound, ChainPhases
  <1>5. ASSUME ChainEnds
        PROVE  ChainSound' /\ \A k \in DOMAIN findings' : findings'[k] \in FindingRow'
    <2>1. \A k \in DOMAIN findings' : findings'[k] \in FindingRow'
      BY <1>2, <1>5 DEF ChainEnds, FindingRow
    <2>2. ChainSound'
      BY <1>1, <1>5 DEF ChainEnds, TypeInv, ChainSound, ChainPhases
    <2> QED BY <2>1, <2>2
  <1>6. ChainSound' /\ \A k \in DOMAIN findings' : findings'[k] \in FindingRow'
    BY <1>3, <1>4, <1>5
  <1> QED BY <1>1, <1>6, Numbers, NoJob DEF TypeInv

LEMMA InitTypes == Init => TypeInv
  <1> SUFFICES ASSUME Init PROVE TypeInv
    OBVIOUS
  <1>1. /\ DOMAIN job = Jobs /\ (\A j \in Jobs : job[j] = Idle) /\ DOMAIN findings = {}
        /\ completed = {} /\ chain = NoChain /\ clock = 0 /\ edits = 0 /\ opened = 0
    BY DEF Init, NoRows
  <1>2. \A j \in Jobs : JobSound(j)
    BY <1>1, IdleFields DEF Init, JobSound, ImportPhases
  <1>3. ChainSound
    BY <1>1 DEF ChainSound, NoChain, ChainPhases
  <1> QED BY <1>1, <1>2, <1>3, Bounds DEF Init, TypeInv

LEMMA StepTypes == TypeInv /\ [Next]_vars => TypeInv'
  <1> SUFFICES ASSUME TypeInv, [Next]_vars PROVE TypeInv'
    OBVIOUS
  <1>1. ASSUME NEW j \in Jobs, NEW s \in Sources, BeginImport(j, s) PROVE TypeInv'
    BY <1>1, BeginTypes
  <1>2. ASSUME NEW j \in Jobs, Fetch(j) PROVE TypeInv'
    BY <1>2, FetchTypes
  <1>3. ASSUME NEW j \in Jobs, OpenRun(j) PROVE TypeInv'
    BY <1>3, OpenTypes
  <1>4. ASSUME NEW j \in Jobs, NEW f \in job[j].todo, IngestFinding(j, f) PROVE TypeInv'
    BY <1>4, IngestTypes
  <1>5. ASSUME NEW j \in Jobs, CommitImport(j) PROVE TypeInv'
    BY <1>5, CommitTypes
  <1>6. ASSUME NEW j \in Jobs, AbortImport(j) PROVE TypeInv'
    BY <1>6, AbortTypes
  <1>7. CASE \/ \E s \in Sources : \E r \in Reportable[system[s]] : Report(s, r)
             \/ \E o \in Orgs : EditOrg(o)
    BY <1>7, WorldTypes
  <1>8. CASE CommitScan
    BY <1>8, ScanTypes
  <1>9. CASE (\E keys \in SUBSET Detectable : ChainDetect(keys)) \/ ChainTriage \/ ChainEnds
    BY <1>9, ChainTypes
  <1>10. CASE UNCHANGED vars
    BY <1>10 DEF vars, TypeInv, JobSound, ChainSound, FindingRow
  <1> QED BY <1>1, <1>2, <1>3, <1>4, <1>5, <1>6, <1>7, <1>8, <1>9, <1>10 DEF Next

THEOREM IngestInvariant == Spec => []TypeInv
  BY InitTypes, StepTypes, PTL DEF Spec

-----------------------------------------------------------------------------
(* Vendor rows and findings name each other *)

\* A row of the vendor's data names the finding its item is filed under, in the
\* org-context its import read.
RowSound(systems, r, row) ==
    /\ r[1] \in Sources /\ r[2] = row.item.ext
    /\ row.item \in Items(systems[r[1]]) /\ row.org \in Orgs
    /\ row.key = KeysOf(row.org, row.item)
    /\ row.status = IF CategoryOf(row.org, row.item) # Unmapped THEN "mapped" ELSE Unmapped

RowsSound ==
    /\ \A r \in DOMAIN raw : RowSound(system, r, raw[r])
    /\ \A j \in Jobs : \A r \in DOMAIN job[j].raws :
           /\ RowSound(system, r, job[j].raws[r])
           /\ r[1] = job[j].src /\ job[j].raws[r].org = job[j].org

\* While org-context is not edited, every finding an import has filed is named by
\* a row of the same transaction.
Unedited == edits = 0 /\ \A s \in Sources : system[s] # "csv"

Traced ==
    /\ \A j \in Jobs : job[j].org = org
    /\ \A r \in DOMAIN raw : raw[r].org = org
    /\ \A j \in Jobs : \A k \in DOMAIN job[j].finds :
           \E r \in DOMAIN job[j].raws : k \in job[j].raws[r].key
    /\ \A k \in imported : \E r \in DOMAIN raw : k \in raw[r].key

TraceInv == TypeInv /\ RowsSound /\ (VendorIdsAreStable /\ Unedited => Traced)

\* An identity of every adapter but the CSV importer is one issue of one asset.
SameIssue(f, g) == f.issue = g.issue /\ f.type = g.type /\ f.asset = g.asset

LEMMA ImportedFields ==
  ASSUME NEW ext, NEW issue, NEW type, NEW asset
  PROVE  /\ Imported(ext, issue, type, asset).ext = ext
         /\ Imported(ext, issue, type, asset).issue = issue
         /\ Imported(ext, issue, type, asset).type = type
         /\ Imported(ext, issue, type, asset).asset = asset
  BY DEF Imported

LEMMA ProwlerIdentity ==
  ASSUME NEW r, NEW q, NEW f \in ProwlerFinding(r), NEW g \in ProwlerFinding(q), f.ext = g.ext
  PROVE  SameIssue(f, g)
  BY ImportedFields DEF ProwlerFinding, SameIssue

LEMMA TrivyIdentity ==
  ASSUME NEW r, NEW q, NEW f \in TrivyFinding(r), NEW g \in TrivyFinding(q), f.ext = g.ext,
         TrivyAsset(r).value = TrivyAsset(q).value => TrivyAsset(r).type = TrivyAsset(q).type
  PROVE  SameIssue(f, g)
  <1>1. \A t : \A h \in TrivyVulnerability(t) :
          \E a, b : /\ h.ext = <<a, b, TrivyAsset(t).value>>
                    /\ h.issue = "trivy-vulnerable-package"
                    /\ h.type = TrivyAsset(t).type /\ h.asset = TrivyAsset(t).value
    BY ImportedFields DEF TrivyVulnerability
  <1>2. \A t : \A h \in TrivyMisconfiguration(t) :
          /\ h.ext = <<h.issue, TrivyAsset(t).value>>
          /\ h.type = TrivyAsset(t).type /\ h.asset = TrivyAsset(t).value
    BY ImportedFields DEF TrivyMisconfiguration
  <1>3. \A a, b, c, d, e : <<a, b, c>> # <<d, e>>
    OBVIOUS
  <1> QED BY <1>1, <1>2, <1>3 DEF TrivyFinding, SameIssue

LEMMA TrufflehogIdentity ==
  ASSUME NEW r, NEW q, NEW f \in TrufflehogFinding(r), NEW g \in TrufflehogFinding(q),
         r.repository = q.repository
  PROVE  SameIssue(f, g)
  BY ImportedFields DEF TrufflehogFinding, SameIssue

LEMMA MobileIdentity ==
  ASSUME NEW r, NEW q, NEW f \in MobileFinding(r), NEW g \in MobileFinding(q), f.ext = g.ext,
         r.apk = q.apk
  PROVE  SameIssue(f, g)
  <1> DEFINE IssueOf(tag) ==
        CASE tag = "exported-component"        -> "mobile-exported-component-no-permission"
          [] tag = "cleartext-traffic-allowed" -> "mobile-cleartext-traffic-allowed"
          [] tag = "outdated-target-sdk"       -> "mobile-outdated-target-sdk"
          [] tag = "firebase-config"           -> "mobile-exposed-firebase-config"
          [] tag = "hardcoded-secret"          -> "mobile-hardcoded-secret"
  <1>1. ASSUME NEW t, NEW h \in MobileFinding(t)
        PROVE  h.issue = IssueOf(h.ext[1]) /\ h.type = "mobile_app" /\ h.asset = t.apk
    <2>1. h \in ExportedComponent(t) =>
            h.issue = IssueOf(h.ext[1]) /\ h.type = "mobile_app" /\ h.asset = t.apk
      BY ImportedFields DEF ExportedComponent
    <2>2. h \in CleartextTraffic(t) =>
            h.issue = IssueOf(h.ext[1]) /\ h.type = "mobile_app" /\ h.asset = t.apk
      BY ImportedFields DEF CleartextTraffic
    <2>3. h \in TargetSdk(t) =>
            h.issue = IssueOf(h.ext[1]) /\ h.type = "mobile_app" /\ h.asset = t.apk
      BY ImportedFields DEF TargetSdk
    <2>4. h \in FirebaseFinding(t) =>
            h.issue = IssueOf(h.ext[1]) /\ h.type = "mobile_app" /\ h.asset = t.apk
      BY ImportedFields DEF FirebaseFinding
    <2>5. h \in HardcodedSecret(t) =>
            h.issue = IssueOf(h.ext[1]) /\ h.type = "mobile_app" /\ h.asset = t.apk
      BY ImportedFields DEF HardcodedSecret
    <2> HIDE DEF IssueOf
    <2> QED BY <1>1, <2>1, <2>2, <2>3, <2>4, <2>5 DEF MobileFinding, ManifestFinding
  <1> HIDE DEF IssueOf
  <1> QED BY <1>1 DEF SameIssue

LEMMA TenableIdentity ==
  ASSUME NEW r, NEW q, NEW f \in TenableFinding(r), NEW g \in TenableFinding(q), f.ext = g.ext,
         Or(r.uuid, Or(r.hostname, r.ipv4)) = Or(q.uuid, Or(q.hostname, q.ipv4)) =>
             r.hostname = q.hostname /\ r.ipv4 = q.ipv4
  PROVE  SameIssue(f, g)
  <1>1. \A t : \A h \in TenableFinding(t) :
          /\ h.ext = <<h.issue, Or(t.uuid, Or(t.hostname, t.ipv4))>>
          /\ h.type = (IF t.hostname # Missing THEN "subdomain" ELSE "ip")
          /\ h.asset = Or(t.hostname, t.ipv4)
    BY ImportedFields DEF TenableFinding
  <1> QED BY <1>1 DEF SameIssue

LEMMA MandiantIdentity ==
  ASSUME NEW r, NEW q, NEW f \in MandiantFinding(r), NEW g \in MandiantFinding(q), f.ext = g.ext,
         Or(r.id, r.uid) = Or(q.id, q.uid) =>
             /\ Or(r.issueType, r.headline) = Or(q.issueType, q.headline)
             /\ r.domain = q.domain /\ r.ip = q.ip
  PROVE  SameIssue(f, g)
  <1>1. \A t : \A h \in MandiantFinding(t) :
          /\ h.ext = <<Or(t.id, t.uid)>>
          /\ h.issue = Or(Or(t.issueType, t.headline), "unknown")
          /\ h.type = (IF t.domain # Missing THEN "subdomain" ELSE "ip")
          /\ h.asset = Or(t.domain, t.ip)
    BY ImportedFields DEF MandiantFinding
  <1> QED BY <1>1 DEF SameIssue

LEMMA GenericIdentity ==
  ASSUME NEW r, NEW q, NEW f \in GenericFinding(r), NEW g \in GenericFinding(q), f.ext = g.ext,
         r.external_id = q.external_id => r.issue = q.issue /\ r.asset_value = q.asset_value
  PROVE  SameIssue(f, g)
  BY ImportedFields DEF GenericFinding, SameIssue

LEMMA NucleiIdentity ==
  ASSUME NEW r, NEW q, NEW f \in NucleiFinding(r), NEW g \in NucleiFinding(q), f.ext = g.ext
  PROVE  SameIssue(f, g)
  BY ImportedFields DEF NucleiFinding, SameIssue

LEMMA StableItems ==
  ASSUME VendorIdsAreStable, NEW sys \in Systems \ {"csv"},
         NEW f \in Items(sys), NEW g \in Items(sys), f.ext = g.ext
  PROVE  SameIssue(f, g)
  <1>1. PICK r \in Reportable[sys] : ~Raises(sys, r) /\ f \in Parse(sys, r)
    BY DEF Items, ParseAll
  <1>2. PICK q \in Reportable[sys] : ~Raises(sys, q) /\ g \in Parse(sys, q)
    BY DEF Items, ParseAll
  <1>3. CASE sys = "prowler"
    BY <1>1, <1>2, <1>3, ProwlerIdentity DEF Parse
  <1>4. CASE sys = "trivy"
    BY <1>1, <1>2, <1>4, TrivyIdentity DEF Parse, VendorIdsAreStable
  <1>5. CASE sys = "trufflehog"
    BY <1>1, <1>2, <1>5, TrufflehogIdentity DEF Parse, VendorIdsAreStable
  <1>6. CASE sys = "mobile_static"
    BY <1>1, <1>2, <1>6, MobileIdentity DEF Parse, VendorIdsAreStable
  <1>7. CASE sys = "tenable"
    BY <1>1, <1>2, <1>7, TenableIdentity DEF Parse, Raises, VendorIdsAreStable
  <1>8. CASE sys = "mandiant_asm"
    BY <1>1, <1>2, <1>8, MandiantIdentity DEF Parse, Raises, VendorIdsAreStable
  <1>9. CASE sys = "custom"
    BY <1>1, <1>2, <1>9, GenericIdentity DEF Parse, Raises, VendorIdsAreStable
  <1>10. CASE sys = "nuclei_json"
    BY <1>1, <1>2, <1>10, NucleiIdentity DEF Parse
  <1> QED BY <1>3, <1>4, <1>5, <1>6, <1>7, <1>8, <1>9, <1>10 DEF Systems

\* Two rows of one vendor identity name the same finding.
LEMMA SameIdentity ==
  ASSUME VendorIdsAreStable, NEW sys \in Systems \ {"csv"}, NEW o,
         NEW f \in Items(sys), NEW g \in Items(sys), f.ext = g.ext
  PROVE  KeysOf(o, f) = KeysOf(o, g)
  <1>1. SameIssue(f, g)
    BY StableItems
  <1> QED BY <1>1 DEF SameIssue, KeysOf, KeyOf, CategoryOf, Discriminator, Fingerprint

LEMMA TraceStays ==
  ASSUME TraceInv, TypeInv', system' = system, raw' = raw, imported' = imported,
         (edits' = edits /\ org' = org) \/ edits' # 0,
         \A j \in Jobs :
            \/ DOMAIN job'[j].raws = {} /\ DOMAIN job'[j].finds = {} /\ job'[j].org = org
            \/ /\ job'[j].raws = job[j].raws /\ job'[j].finds = job[j].finds
               /\ job'[j].src = job[j].src /\ job'[j].org = job[j].org
  PROVE  TraceInv'
  <1>1. RowsSound'
    BY DEF TraceInv, RowsSound
  <1>2. ASSUME VendorIdsAreStable, Unedited' PROVE Traced'
    <2>1. Traced /\ org' = org
      BY <1>2 DEF TraceInv, Unedited
    <2> QED BY <2>1 DEF Traced
  <1> QED BY <1>1, <1>2 DEF TraceInv

LEMMA IngestTrace ==
  ASSUME TraceInv, TypeInv', NEW j \in Jobs, NEW f \in job[j].todo, IngestFinding(j, f)
  PROVE  TraceInv'
  <1>0. Ingested(j, f) /\ UNCHANGED <<system, org, edits, raw, imported>>
        /\ \A i \in Jobs \ {j} : job'[i] = job[i]
    <2>1. TypeInv
      BY DEF TraceInv
    <2>2. Ingested(j, f)
      BY <2>1, IngestFields
    <2>3. UNCHANGED <<system, org, edits, raw, imported>> /\ \A i \in Jobs \ {j} : job'[i] = job[i]
      BY DEF IngestFinding
    <2> QED BY <2>2, <2>3
  <1>1. /\ job[j].src \in Sources /\ job[j].org \in Orgs /\ f \in Items(system[job[j].src])
    BY <1>0 DEF Ingested, TraceInv, TypeInv, JobSound
  <1> DEFINE keys == KeysOf(job[j].org, f)
             rawKey == <<job[j].src, f.ext>>
  <1>2. /\ job'[j].src = job[j].src /\ job'[j].org = job[j].org
        /\ DOMAIN job'[j].finds = DOMAIN job[j].finds \cup keys
        /\ DOMAIN job'[j].raws = DOMAIN job[j].raws \cup {rawKey}
        /\ \A r \in DOMAIN job[j].raws \ {rawKey} : job'[j].raws[r] = job[j].raws[r]
        /\ job'[j].raws[rawKey].item = f
        /\ job'[j].raws[rawKey].org = job[j].org
        /\ job'[j].raws[rawKey].key = keys
        /\ job'[j].raws[rawKey].status =
             IF CategoryOf(job[j].org, f) # Unmapped THEN "mapped" ELSE Unmapped
    BY <1>0 DEF Ingested
  <1>3. rawKey[1] = job[j].src /\ rawKey[2] = f.ext
    OBVIOUS
  <1>4. RowSound(system, rawKey, job'[j].raws[rawKey])
    BY <1>1, <1>2, <1>3 DEF RowSound
  <1> HIDE DEF rawKey
  <1>5. \A r \in DOMAIN job[j].raws :
          /\ RowSound(system, r, job[j].raws[r])
          /\ r[1] = job[j].src /\ job[j].raws[r].org = job[j].org
    BY DEF TraceInv, RowsSound
  <1>6. RowsSound'
    <2>1. ASSUME NEW r \in DOMAIN job'[j].raws
          PROVE  /\ RowSound(system, r, job'[j].raws[r])
                 /\ r[1] = job'[j].src /\ job'[j].raws[r].org = job'[j].org
      <3>1. CASE r = rawKey
        BY <1>2, <1>3, <1>4, <3>1
      <3>2. CASE r # rawKey
        BY <1>2, <1>5, <2>1, <3>2
      <3> QED BY <3>1, <3>2
    <2>2. \A i \in Jobs \ {j} : \A r \in DOMAIN job'[i].raws :
            /\ RowSound(system, r, job'[i].raws[r])
            /\ r[1] = job'[i].src /\ job'[i].raws[r].org = job'[i].org
      BY <1>0 DEF TraceInv, RowsSound
    <2>3. \A r \in DOMAIN raw' : RowSound(system, r, raw'[r])
      BY <1>0 DEF TraceInv, RowsSound
    <2>4. \A i \in Jobs : \A r \in DOMAIN job'[i].raws :
            /\ RowSound(system, r, job'[i].raws[r])
            /\ r[1] = job'[i].src /\ job'[i].raws[r].org = job'[i].org
      BY <2>1, <2>2
    <2> QED BY <1>0, <2>3, <2>4 DEF RowsSound
  <1>7. ASSUME VendorIdsAreStable, Unedited' PROVE Traced'
    <2>0. Unedited /\ Traced
      BY <1>0, <1>7 DEF TraceInv, Unedited
    <2>1. ASSUME NEW k \in DOMAIN job[j].finds
          PROVE  \E r \in DOMAIN job'[j].raws : k \in job'[j].raws[r].key
      <3>1. PICK r \in DOMAIN job[j].raws : k \in job[j].raws[r].key
        BY <2>0 DEF Traced
      <3>2. CASE r # rawKey
        BY <1>2, <3>1, <3>2
      <3>3. CASE r = rawKey
        <4> DEFINE g == job[j].raws[r].item
        <4>1. g \in Items(system[job[j].src]) /\ g.ext = f.ext
              /\ job[j].raws[r].key = KeysOf(job[j].org, g)
          BY <1>3, <1>5, <3>1, <3>3 DEF RowSound
        <4>2. system[job[j].src] \in Systems \ {"csv"}
          BY <1>1, <2>0 DEF Unedited, TraceInv, TypeInv
        <4> HIDE DEF g
        <4>3. KeysOf(job[j].org, g) = keys
          BY <1>1, <1>7, <4>1, <4>2, SameIdentity
        <4> QED BY <1>2, <3>1, <4>1, <4>3
      <3> QED BY <3>2, <3>3
    <2>2. \A k \in keys : \E r \in DOMAIN job'[j].raws : k \in job'[j].raws[r].key
      BY <1>2
    <2>3. \A k \in DOMAIN job'[j].finds : \E r \in DOMAIN job'[j].raws : k \in job'[j].raws[r].key
      BY <1>2, <2>1, <2>2
    <2>4. \A i \in Jobs : \A k \in DOMAIN job'[i].finds :
            \E r \in DOMAIN job'[i].raws : k \in job'[i].raws[r].key
      BY <1>0, <2>0, <2>3 DEF Traced
    <2> QED BY <1>0, <1>2, <2>0, <2>4 DEF Traced
  <1> QED BY <1>6, <1>7 DEF TraceInv

LEMMA CommitTrace ==
  ASSUME TraceInv, TypeInv', NEW j \in Jobs, CommitImport(j)
  PROVE  TraceInv'
  <1>0. /\ UNCHANGED <<system, org, edits>> /\ raw' = Over(job[j].raws, raw)
        /\ imported' = imported \cup DOMAIN job[j].finds
        /\ job'[j] = Idle /\ \A i \in Jobs \ {j} : job'[i] = job[i]
    BY DEF CommitImport, TraceInv, TypeInv
  <1>1. /\ DOMAIN raw' = DOMAIN job[j].raws \cup DOMAIN raw
        /\ \A r \in DOMAIN job[j].raws : raw'[r] = job[j].raws[r]
        /\ \A r \in DOMAIN raw \ DOMAIN job[j].raws : raw'[r] = raw[r]
    BY <1>0 DEF Over
  <1>2. RowsSound'
    <2>1. \A r \in DOMAIN raw' : RowSound(system, r, raw'[r])
      BY <1>1 DEF TraceInv, RowsSound
    <2>2. \A i \in Jobs : \A r \in DOMAIN job'[i].raws :
            /\ RowSound(system, r, job'[i].raws[r])
            /\ r[1] = job'[i].src /\ job'[i].raws[r].org = job'[i].org
      BY <1>0, IdleFields DEF TraceInv, RowsSound
    <2> QED BY <1>0, <2>1, <2>2 DEF RowsSound
  <1>3. ASSUME VendorIdsAreStable, Unedited' PROVE Traced'
    <2>0. Unedited /\ Traced
      BY <1>0, <1>3 DEF TraceInv, Unedited
    <2>1. \A r \in DOMAIN raw' : raw'[r].org = org
      BY <1>1, <2>0 DEF Traced, TraceInv, RowsSound
    <2>2. \A k \in DOMAIN job[j].finds : \E r \in DOMAIN raw' : k \in raw'[r].key
      BY <1>1, <2>0 DEF Traced
    <2>3. ASSUME NEW k \in imported
          PROVE  \E r \in DOMAIN raw' : k \in raw'[r].key
      <3>1. PICK r \in DOMAIN raw : k \in raw[r].key
        BY <2>0 DEF Traced
      <3>2. CASE r \notin DOMAIN job[j].raws
        BY <1>1, <3>1, <3>2
      <3>3. CASE r \in DOMAIN job[j].raws
        <4> DEFINE f == raw[r].item
                   g == job[j].raws[r].item
        <4>1. /\ f \in Items(system[r[1]]) /\ g \in Items(system[r[1]]) /\ r[1] \in Sources
              /\ f.ext = g.ext
              /\ raw[r].key = KeysOf(raw[r].org, f)
              /\ job[j].raws[r].key = KeysOf(job[j].raws[r].org, g)
          BY <3>1, <3>3 DEF TraceInv, RowsSound, RowSound
        <4>2. raw[r].org = org /\ job[j].raws[r].org = org
          BY <2>0, <3>1, <3>3 DEF Traced, TraceInv, RowsSound
        <4>3. system[r[1]] \in Systems \ {"csv"}
          BY <2>0, <4>1 DEF Unedited, TraceInv, TypeInv
        <4> HIDE DEF f, g
        <4>4. KeysOf(org, f) = KeysOf(org, g)
          BY <1>3, <4>1, <4>3, SameIdentity
        <4> QED BY <1>1, <3>1, <3>3, <4>1, <4>2, <4>4
      <3> QED BY <3>2, <3>3
    <2>4. /\ \A i \in Jobs : job'[i].org = org
          /\ \A i \in Jobs : \A k \in DOMAIN job'[i].finds :
               \E r \in DOMAIN job'[i].raws : k \in job'[i].raws[r].key
      BY <1>0, <2>0, IdleFields DEF Traced
    <2> QED BY <1>0, <2>1, <2>2, <2>3, <2>4 DEF Traced
  <1> QED BY <1>2, <1>3 DEF TraceInv

LEMMA InitTrace == Init => TraceInv
  <1> SUFFICES ASSUME Init PROVE TraceInv
    OBVIOUS
  <1>1. /\ \A j \in Jobs : job[j] = Idle
        /\ DOMAIN raw = {} /\ imported = {}
    BY DEF Init, NoRows
  <1> QED BY <1>1, InitTypes, IdleFields DEF TraceInv, RowsSound, Traced

LEMMA StepTrace == TraceInv /\ [Next]_vars => TraceInv'
  <1> SUFFICES ASSUME TraceInv, [Next]_vars PROVE TraceInv'
    OBVIOUS
  <1>0. TypeInv' /\ TypeInv
    BY StepTypes DEF TraceInv
  <1>1. ASSUME NEW j \in Jobs, NEW s \in Sources, BeginImport(j, s) PROVE TraceInv'
    <2>1. PICK since : job' = [job EXCEPT ![j] = [Idle EXCEPT !.phase = "fetch", !.src = s,
                                                              !.since = since]]
      BY <1>1 DEF BeginImport
    <2>2. DOMAIN job'[j].raws = {} /\ DOMAIN job'[j].finds = {} /\ job'[j].org = org
          /\ \A i \in Jobs \ {j} : job'[i] = job[i]
      BY <2>1, <1>0, IdleFields DEF TypeInv, JobFields
    <2> QED BY <1>0, <1>1, <2>2, TraceStays DEF BeginImport
  <1>2. ASSUME NEW j \in Jobs, Fetch(j) PROVE TraceInv'
    <2>1. /\ job'[j].raws = job[j].raws /\ job'[j].finds = job[j].finds
          /\ job'[j].src = job[j].src /\ job'[j].org = job[j].org
      BY <1>0, <1>2, FetchFields
    <2>2. UNCHANGED <<system, raw, imported, edits, org>> /\ \A i \in Jobs \ {j} : job'[i] = job[i]
      BY <1>2 DEF Fetch
    <2> QED BY <1>0, <2>1, <2>2, TraceStays
  <1>3. ASSUME NEW j \in Jobs, OpenRun(j) PROVE TraceInv'
    <2>1. /\ job'[j].raws = job[j].raws /\ job'[j].finds = job[j].finds
          /\ job'[j].src = job[j].src /\ job'[j].org = job[j].org
      BY <1>0, <1>3, OpenFields
    <2>2. UNCHANGED <<system, raw, imported, edits, org>> /\ \A i \in Jobs \ {j} : job'[i] = job[i]
      BY <1>3 DEF OpenRun
    <2> QED BY <1>0, <2>1, <2>2, TraceStays
  <1>4. ASSUME NEW j \in Jobs, NEW f \in job[j].todo, IngestFinding(j, f) PROVE TraceInv'
    BY <1>0, <1>4, IngestTrace
  <1>5. ASSUME NEW j \in Jobs, CommitImport(j) PROVE TraceInv'
    BY <1>0, <1>5, CommitTrace
  <1>6. ASSUME NEW j \in Jobs, AbortImport(j) PROVE TraceInv'
    <2>1. job'[j] = Idle /\ \A i \in Jobs \ {j} : job'[i] = job[i]
      BY <1>0, <1>6 DEF AbortImport, TypeInv
    <2> QED BY <1>0, <1>6, <2>1, IdleFields, TraceStays DEF AbortImport
  <1>7. ASSUME job' = job, system' = system, raw' = raw, imported' = imported,
               (edits' = edits /\ org' = org) \/ edits' # 0
        PROVE  TraceInv'
    BY <1>0, <1>7, TraceStays
  <1>8. ASSUME NEW o \in Orgs, EditOrg(o) PROVE TraceInv'
    BY <1>0, <1>7, <1>8, Numbers DEF EditOrg
  <1>9. CASE \/ \E s \in Sources : \E r \in Reportable[system[s]] : Report(s, r)
             \/ CommitScan \/ ChainTriage \/ ChainEnds
             \/ \E keys \in SUBSET Detectable : ChainDetect(keys)
             \/ UNCHANGED vars
    BY <1>7, <1>9 DEF Report, CommitScan, ChainTriage, ChainEnds, ChainDetect, vars
  <1> QED BY <1>1, <1>2, <1>3, <1>4, <1>5, <1>6, <1>8, <1>9 DEF Next

THEOREM TraceInvariant == Spec => []TraceInv
  BY InitTrace, StepTrace, PTL DEF Spec

\* Rows, runs and jobs are what they are declared to be, whatever a vendor reports
\* and however imports overlap (db/models.py).
THEOREM ImportedRowsAreTyped == Spec => []TypeOK
  <1>1. TraceInv => TypeOK
    BY DEF TraceInv, TypeInv, RowsSound, RowSound, JobSound, ChainSound, FindingRow, TypeOK
  <1> QED BY <1>1, TraceInvariant, PTL

\* What the Ingest page previews is what a sync does, for every org-context and
\* every report (api/routers/ingest.py, ingest/pipeline.py).
THEOREM PreviewIsKept == Spec => []PreviewAgrees
  <1>1. TraceInv => PreviewAgrees
    BY DEF TraceInv, RowsSound, RowSound, PreviewAgrees, WouldMap, CategoryOf, Unmapped
  <1> QED BY <1>1, TraceInvariant, PTL

\* If a vendor's identities are stable, what an import filed stays named by a row
\* of that vendor's data, however many imports overlap or die
\* (ingest/pipeline.py: ingest_finding).
THEOREM FindingsStayTraceable ==
  ASSUME VendorIdsAreStable
  PROVE  Spec => []Traceable
  <1>1. TraceInv => Traceable
    BY DEF TraceInv, Unedited, Traced, Traceable
  <1> QED BY <1>1, TraceInvariant, PTL

-----------------------------------------------------------------------------
(* What the worker's chain saw                                             *)

Ids(runs) == {r.id : r \in runs}

\* Runs of open imports are none of the completed ones, nor each other's.
RunsApart ==
    /\ \A j \in Jobs : job[j].phase = "batch" => job[j].run \notin Ids(completed)
    /\ \A i, j \in Jobs : i # j /\ job[i].phase = "batch" /\ job[j].phase = "batch" =>
           job[i].run # job[j].run
    /\ chain.known \subseteq completed

\* New findings the detection saw, still under a run it knew.
Left == {k \in chain.saw : findings[k].status = "new" /\ findings[k].run \in Ids(chain.known)}

\* They are still the chain's own run's, then on its list.
SeenSound ==
    /\ chain.phase \in {"detected", "triaging", "done"} => chain.saw \subseteq DOMAIN findings
    /\ chain.phase = "detected" => \A k \in Left : findings[k].run = chain.run
    /\ chain.phase \in {"triaging", "done"} => Left \subseteq chain.list

ChainInv == TypeInv /\ RunsApart /\ SeenSound

LEMMA RunNumbers ==
  ASSUME TypeInv
  PROVE  /\ \A r \in completed : r.id \in 1..opened
         /\ \A j \in Jobs : job[j].phase = "batch" => job[j].run \in 1..opened
         /\ opened \in Nat
  BY Numbers DEF TypeInv, JobSound

LEMMA OneMoreRun ==
  ASSUME NEW runs, NEW id, NEW trigger
  PROVE  Ids(runs \cup {[id |-> id, trigger |-> trigger]}) = Ids(runs) \cup {id}
  <1> DEFINE new == [id |-> id, trigger |-> trigger]
  <1>1. new.id = id
    OBVIOUS
  <1> HIDE DEF new
  <1>2. Ids(runs \cup {new}) = Ids(runs) \cup {id}
    BY <1>1 DEF Ids
  <1> QED BY <1>2 DEF new

\* Steps that neither complete a run nor write findings.
LEMMA ChainStays ==
  ASSUME ChainInv, TypeInv', UNCHANGED <<findings, completed, chain>>,
         \A j \in Jobs : job'[j].phase = "batch" =>
            job[j].phase = "batch" /\ job'[j].run = job[j].run
  PROVE  ChainInv'
  <1>1. RunsApart'
    BY DEF ChainInv, RunsApart
  <1>2. SeenSound'
    BY DEF ChainInv, SeenSound, Left
  <1> QED BY <1>1, <1>2 DEF ChainInv

LEMMA OpenApart ==
  ASSUME ChainInv, TypeInv', NEW j \in Jobs, OpenRun(j)
  PROVE  ChainInv'
  <1>0. TypeInv
    BY DEF ChainInv
  <1>1. /\ job'[j].run = opened + 1 /\ \A i \in Jobs \ {j} : job'[i] = job[i]
        /\ UNCHANGED <<findings, completed, chain>>
    BY <1>0, OpenFields DEF OpenRun
  <1>2. RunsApart'
    <2>1. /\ \A r \in completed : r.id # opened + 1
          /\ \A i \in Jobs : job[i].phase = "batch" => job[i].run # opened + 1
      BY <1>0, RunNumbers
    <2> QED BY <1>1, <2>1 DEF ChainInv, RunsApart, Ids
  <1>3. SeenSound'
    BY <1>1 DEF ChainInv, SeenSound, Left
  <1> QED BY <1>2, <1>3 DEF ChainInv

LEMMA CommitApart ==
  ASSUME ChainInv, TypeInv', NEW j \in Jobs, CommitImport(j)
  PROVE  ChainInv'
  <1>0. TypeInv
    BY DEF ChainInv
  <1>1. /\ job[j].phase = "batch" /\ chain' = chain
        /\ findings' = Over(job[j].finds, findings)
        /\ completed' = completed \cup {[id |-> job[j].run, trigger |-> "ingest"]}
        /\ job'[j].phase = "idle" /\ \A i \in Jobs \ {j} : job'[i] = job[i]
    BY <1>0, IdleFields DEF CommitImport, TypeInv
  <1>2. /\ DOMAIN findings' = DOMAIN job[j].finds \cup DOMAIN findings
        /\ \A k \in DOMAIN job[j].finds : findings'[k].run = job[j].run
        /\ \A k \in DOMAIN findings \ DOMAIN job[j].finds : findings'[k] = findings[k]
    BY <1>0, <1>1 DEF Over, TypeInv, JobSound
  <1>3. Ids(completed') = Ids(completed) \cup {job[j].run}
    BY <1>1, OneMoreRun
  <1>4. RunsApart'
    BY <1>1, <1>3 DEF ChainInv, RunsApart
  <1>5. job[j].run \notin Ids(chain.known)
    BY <1>1 DEF ChainInv, RunsApart, Ids
  <1>6. ASSUME chain.phase \in {"detected", "triaging", "done"}, NEW k \in Left'
        PROVE  k \in Left /\ findings'[k] = findings[k]
    <2>1. k \in chain.saw /\ findings'[k].status = "new" /\ findings'[k].run \in Ids(chain.known)
      BY <1>1, <1>6 DEF Left
    <2>2. k \in DOMAIN findings \ DOMAIN job[j].finds
      BY <1>2, <1>5, <1>6, <2>1 DEF ChainInv, SeenSound
    <2> QED BY <1>2, <2>1, <2>2 DEF Left
  <1>7. SeenSound'
    BY <1>1, <1>2, <1>6 DEF ChainInv, SeenSound
  <1> QED BY <1>4, <1>7 DEF ChainInv

LEMMA ScanApart ==
  ASSUME ChainInv, TypeInv', CommitScan
  PROVE  ChainInv'
  <1>0. TypeInv
    BY DEF ChainInv
  <1>1. /\ chain'.phase = "scanned" /\ chain'.known = chain.known /\ job' = job
        /\ completed' = completed \cup {[id |-> opened + 1, trigger |-> "scan"]}
    BY <1>0 DEF CommitScan, TypeInv, ChainSound
  <1>2. Ids(completed') = Ids(completed) \cup {opened + 1}
    BY <1>1, OneMoreRun
  <1>3. \A i \in Jobs : job[i].phase = "batch" => job[i].run # opened + 1
    BY <1>0, RunNumbers
  <1>4. RunsApart'
    BY <1>1, <1>2, <1>3 DEF ChainInv, RunsApart
  <1>5. SeenSound'
    BY <1>1 DEF SeenSound
  <1> QED BY <1>4, <1>5 DEF ChainInv

LEMMA DetectSeen ==
  ASSUME ChainInv, TypeInv', NEW keys, ChainDetect(keys)
  PROVE  ChainInv'
  <1>0. TypeInv
    BY DEF ChainInv
  <1>1. /\ chain'.phase = "detected" /\ chain'.run = Latest.id /\ chain'.saw = keys
        /\ chain'.known = completed /\ Latest.id \in 1..opened
        /\ DOMAIN findings' = keys \cup DOMAIN findings
        /\ \A k \in keys : findings'[k] = UpsertFinding(findings, k, Latest.id)
    BY <1>0, DetectFields
  <1>2. \A k \in keys : findings'[k].run = Latest.id
    <2>1. \A k \in DOMAIN findings : findings[k] \in FindingRow
      BY <1>0 DEF TypeInv
    <2> QED BY <1>1, <2>1, UpsertedRow
  <1>3. RunsApart'
    BY <1>1 DEF ChainInv, RunsApart, ChainDetect
  <1>4. SeenSound'
    BY <1>1, <1>2 DEF SeenSound, Left
  <1> QED BY <1>3, <1>4 DEF ChainInv

LEMMA TriageSeen ==
  ASSUME ChainInv, TypeInv', ChainTriage
  PROVE  ChainInv'
  <1>1. /\ chain.phase = "detected" /\ chain'.phase = "triaging" /\ chain'.saw = chain.saw
        /\ chain'.known = chain.known
        /\ chain'.list = {k \in DOMAIN findings :
                             findings[k].run = chain.run /\ findings[k].status = "new"}
        /\ UNCHANGED <<findings, completed, job>>
    BY DEF ChainTriage, ChainInv, TypeInv, ChainSound
  <1>2. Left' = Left /\ chain.saw \subseteq DOMAIN findings
        /\ \A k \in Left : k \in chain.saw /\ findings[k].run = chain.run
                           /\ findings[k].status = "new"
    BY <1>1 DEF ChainInv, SeenSound, Left
  <1>3. RunsApart'
    BY <1>1 DEF ChainInv, RunsApart
  <1>4. SeenSound'
    BY <1>1, <1>2 DEF SeenSound
  <1> QED BY <1>3, <1>4 DEF ChainInv

LEMMA EndsSeen ==
  ASSUME ChainInv, TypeInv', ChainEnds
  PROVE  ChainInv'
  <1>1. /\ chain.phase = "triaging" /\ chain'.phase = "done" /\ chain'.saw = chain.saw
        /\ chain'.known = chain.known /\ chain'.list = chain.list
        /\ UNCHANGED <<completed, job>>
        /\ DOMAIN findings' = DOMAIN findings
        /\ \A k \in DOMAIN findings \ chain.list : findings'[k] = findings[k]
    BY DEF ChainEnds, ChainInv, TypeInv, ChainSound
  <1>2. RunsApart'
    BY <1>1 DEF ChainInv, RunsApart
  <1>3. ASSUME NEW k \in Left' PROVE k \in chain.list
    <2>1. k \in DOMAIN findings /\ findings'[k].status = "new"
          /\ k \in chain.saw /\ findings'[k].run \in Ids(chain.known)
      BY <1>1, <1>3 DEF Left, ChainInv, SeenSound
    <2>2. CASE k \notin chain.list
      <3>1. findings'[k] = findings[k]
        BY <1>1, <2>1, <2>2
      <3>2. k \in Left
        BY <2>1, <3>1 DEF Left
      <3> QED BY <1>1, <3>2 DEF ChainInv, SeenSound
    <2> QED BY <2>2
  <1>4. SeenSound'
    BY <1>1, <1>3 DEF ChainInv, SeenSound
  <1> QED BY <1>2, <1>4 DEF ChainInv

LEMMA InitChain == Init => ChainInv
  <1> SUFFICES ASSUME Init PROVE ChainInv
    OBVIOUS
  <1>1. (\A j \in Jobs : job[j] = Idle) /\ chain.phase = "idle" /\ chain.known = {}
    BY DEF Init, NoChain
  <1> QED BY <1>1, InitTypes, IdleFields DEF ChainInv, RunsApart, SeenSound

LEMMA StepChain == ChainInv /\ [Next]_vars => ChainInv'
  <1> SUFFICES ASSUME ChainInv, [Next]_vars PROVE ChainInv'
    OBVIOUS
  <1>0. TypeInv
    BY DEF ChainInv
  <1>t. TypeInv' /\ DOMAIN job = Jobs
    BY <1>0, StepTypes, Numbers
  <1>1. ASSUME NEW j \in Jobs, UNCHANGED <<findings, completed, chain>>,
               job'[j].phase = "batch" => job[j].phase = "batch" /\ job'[j].run = job[j].run,
               \A i \in Jobs \ {j} : job'[i] = job[i]
        PROVE  ChainInv'
    BY <1>t, <1>1, ChainStays
  <1>2. ASSUME NEW j \in Jobs, NEW s \in Sources, BeginImport(j, s) PROVE ChainInv'
    <2>1. PICK since : job' = [job EXCEPT ![j] = [Idle EXCEPT !.phase = "fetch", !.src = s,
                                                              !.since = since]]
      BY <1>2 DEF BeginImport
    <2>2. job'[j].phase = "fetch" /\ \A i \in Jobs \ {j} : job'[i] = job[i]
      BY <2>1, <1>t, IdleFields DEF JobFields
    <2>3. UNCHANGED <<findings, completed, chain>>
      BY <1>2 DEF BeginImport
    <2> QED BY <1>1, <2>2, <2>3
  <1>3. ASSUME NEW j \in Jobs, Fetch(j) PROVE ChainInv'
    <2>1. job'[j].phase = "open"
      BY <1>0, <1>3, FetchFields
    <2>2. UNCHANGED <<findings, completed, chain>> /\ \A i \in Jobs \ {j} : job'[i] = job[i]
      BY <1>3 DEF Fetch
    <2> QED BY <1>1, <2>1, <2>2
  <1>4. ASSUME NEW j \in Jobs, OpenRun(j) PROVE ChainInv'
    BY <1>t, <1>4, OpenApart
  <1>5. ASSUME NEW j \in Jobs, NEW f \in job[j].todo, IngestFinding(j, f) PROVE ChainInv'
    <2>0. Ingested(j, f)
      BY <1>0, <1>5, IngestFields
    <2>1. job[j].phase = "batch" /\ job'[j].run = job[j].run
      BY <2>0 DEF Ingested
    <2>2. UNCHANGED <<findings, completed, chain>> /\ \A i \in Jobs \ {j} : job'[i] = job[i]
      BY <1>5 DEF IngestFinding
    <2> QED BY <1>1, <2>1, <2>2
  <1>6. ASSUME NEW j \in Jobs, CommitImport(j) PROVE ChainInv'
    BY <1>t, <1>6, CommitApart
  <1>7. ASSUME NEW j \in Jobs, AbortImport(j) PROVE ChainInv'
    <2>1. job'[j] = Idle /\ (\A i \in Jobs \ {j} : job'[i] = job[i])
          /\ UNCHANGED <<findings, completed, chain>>
      BY <1>t, <1>7 DEF AbortImport
    <2> QED BY <1>1, <2>1, IdleFields
  <1>8. CASE CommitScan
    BY <1>t, <1>8, ScanApart
  <1>9. ASSUME NEW keys \in SUBSET Detectable, ChainDetect(keys) PROVE ChainInv'
    BY <1>t, <1>9, DetectSeen
  <1>10. CASE ChainTriage
    BY <1>t, <1>10, TriageSeen
  <1>11. CASE ChainEnds
    BY <1>t, <1>11, EndsSeen
  <1>12. CASE \/ \E s \in Sources : \E r \in Reportable[system[s]] : Report(s, r)
              \/ \E o \in Orgs : EditOrg(o)
              \/ UNCHANGED vars
    <2>1. UNCHANGED <<findings, completed, chain, job>>
      BY <1>12 DEF Report, EditOrg, vars
    <2> QED BY <1>t, <2>1, ChainStays
  <1> QED BY <1>2, <1>3, <1>4, <1>5, <1>6, <1>7, <1>8, <1>9, <1>10, <1>11, <1>12 DEF Next

\* What the chain's detection saw and is new was on the list the chain's triage
\* read, or an import took it into a run that was not complete when the detection
\* ran (cli.py: _run_pipeline_chain).  What triage leaves new of its list is not
\* promised to be adjudicated.
THEOREM DetectedReachesTriage == Spec => []DetectedIsListed
  <1>1. ChainInv => DetectedIsListed
    <2> SUFFICES ASSUME ChainInv, chain.phase \in {"triaging", "done"}, NEW k \in chain.saw,
                        findings[k].status = "new", findings[k].run \in Ids(chain.known)
                 PROVE  k \in chain.list
      BY DEF DetectedIsListed, Ids
    <2>1. k \in Left
      BY DEF Left
    <2> QED BY <2>1 DEF ChainInv, SeenSound
  <1> QED BY <1>1, InitChain, StepChain, PTL DEF Spec

-----------------------------------------------------------------------------
(* What a watermark stands for                                             *)

\* What was made of a recorded item is in the database.
Stored(s, e) == \A f \in Parse(system[s], e.rec) : <<s, f.ext>> \in DOMAIN raw

Accounted(s, e) == e \in excused[s] \/ Stored(s, e)

\* An import has stored the item, is about to, or knows that it was cut off.
Taken(j, s, e) ==
    \/ Accounted(s, e)
    \/ e \in job[j].cut
    \/ \A f \in Parse(system[s], e.rec) :
           f \in job[j].todo \/ <<s, f.ext>> \in DOMAIN raw \cup DOMAIN job[j].raws

JobAccounts(j, s) ==
    job[j].phase # "idle" /\ job[j].src = s /\ system[s] # "mandiant_asm" =>
        \A e \in reported[s] :
            /\ e.at <= job[j].since => Accounted(s, e)
            /\ job[j].phase \in {"open", "batch"} /\ e.at <= job[j].read => Taken(j, s, e)

WatermarkSound ==
    \A s \in Sources : system[s] # "mandiant_asm" =>
        \A e \in reported[s] : e.at <= watermark[s] => Accounted(s, e)

GapInv ==
    /\ TypeInv
    /\ DOMAIN excused = Sources
    /\ WatermarkSound
    /\ \A j \in Jobs : \A s \in Sources : JobAccounts(j, s)

\* What is stored or excused stays so.
OnlyGrows ==
    /\ system' = system
    /\ DOMAIN raw \subseteq DOMAIN raw'
    /\ DOMAIN excused' = Sources /\ \A s \in Sources : excused[s] \subseteq excused'[s]

LEMMA AccountedStays ==
  ASSUME OnlyGrows, NEW s \in Sources, NEW e, Accounted(s, e)
  PROVE  Accounted(s, e)'
  BY DEF OnlyGrows, Accounted, Stored

\* An import at the same point as before, or abandoned.
Holds(i) ==
    \/ job'[i].phase = "idle"
    \/ /\ job[i].phase # "idle" /\ job[i].src \in Sources
       /\ job'[i].phase \in {"open", "batch"} => job[i].phase \in {"open", "batch"}
       /\ job'[i].src = job[i].src /\ job'[i].since = job[i].since
       /\ job'[i].read = job[i].read /\ job'[i].cut = job[i].cut
       /\ job'[i].raws = job[i].raws /\ job'[i].todo = job[i].todo

LEMMA AccountsStay ==
  ASSUME OnlyGrows, reported' = reported, NEW i, NEW s \in Sources, JobAccounts(i, s), Holds(i)
  PROVE  JobAccounts(i, s)'
  <1> SUFFICES ASSUME job'[i].phase # "idle", job'[i].src = s, system'[s] # "mandiant_asm",
                      NEW e \in reported[s]
               PROVE  /\ e.at <= job'[i].since => Accounted(s, e)'
                      /\ job'[i].phase \in {"open", "batch"} /\ e.at <= job'[i].read
                            => Taken(i, s, e)'
    BY DEF JobAccounts
  <1>1. /\ job[i].phase # "idle" /\ job[i].src = s /\ system[s] # "mandiant_asm"
        /\ job'[i].since = job[i].since /\ job'[i].read = job[i].read
        /\ job'[i].phase \in {"open", "batch"} => job[i].phase \in {"open", "batch"}
    BY DEF Holds, OnlyGrows
  <1>2. Accounted(s, e) => Accounted(s, e)'
    BY AccountedStays
  <1>3. Taken(i, s, e) => Taken(i, s, e)'
    BY <1>1, <1>2 DEF Taken, Holds, OnlyGrows
  <1> QED BY <1>1, <1>2, <1>3 DEF JobAccounts

\* Steps that leave vendors, the database and the watermarks alone, but for one job.
LEMMA GapStays ==
  ASSUME GapInv, TypeInv', UNCHANGED <<system, reported, watermark, raw, excused>>,
         NEW j \in Jobs, \A s \in Sources : JobAccounts(j, s)',
         \A i \in Jobs \ {j} : job'[i] = job[i]
  PROVE  GapInv'
  <1>1. OnlyGrows
    BY DEF GapInv, OnlyGrows
  <1>2. \A i \in Jobs \ {j} : Holds(i)
    BY DEF Holds, GapInv, TypeInv, JobSound
  <1>3. \A i \in Jobs : \A s \in Sources : JobAccounts(i, s)'
    BY <1>1, <1>2, AccountsStay DEF GapInv
  <1>4. WatermarkSound'
    BY DEF GapInv, WatermarkSound, Accounted, Stored
  <1> QED BY <1>1, <1>3, <1>4 DEF GapInv, OnlyGrows

LEMMA BeginGap ==
  ASSUME GapInv, TypeInv', NEW j \in Jobs, NEW s \in Sources, BeginImport(j, s)
  PROVE  GapInv'
  <1>0. TypeInv
    BY DEF GapInv
  <1>1. PICK since \in Since(s) :
          job' = [job EXCEPT ![j] = [Idle EXCEPT !.phase = "fetch", !.src = s, !.since = since]]
    BY DEF BeginImport
  <1>2. job'[j].phase = "fetch" /\ job'[j].src = s /\ job'[j].since = since
        /\ \A i \in Jobs \ {j} : job'[i] = job[i]
    BY <1>0, <1>1, IdleFields DEF TypeInv, JobFields
  <1>3. UNCHANGED <<system, reported, watermark, raw, excused>>
    BY DEF BeginImport
  <1>4. ASSUME system[s] # "mandiant_asm", NEW e \in reported[s], e.at <= since
        PROVE  Accounted(s, e)
    <2>1. e.at \in 1..clock /\ clock \in Nat
      BY <1>0, Numbers DEF TypeInv
    <2>2. CASE system[s] = "custom"
      <3>1. since = watermark[s]
        BY <2>2 DEF Since
      <3> QED BY <1>4, <3>1 DEF GapInv, WatermarkSound
    <2>3. CASE system[s] # "custom"
      <3>1. since = 0
        BY <1>4, <2>3 DEF Since, Incremental
      <3> QED BY <1>4, <2>1, <3>1
    <2> QED BY <2>2, <2>3
  <1>5. \A t \in Sources : JobAccounts(j, t)'
    BY <1>2, <1>3, <1>4 DEF JobAccounts, Accounted, Stored
  <1> QED BY <1>2, <1>3, <1>5, GapStays

LEMMA FetchGap ==
  ASSUME GapInv, TypeInv', NEW j \in Jobs, Fetch(j)
  PROVE  GapInv'
  <1>0. TypeInv
    BY DEF GapInv
  <1>s. PICK s \in Sources : s = job[j].src
    BY <1>0, FetchFields
  <1> DEFINE matching == {e \in reported[s] : e.at > job[j].since}
  <1>1. /\ job[j].phase = "fetch" /\ job'[j].phase = "open"
        /\ job'[j].src = s /\ job'[j].since = job[j].since /\ job'[j].read = clock
    BY <1>0, <1>s, FetchFields
  <1>2. PICK got \in SUBSET matching :
          job'[j].cut = matching \ got
          /\ job'[j].todo = ParseAll(system[s], {e.rec : e \in got})
    BY <1>0, <1>s, FetchFields
  <1>3. UNCHANGED <<system, reported, watermark, raw, excused>>
        /\ \A i \in Jobs \ {j} : job'[i] = job[i]
    BY DEF Fetch
  <1>4. ASSUME system[s] # "mandiant_asm", NEW e \in reported[s]
        PROVE  /\ e.at <= job[j].since => Accounted(s, e)'
               /\ Taken(j, s, e)'
    <2>1. e.at <= job[j].since => Accounted(s, e)
      BY <1>s, <1>1, <1>4 DEF GapInv, JobAccounts
    <2>2. Accounted(s, e) => Accounted(s, e)'
      BY <1>3 DEF Accounted, Stored
    <2>3. ASSUME e \in got PROVE Taken(j, s, e)'
      <3>1. \A f \in Parse(system[s], e.rec) : f \in job'[j].todo
        BY <1>2, <2>3 DEF ParseAll
      <3> QED BY <1>3, <3>1 DEF Taken
    <2>4. e.at > job[j].since /\ e \notin got => Taken(j, s, e)'
      BY <1>2, <1>4 DEF Taken
    <2>5. e.at \in Nat /\ job[j].since \in Nat
      BY <1>0, <1>1, <1>4, <1>s, Numbers DEF TypeInv, JobSound
    <2> QED BY <2>1, <2>2, <2>3, <2>4, <2>5 DEF Taken
  <1>5. \A t \in Sources : JobAccounts(j, t)'
    BY <1>1, <1>3, <1>4 DEF JobAccounts
  <1> QED BY <1>3, <1>5, GapStays

LEMMA IngestGap ==
  ASSUME GapInv, TypeInv', NEW j \in Jobs, NEW f \in job[j].todo, IngestFinding(j, f)
  PROVE  GapInv'
  <1>0. TypeInv
    BY DEF GapInv
  <1>i. Ingested(j, f)
    BY <1>0, IngestFields
  <1>s. PICK s \in Sources : s = job[j].src
    BY <1>i DEF Ingested
  <1>1. /\ job[j].phase = "batch"
        /\ job'[j].phase = "batch" /\ job'[j].src = s /\ job'[j].since = job[j].since
        /\ job'[j].read = job[j].read /\ job'[j].cut = job[j].cut
        /\ job'[j].todo = job[j].todo \ {f}
        /\ DOMAIN job'[j].raws = DOMAIN job[j].raws \cup {<<s, f.ext>>}
    BY <1>i, <1>s DEF Ingested
  <1>2. UNCHANGED <<system, reported, watermark, raw, excused>>
        /\ \A i \in Jobs \ {j} : job'[i] = job[i]
    BY DEF IngestFinding
  <1>3. ASSUME NEW e, Accounted(s, e) PROVE Accounted(s, e)'
    BY <1>2, <1>3 DEF Accounted, Stored
  <1>4. ASSUME NEW e, Taken(j, s, e) PROVE Taken(j, s, e)'
    <2>1. CASE Accounted(s, e) \/ e \in job[j].cut
      BY <1>1, <1>3, <2>1 DEF Taken
    <2>2. CASE \A g \in Parse(system[s], e.rec) :
                  g \in job[j].todo \/ <<s, g.ext>> \in DOMAIN raw \cup DOMAIN job[j].raws
      <3>1. \A g \in Parse(system[s], e.rec) :
                  g \in job'[j].todo \/ <<s, g.ext>> \in DOMAIN raw \cup DOMAIN job'[j].raws
        BY <1>1, <2>2
      <3> QED BY <1>2, <3>1 DEF Taken
    <2> QED BY <1>4, <2>1, <2>2 DEF Taken
  <1>5. JobAccounts(j, s)
    BY DEF GapInv
  <1>6. \A t \in Sources : JobAccounts(j, t)'
    BY <1>s, <1>1, <1>2, <1>3, <1>4, <1>5 DEF JobAccounts
  <1> QED BY <1>2, <1>6, GapStays

LEMMA CommitGap ==
  ASSUME GapInv, TypeInv', NEW j \in Jobs, CommitImport(j)
  PROVE  GapInv'
  <1>0. TypeInv
    BY DEF GapInv
  <1>s. PICK s \in Sources : s = job[j].src
    BY <1>0 DEF CommitImport, TypeInv, JobSound
  <1>1. /\ job[j].phase = "batch" /\ job[j].todo = {}
        /\ DOMAIN job = Jobs /\ DOMAIN watermark = Sources /\ DOMAIN excused = Sources
    BY <1>0 DEF CommitImport, GapInv, TypeInv, JobSound
  <1>2. /\ UNCHANGED <<system, reported>>
        /\ DOMAIN raw' = DOMAIN job[j].raws \cup DOMAIN raw
        /\ DOMAIN excused' = Sources
        /\ excused'[s] = excused[s] \cup PassedOver(j)
        /\ \A t \in Sources \ {s} : excused'[t] = excused[t] /\ watermark'[t] = watermark[t]
        /\ watermark'[s] = NewWatermark(j)
        /\ job'[j] = Idle /\ \A i \in Jobs \ {j} : job'[i] = job[i]
    BY <1>1, <1>s DEF CommitImport, Over
  <1>3. OnlyGrows
    BY <1>2 DEF OnlyGrows
  <1>4. \A i \in Jobs : \A t \in Sources : JobAccounts(i, t)'
    <2>1. \A i \in Jobs : Holds(i)
      BY <1>0, <1>2, IdleFields DEF Holds, TypeInv, JobSound
    <2> QED BY <1>2, <1>3, <2>1, AccountsStay DEF GapInv
  <1>5. ASSUME NEW e \in reported[s], system[s] # "mandiant_asm", e.at <= job[j].now
        PROVE  Accounted(s, e)'
    <2>1. CASE e.at <= job[j].read
      <3>1. Taken(j, s, e)
        BY <1>s, <1>1, <1>5, <2>1 DEF GapInv, JobAccounts
      <3>2. CASE Accounted(s, e)
        BY <1>1, <1>3, <3>2, AccountedStays
      <3>3. CASE e \in job[j].cut
        BY <1>2, <3>3 DEF Accounted, PassedOver
      <3>4. CASE \A f \in Parse(system[s], e.rec) :
                    \/ f \in job[j].todo
                    \/ <<s, f.ext>> \in DOMAIN raw \cup DOMAIN job[j].raws
        BY <1>1, <1>2, <3>4 DEF Accounted, Stored
      <3> QED BY <3>1, <3>2, <3>3, <3>4 DEF Taken
    <2>2. CASE job[j].read < e.at
      BY <1>s, <1>2, <1>5, <2>2 DEF Accounted, PassedOver
    <2>3. e.at \in Nat /\ job[j].read \in Nat
      BY <1>0, <1>1, <1>5, Numbers DEF TypeInv, JobSound
    <2> QED BY <2>1, <2>2, <2>3
  <1>6. ASSUME NEW t \in Sources, system[t] # "mandiant_asm", NEW e \in reported[t],
               e.at <= watermark'[t]
        PROVE  Accounted(t, e)'
    <2>1. CASE e.at <= watermark[t]
      <3>1. Accounted(t, e)
        BY <1>6, <2>1 DEF GapInv, WatermarkSound
      <3> QED BY <1>3, <3>1, AccountedStays
    <2>2. CASE ~(e.at <= watermark[t])
      <3>1. t = s /\ watermark'[s] = job[j].now
        BY <1>s, <1>2, <1>6, <2>2 DEF NewWatermark
      <3> QED BY <1>5, <1>6, <3>1
    <2> QED BY <2>1, <2>2
  <1>7. WatermarkSound'
    BY <1>2, <1>6 DEF WatermarkSound
  <1> QED BY <1>2, <1>4, <1>7 DEF GapInv

LEMMA ReportGap ==
  ASSUME GapInv, TypeInv', NEW s \in Sources, NEW r \in Reportable[system[s]], Report(s, r)
  PROVE  GapInv'
  <1>0. TypeInv
    BY DEF GapInv
  <1> DEFINE new == [rec |-> r, at |-> clock + 1]
  <1>1. /\ UNCHANGED <<system, watermark, raw, excused, job>>
        /\ reported' = [reported EXCEPT ![s] = @ \cup {new}]
        /\ new.at = clock + 1
    BY DEF Report
  <1> HIDE DEF new
  <1>2. \A t \in Sources : \A e \in reported'[t] : e \in reported[t] \/ e = new
    BY <1>0, <1>1 DEF TypeInv
  <1>3. /\ \A t \in Sources : ~(new.at <= watermark[t])
        /\ \A i \in Jobs : job[i].phase # "idle" =>
              /\ job[i].src \in Sources
              /\ ~(new.at <= job[i].since) /\ ~(new.at <= job[i].read)
    BY <1>0, <1>1, Numbers DEF TypeInv, JobSound
  <1>4. WatermarkSound'
    BY <1>1, <1>2, <1>3 DEF GapInv, WatermarkSound, Accounted, Stored
  <1>5. ASSUME NEW i \in Jobs, NEW t \in Sources PROVE JobAccounts(i, t)'
    <2>1. JobAccounts(i, t)
      BY DEF GapInv
    <2>2. ASSUME NEW e PROVE (Taken(i, t, e)' <=> Taken(i, t, e))
                             /\ (Accounted(t, e)' <=> Accounted(t, e))
      BY <1>1 DEF Taken, Accounted, Stored
    <2> QED BY <1>1, <1>2, <1>3, <2>1, <2>2 DEF JobAccounts
  <1> QED BY <1>1, <1>4, <1>5 DEF GapInv

LEMMA InitGap == Init => GapInv
  <1> SUFFICES ASSUME Init PROVE GapInv
    OBVIOUS
  <1>1. (\A j \in Jobs : job[j] = Idle) /\ (\A s \in Sources : reported[s] = {})
        /\ DOMAIN excused = Sources
    BY DEF Init
  <1> QED BY <1>1, InitTypes, IdleFields DEF GapInv, WatermarkSound, JobAccounts

LEMMA StepGap == GapInv /\ [Next]_vars => GapInv'
  <1> SUFFICES ASSUME GapInv, [Next]_vars PROVE GapInv'
    OBVIOUS
  <1>0. TypeInv
    BY DEF GapInv
  <1>t. TypeInv' /\ DOMAIN job = Jobs
    BY <1>0, StepTypes, Numbers
  <1>1. ASSUME NEW j \in Jobs, UNCHANGED <<system, reported, watermark, raw, excused>>,
               Holds(j), \A i \in Jobs \ {j} : job'[i] = job[i]
        PROVE  GapInv'
    <2>1. OnlyGrows
      BY <1>1 DEF GapInv, OnlyGrows
    <2>2. \A s \in Sources : JobAccounts(j, s)'
      BY <1>1, <2>1, AccountsStay DEF GapInv
    <2> QED BY <1>t, <1>1, <2>2, GapStays
  <1>2. ASSUME NEW j \in Jobs, NEW s \in Sources, BeginImport(j, s) PROVE GapInv'
    BY <1>t, <1>2, BeginGap
  <1>3. ASSUME NEW j \in Jobs, Fetch(j) PROVE GapInv'
    BY <1>t, <1>3, FetchGap
  <1>4. ASSUME NEW j \in Jobs, OpenRun(j) PROVE GapInv'
    <2>1. Holds(j)
      BY <1>0, <1>4, OpenFields DEF Holds
    <2>2. UNCHANGED <<system, reported, watermark, raw, excused>>
          /\ \A i \in Jobs \ {j} : job'[i] = job[i]
      BY <1>4 DEF OpenRun
    <2> QED BY <1>1, <2>1, <2>2
  <1>5. ASSUME NEW j \in Jobs, NEW f \in job[j].todo, IngestFinding(j, f) PROVE GapInv'
    BY <1>t, <1>5, IngestGap
  <1>6. ASSUME NEW j \in Jobs, CommitImport(j) PROVE GapInv'
    BY <1>t, <1>6, CommitGap
  <1>7. ASSUME NEW j \in Jobs, AbortImport(j) PROVE GapInv'
    <2>1. job'[j] = Idle /\ (\A i \in Jobs \ {j} : job'[i] = job[i])
          /\ UNCHANGED <<system, reported, watermark, raw, excused>>
      BY <1>t, <1>7 DEF AbortImport
    <2>2. Holds(j)
      BY <2>1, IdleFields DEF Holds
    <2> QED BY <1>1, <2>1, <2>2
  <1>8. ASSUME NEW s \in Sources, NEW r \in Reportable[system[s]], Report(s, r) PROVE GapInv'
    BY <1>t, <1>8, ReportGap
  <1>9. CASE \/ \E o \in Orgs : EditOrg(o)
             \/ CommitScan \/ ChainTriage \/ ChainEnds
             \/ \E keys \in SUBSET Detectable : ChainDetect(keys)
             \/ UNCHANGED vars
    <2>1. UNCHANGED <<system, reported, watermark, raw, excused, job>>
      BY <1>9 DEF EditOrg, CommitScan, ChainTriage, ChainEnds, ChainDetect, vars
    <2>2. WatermarkSound' /\ DOMAIN excused' = Sources
      BY <2>1 DEF GapInv, WatermarkSound, Accounted, Stored
    <2>3. \A i \in Jobs : \A s \in Sources : JobAccounts(i, s)'
      BY <2>1 DEF GapInv, JobAccounts, Taken, Accounted, Stored
    <2> QED BY <1>t, <2>2, <2>3 DEF GapInv
  <1> QED BY <1>2, <1>3, <1>4, <1>5, <1>6, <1>7, <1>8, <1>9 DEF Next

\* Up to a source's watermark nothing is missing but what its syncs passed over,
\* whichever syncs of it overlap, abort or write the watermark last (ingest/sync.py).
THEOREM NothingMissingButTheGap == Spec => []SkippedOnlyInTheGap
  <1>1. GapInv => SkippedOnlyInTheGap
    BY DEF GapInv, WatermarkSound, SkippedOnlyInTheGap, Accounted, Stored
  <1> QED BY <1>1, InitGap, StepGap, PTL DEF Spec

================================================================================
