------------------------------- MODULE Ingest -------------------------------
(***************************************************************************)
(* Imports of other tools' findings (`ingest/sync.py`, `ingest/pipeline.py`,*)
(* the import commands of `cli.py`) beside the worker's chain, which        *)
(* detects and triages what the latest completed run holds.                 *)
(*                                                                          *)
(* An import fetches a report, opens a completed ScanRun of its own, and    *)
(* upserts one Finding and one ExternalFindingRaw row per imported finding, *)
(* all in one transaction: a job buffers its rows and publishes them at its *)
(* commit.  The SELECT and the flush of one upsert are one step, and a job  *)
(* waits for the rows another one has flushed; an INSERT that loses a race  *)
(* on a unique constraint is an Abort.                                      *)
(***************************************************************************)
EXTENDS Naturals, FiniteSets, SourceAdapters

CONSTANTS
    Sources,        \* configured sources
    Jobs,           \* import commands that may overlap
    Reportable,     \* [Systems -> set of records such a tool may report]
    Orgs,           \* org-contexts: what vendor_mapping.yaml and the categories say
    Spelling,       \* [other spellings of an asset -> its canonical form]
    Detectable,     \* finding keys kiyooo's own detection may produce
    PageCap,        \* items of max_pages pages of a generic source
    MaxClock, MaxRuns, MaxEdits    \* bounds on instants, scan runs, edits

VARIABLES
    system,     \* [Sources -> Systems]
    clock,      \* the latest instant something was recorded at a vendor
    reported,   \* [Sources -> what the vendor has recorded, and when]
    org,        \* the org-context on disk
    edits,      \* how often it was edited
    watermark,  \* [Sources -> ExternalFindingSource.last_sync_at, 0 for none]
    raw,        \* ExternalFindingRaw rows, by <<source, external id>>
    findings,   \* Finding rows, by fingerprint
    opened,     \* scan runs opened so far
    completed,  \* committed ScanRuns
    job,        \* [Jobs -> one import]
    chain,      \* the worker's chain
    imported,   \* history: fingerprints a committed import has upserted
    excused     \* history: what the watermark of a committed import passed over

vars == <<system, clock, reported, org, edits, watermark, raw, findings, opened,
          completed, job, chain, imported, excused>>

ParametersAssumption ==
    /\ PageCap \in Nat \ {0} /\ MaxClock \in Nat /\ MaxRuns \in Nat /\ MaxEdits \in Nat
    /\ DOMAIN Reportable = Systems
ASSUME ParametersAssumption

-----------------------------------------------------------------------------
(* The decision `ingest_finding` takes on one imported finding.            *)

Unmapped == "unmapped"

MapCategory(o, issue) ==
    IF issue \in DOMAIN o.mapping THEN o.mapping[issue] ELSE Unmapped

Granularity(o, c) == o.categories[c].granularity

\* The category a finding is filed under, or Unmapped: no mapping, a mapping to
\* an unknown or disabled category, or one that does not apply to the asset.
CategoryOf(o, f) ==
    LET c == MapCategory(o, f.issue)
    IN  IF /\ c \in DOMAIN o.categories
           /\ o.categories[c].enabled
           /\ f.type \in o.categories[c].applies_to
        THEN c ELSE Unmapped

\* What the Ingest page previews before a source is saved.
WouldMap(o, f) ==
    LET c == MapCategory(o, f.issue)
    IN  /\ c # Unmapped
        /\ c \in DOMAIN o.categories
        /\ o.categories[c].enabled
        /\ f.type \in o.categories[c].applies_to

Discriminator(o, c, f) ==
    IF Granularity(o, c) = "one_per_vendor_finding" THEN f.ext ELSE <<>>

\* Spellings of one asset are one Asset row.
Canonical(value) == IF value \in DOMAIN Spelling THEN Spelling[value] ELSE value

\* category | asset identity | discriminator, whichever tool reported it.
Fingerprint(c, f, d) == <<c, f.type, Canonical(f.asset), d>>

KeyOf(o, f) == Fingerprint(CategoryOf(o, f), f, Discriminator(o, CategoryOf(o, f), f))

-----------------------------------------------------------------------------
NoRows == [k \in {} |-> 0]

\* A transaction's own rows over those of the table.
Over(rows, table) ==
    [k \in DOMAIN rows \cup DOMAIN table |-> IF k \in DOMAIN rows THEN rows[k] ELSE table[k]]

Idle == [phase |-> "idle", src |-> CHOOSE s \in Sources : TRUE, org |-> org, since |-> 0,
         todo |-> {}, read |-> 0, now |-> 0, run |-> 0, cut |-> {},
         raws |-> NoRows, finds |-> NoRows]

NoChain == [phase |-> "idle", run |-> 0, saw |-> {}, known |-> {}, list |-> {}]

Init ==
    /\ system \in [Sources -> Systems]
    /\ clock = 0
    /\ reported = [s \in Sources |-> {}]
    /\ org \in Orgs
    /\ edits = 0
    /\ watermark = [s \in Sources |-> 0]
    /\ raw = NoRows
    /\ findings = NoRows
    /\ opened = 0
    /\ completed = {}
    /\ job = [j \in Jobs |-> Idle]
    /\ chain = NoChain
    /\ imported = {}
    /\ excused = [s \in Sources |-> {}]

\* A flushed row is locked until its job ends.
RowsFree(j, rawKey, findKeys) ==
    \A i \in Jobs \ {j} :
        /\ rawKey \notin DOMAIN job[i].raws
        /\ DOMAIN job[i].finds \cap findKeys = {}

FindingsFree(keys) == \A i \in Jobs : DOMAIN job[i].finds \cap keys = {}

\* Mutant: a known fingerprint keeps the run it was first seen in.
MutUpsertFindingStays(table, key, run) ==
    IF key \in DOMAIN table THEN table[key] ELSE [run |-> run, status |-> "new"]

\* FindingRepository.upsert: a known fingerprint only moves to the present run.
UpsertFinding(table, key, run) ==
    IF key \in DOMAIN table THEN [table[key] EXCEPT !.run = run]
                             ELSE [run |-> run, status |-> "new"]

-----------------------------------------------------------------------------
(* The world outside: vendors record things, people edit org-context.      *)

Report(s, r) ==
    /\ clock < MaxClock
    /\ \A e \in reported[s] : e.rec # r
    /\ clock' = clock + 1
    /\ reported' = [reported EXCEPT ![s] = @ \cup {[rec |-> r, at |-> clock + 1]}]
    /\ UNCHANGED <<system, org, edits, watermark, raw, findings, opened, completed, job,
                   chain, imported, excused>>

EditOrg(o) ==
    /\ edits < MaxEdits
    /\ o # org
    /\ org' = o
    /\ edits' = edits + 1
    /\ UNCHANGED <<system, clock, reported, watermark, raw, findings, opened, completed,
                   job, chain, imported, excused>>

-----------------------------------------------------------------------------
(* One import.                                                             *)

\* Mutant: the watermark of the system, not of the source.
MutSinceOfSystem(s) ==
    {watermark[t] : t \in {u \in Sources : system[u] = system[s]}}

\* Only a generic source asks for what is later than its watermark; an
\* instant for Mandiant's interface is an argument of the command.
Since(s) == IF system[s] = "custom" THEN {watermark[s]}
            ELSE IF system[s] \in Incremental THEN 0..clock ELSE {0}

BeginImport(j, s) ==
    /\ job[j].phase = "idle"
    /\ opened < MaxRuns
    /\ \E since \in Since(s) :
           job' = [job EXCEPT ![j] = [Idle EXCEPT !.phase = "fetch", !.src = s, !.since = since]]
    /\ UNCHANGED <<system, clock, reported, org, edits, watermark, raw, findings, opened,
                   completed, chain, imported, excused>>

\* At most max_pages pages of a generic source are read.
Pages(matching) ==
    {got \in SUBSET matching :
        Cardinality(got) = IF Cardinality(matching) < PageCap THEN Cardinality(matching)
                                                              ELSE PageCap}

\* A file is one export, in which a position occurs once.
Exports(matching) ==
    {got \in SUBSET matching :
        \A e1, e2 \in got : e1.rec.row = e2.rec.row => e1 = e2}

\* A tool reports the present state; one that failed half-way, a part of it.
ToolReports(s, matching) ==
    {got \in SUBSET matching :
        \E decode, end \in ToolEnds :
            /\ Ran(system[s], decode, end)
            /\ ~end.output => got = {}
            /\ end.code = 0 => got = matching}

Reports(s, matching) ==
    CASE system[s] = "custom" -> Pages(matching)
      [] system[s] = "csv"    -> Exports(matching)
      [] system[s] \in Tools  -> ToolReports(s, matching)
      [] OTHER                -> {matching}

Fetch(j) ==
    LET s        == job[j].src
        matching == {e \in reported[s] : e.at > job[j].since}
    IN  /\ job[j].phase = "fetch"
        /\ \E got \in Reports(s, matching) :
               /\ \A e \in got : ~Raises(system[s], e.rec)
               /\ job' = [job EXCEPT ![j] = [@ EXCEPT
                              !.phase = "open",
                              !.read = clock,
                              !.cut = matching \ got,
                              !.todo = ParseAll(system[s], {e.rec : e \in got})]]
        /\ UNCHANGED <<system, clock, reported, org, edits, watermark, raw, findings, opened,
                       completed, chain, imported, excused>>

\* Mutant: the run's row is never inserted.
MutOpenRunForgets(j) ==
    /\ job[j].phase = "open"
    /\ opened < MaxRuns
    /\ job' = [job EXCEPT ![j] = [@ EXCEPT !.phase = "batch", !.now = clock, !.run = opened + 1]]
    /\ UNCHANGED <<system, clock, reported, org, edits, watermark, raw, findings, opened,
                   completed, chain, imported, excused>>

\* The run's row is inserted as completed, before anything is imported.
OpenRun(j) ==
    /\ job[j].phase = "open"
    /\ opened < MaxRuns
    /\ opened' = opened + 1
    /\ job' = [job EXCEPT ![j] = [@ EXCEPT !.phase = "batch", !.now = clock, !.run = opened + 1]]
    /\ UNCHANGED <<system, clock, reported, org, edits, watermark, raw, findings, completed,
                   chain, imported, excused>>

IngestFinding(j, f) ==
    LET o      == job[j].org
        c      == CategoryOf(o, f)
        mapped == c # Unmapped
        rawKey == <<job[j].src, f.ext>>
        keys   == IF mapped THEN {KeyOf(o, f)} ELSE {}
        \* what the transaction sees of findings: its own rows over committed ones
        table  == Over(job[j].finds, findings)
    IN  /\ job[j].phase = "batch"
        /\ f \in job[j].todo
        /\ RowsFree(j, rawKey, keys)
        /\ job' = [job EXCEPT ![j] = [@ EXCEPT
               !.todo = job[j].todo \ {f},
               !.finds = Over([k \in keys |-> UpsertFinding(table, k, job[j].run)], job[j].finds),
               !.raws = Over([k \in {rawKey} |->
                                 [item |-> f, org |-> o, key |-> keys,
                                  status |-> IF mapped THEN "mapped" ELSE Unmapped]],
                             job[j].raws)]]
        /\ UNCHANGED <<system, clock, reported, org, edits, watermark, raw, findings, opened,
                       completed, chain, imported, excused>>

\* A file import leaves its source's watermark alone.
NewWatermark(j) ==
    IF system[job[j].src] \in Files THEN watermark[job[j].src] ELSE job[j].now

PassedOver(j) ==
    job[j].cut \cup {e \in reported[job[j].src] : job[j].read < e.at /\ e.at <= job[j].now}

CommitImport(j) ==
    /\ job[j].phase = "batch"
    /\ job[j].todo = {}
    /\ watermark' = [watermark EXCEPT ![job[j].src] = NewWatermark(j)]
    /\ raw' = Over(job[j].raws, raw)
    /\ findings' = Over(job[j].finds, findings)
    /\ completed' = completed \cup {[id |-> job[j].run, trigger |-> "ingest"]}
    /\ imported' = imported \cup DOMAIN job[j].finds
    /\ excused' = [excused EXCEPT ![job[j].src] = @ \cup PassedOver(j)]
    /\ job' = [job EXCEPT ![j] = Idle]
    /\ UNCHANGED <<system, clock, reported, org, edits, opened, chain>>

\* A tool that is missing or failed, a malformed item, a lost race on a unique
\* constraint, a deadlock, a killed process.
AbortImport(j) ==
    /\ job[j].phase # "idle"
    /\ job' = [job EXCEPT ![j] = Idle]
    /\ UNCHANGED <<system, clock, reported, org, edits, watermark, raw, findings, opened,
                   completed, chain, imported, excused>>

-----------------------------------------------------------------------------
(* The worker: a scan, then detection and triage of the latest completed   *)
(* run, which an import may have opened meanwhile.                         *)

CommitScan ==
    /\ chain.phase = "idle"
    /\ opened < MaxRuns
    /\ opened' = opened + 1
    /\ completed' = completed \cup {[id |-> opened + 1, trigger |-> "scan"]}
    /\ chain' = [chain EXCEPT !.phase = "scanned"]
    /\ UNCHANGED <<system, clock, reported, org, edits, watermark, raw, findings, job,
                   imported, excused>>

Latest == CHOOSE r \in completed : \A q \in completed : q.id <= r.id

\* `_run_detect` upserts what its predicates match under the run it was given.
ChainDetect(keys) ==
    /\ chain.phase = "scanned"
    /\ FindingsFree(keys)
    /\ findings' = Over([k \in keys |-> UpsertFinding(findings, k, Latest.id)], findings)
    /\ chain' = [chain EXCEPT !.phase = "detected", !.run = Latest.id, !.saw = keys,
                              !.known = completed]
    /\ UNCHANGED <<system, clock, reported, org, edits, watermark, raw, opened, completed, job,
                   imported, excused>>

\* The work list of `_run_triage`: the run's new findings, read once.
ChainTriage ==
    /\ chain.phase = "detected"
    /\ chain' = [chain EXCEPT !.phase = "triaging",
                     !.list = {k \in DOMAIN findings :
                                  findings[k].run = chain.run /\ findings[k].status = "new"}]
    /\ UNCHANGED <<system, clock, reported, org, edits, watermark, raw, findings, opened,
                   completed, job, imported, excused>>

\* `_run_triage` adjudicates its list and commits; "triaged" stands for whatever
\* status an adjudication gives.  A cache hit, an unknown category, an asset that
\* is gone and a ProviderError leave a finding "new", the cost ceiling all that
\* come after it, and an exception or a kill the whole list.
ChainEnds ==
    /\ chain.phase = "triaging"
    /\ \E left \in SUBSET chain.list :
           /\ FindingsFree(chain.list \ left)
           /\ findings' = [k \in DOMAIN findings |->
                              IF k \in chain.list \ left
                                THEN [findings[k] EXCEPT !.status = "triaged"]
                                ELSE findings[k]]
    /\ chain' = [chain EXCEPT !.phase = "done"]
    /\ UNCHANGED <<system, clock, reported, org, edits, watermark, raw, opened, completed, job,
                   imported, excused>>

-----------------------------------------------------------------------------
Next ==
    \/ \E s \in Sources : \E r \in Reportable[system[s]] : Report(s, r)
    \/ \E o \in Orgs : EditOrg(o)
    \/ \E j \in Jobs :
           \/ \E s \in Sources : BeginImport(j, s)
           \/ Fetch(j)
           \/ OpenRun(j)
           \/ \E f \in job[j].todo : IngestFinding(j, f)
           \/ CommitImport(j)
           \/ AbortImport(j)
    \/ CommitScan
    \/ \E keys \in SUBSET Detectable : ChainDetect(keys)
    \/ ChainTriage
    \/ ChainEnds

Spec == Init /\ [][Next]_vars

-----------------------------------------------------------------------------
(* Properties                                                              *)

ImportPhases == {"idle", "fetch", "open", "batch"}
ChainPhases == {"idle", "scanned", "detected", "triaging", "done"}

\* Each variable stays within the values the tables and jobs can hold.
TypeOK ==
    /\ system \in [Sources -> Systems]
    /\ clock \in 0..MaxClock /\ edits \in 0..MaxEdits /\ opened \in 0..MaxRuns
    /\ org \in Orgs
    /\ \A s \in Sources : \A e \in reported[s] :
           e.rec \in Reportable[system[s]] /\ e.at \in 1..clock
    /\ watermark \in [Sources -> 0..clock]
    /\ \A k \in DOMAIN raw : k[1] \in Sources /\ raw[k].status \in {"mapped", Unmapped}
    /\ \A k \in DOMAIN findings :
           findings[k].run \in 1..opened /\ findings[k].status \in {"new", "triaged"}
    /\ completed \subseteq [id : 1..opened, trigger : {"ingest", "scan"}]
    /\ \A j \in Jobs : job[j].phase \in ImportPhases
    /\ chain.phase \in ChainPhases /\ chain.run \in 0..opened

\* What a vendor recorded before the instant a source is synced up to is in the
\* database, unless it was recorded while a committed sync was between its fetch
\* and that instant, or lay beyond the last page that sync read.  The instant of
\* Mandiant's interface is the operator's, so nothing is promised there.
SkippedOnlyInTheGap ==
    \A s \in Sources : system[s] # "mandiant_asm" =>
        \A e \in reported[s] : e.at <= watermark[s] =>
            \/ e \in excused[s]
            \/ \A f \in Parse(system[s], e.rec) : <<s, f.ext>> \in DOMAIN raw

\* A finding an import has filed stays named by a row of the vendor's own data:
\* no later import, of this source or another, takes the row over for another
\* finding.  Edits of vendor_mapping.yaml do reassign rows, and so do positions
\* in a CSV export.
Traceable ==
    (edits = 0 /\ \A s \in Sources : system[s] # "csv") =>
        \A k \in imported : \E r \in DOMAIN raw : k \in raw[r].key

\* Whatever the chain's detection saw and is new was on the list its triage read,
\* whatever became of it there, but for what an import that committed after that
\* detection took into its own run (cli.py: _run_pipeline_chain, _run_triage).
DetectedIsListed ==
    chain.phase \in {"triaging", "done"} =>
        \A k \in chain.saw : findings[k].status = "new" =>
            k \in chain.list \/ findings[k].run \notin {r.id : r \in chain.known}

\* A sync maps exactly what the Ingest page's preview of the same org-context said
\* it would.
PreviewAgrees ==
    \A k \in DOMAIN raw : raw[k].status = "mapped" <=> WouldMap(raw[k].org, raw[k].item)

\* What the adapters take from the vendors to make an identity one finding's.
\* Trivy names no image like a workload; TruffleHog is pointed at one repository
\* and the mobile scan at one app; a Tenable asset id is one host's, and neither
\* Mandiant nor a generic source gives an id to a second issue or asset.
VendorIdsAreStable ==
    /\ \A r, q \in Reportable["trivy"] :
           TrivyAsset(r).value = TrivyAsset(q).value => TrivyAsset(r).type = TrivyAsset(q).type
    /\ \A r, q \in Reportable["trufflehog"] : r.repository = q.repository
    /\ \A r, q \in Reportable["mobile_static"] : r.apk = q.apk
    /\ \A r, q \in {r \in Reportable["tenable"] : ~TenableRaises(r)} :
           Or(r.uuid, Or(r.hostname, r.ipv4)) = Or(q.uuid, Or(q.hostname, q.ipv4)) =>
               r.hostname = q.hostname /\ r.ipv4 = q.ipv4
    /\ \A r, q \in {r \in Reportable["mandiant_asm"] : ~MandiantRaises(r)} :
           Or(r.id, r.uid) = Or(q.id, q.uid) =>
               /\ Or(r.issueType, r.headline) = Or(q.issueType, q.headline)
               /\ r.domain = q.domain /\ r.ip = q.ip
    /\ \A r, q \in {r \in Reportable["custom"] : ~GenericRaises(r)} :
           r.external_id = q.external_id => r.issue = q.issue /\ r.asset_value = q.asset_value
=============================================================================
