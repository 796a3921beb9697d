# kiyooo: TLA+ models, model checking and proofs

kiyooo is an attack-surface-management pipeline: it scans an organization's assets,
records evidence, detects findings by declarative categories, lets language models
adjudicate them, routes the true ones to a ticket tracker, and closes a ticket only
when a later scan proves the fix. This directory holds TLA+ models of the parts of
it whose correctness depends on an order of events: transactions that overlap, jobs
that die half-way, providers that refuse, adapters that crash, syncs that repeat,
people who edit rules meanwhile. Paths such as `route/pipeline.py` are relative to
`src/kiyooo/`.

To reproduce: `tlc -config <run>.cfg <module>.tla` for the runs listed below,
`tlapm <module>.tla` for the eight `*Proofs` modules.

## 1. The system

### 1.1 Components, their state and how they interact

| Component | State it keeps | Operations that change it | Model |
|---|---|---|---|
| Recon run (`recon/orchestrator.py`, `recon/registry.py`, `recon/base.py`) | the pool of known assets, one asyncio task per adapter of a stage, a semaphore, a shared database session | open a stage, check targets, run, retry, parse, write evidence, end a stage, commit | `ReconRun`, `StagedScan` |
| ScopeGuard (`recon/scope.py`) | the rules of scope.yaml and of an organization, a lock, AuditLog rows | `check` | its lock and audit row in `ReconRun`, its matchers and overlay in `ScopeMatch`, its use by triage in `Verification` |
| Recon adapters (`recon/adapters/`) | none | `run`, `parse` | outcomes in `ReconRun` |
| Scan history (`diff/`, `graph/snapshot.py`, `graph/builder.py`, `db/repo/asset.py`) | ScanRun, AssetSnapshot, ChangeEvent rows, `Asset.last_seen`, `Asset.is_active` | upsert, decay, snapshot, diff, the chain's choice of a run | `ScanHistory` |
| Detection (`detect/`) | Finding rows, Control rows | `_run_detect` upserts findings and controls | `Predicates`, `Governance`; as one step `Detect` of `FindingLifecycle` |
| Adjudication (`triage/agent.py`, `triage/cache.py`, `llm/router.py`, `llm/cost.py`) | Verdict and LlmCallLog rows, `Finding.status` | `_run_triage`: cache, bulk pass, retry, fallback, escalation, verification rounds | `Adjudication`; as one step `TriageFinding` of `FindingLifecycle` |
| Validation and bundles (`triage/validator.py`, `triage/bundler.py`, `triage/memory.py`) | IdentifierVerification rows | cross-checks, redaction backstop | what they force, in `Adjudication` |
| Verification executor (`verify/`) | Evidence rows, a rate limiter | `execute_verifications` | `Verification`; as one step of `Adjudication` |
| Model providers and pins (`llm/`, `db/repo/model_pin.py`) | ModelPin rows | `pin`, calls | `Repin` and the outcomes of a call in `Adjudication` |
| Routing (`route/pipeline.py`, `route/autonomy.py`) | Ticket and Approval rows, tickets at the tracker, `Finding.status` | `_run_route`, `_decide_approval` | `FindingLifecycle` |
| Closure (`route/recheck.py`, `route/escalation.py`) | Ticket rows, `Finding.status` | `_close_ticket`, `_run_recheck`, `_run_escalate` | `FindingLifecycle`, `ClosureContract` |
| Human review (`api/routers/review.py`, `kiyooo review`) | HumanReview rows | `submit_review` | action `Review` |
| Feedback (`feedback/`) | HumanReview rows, suppressions and autonomy levels in org-context | promotion sweep, pull request, merge | `Governance`; autonomy levels as `EditPolicy` of `FindingLifecycle` |
| Ingest (`ingest/`) | ExternalFinding rows, watermarks, completed ScanRun rows | file import, sync, tool run | `SourceAdapters`, `Ingest`; its ScanRun and Asset rows also in `ScanHistory` |
| Asset graph (`graph/attack_path.py`, `graph/queries.py`) | AssetEdge rows | edge upserts; searches | not modelled |
| Enrichment and ownership (`enrich/`), routing policy (`route/policy.py`) | Ownership rows, ownership_overrides.yaml | `_run_enrich`, the ownership endpoint | `Attribution`, `Governance` |
| Organizations, seeds, exclusions (`db/repo/`) | their rows | create, add, disable | `Verification` |
| Database schema (`db/models.py`, `alembic/`) | tables and enum types | eighteen revisions, up and down | `Metadata`, `Revisions`, `Migrations` |
| Worker (`worker/`) | the cron schedule | starts the commands above | choice of scan in `ScheduledSpec`, chain in `ScanHistory` and `Ingest` |
| Command line, HTTP API, web, configuration, metrics, labs | rendering, I/O | | their commands and endpoints in the modules above; the rest not |

`PROJECT.json` lists every component with its source files and status.

Each command of the pipeline is one function `_run_*` of `cli.py` and one
READ COMMITTED Postgres transaction (`db/session.py`): it reads its work list at
the start, may spend minutes on adapters, language models or the tracker, and
commits or rolls back at the end. Components hence interact in four ways:

* through rows of the shared database, under row locks, with work lists that
  may be stale by the time they are used;
* through effects the transaction does not cover: packets sent, tickets created
  at the tracker, tokens paid for;
* through org-context on disk (categories, autonomy levels), read when a command
  starts and edited by people or by promotion;
* inside a scan run, through asyncio tasks that share one session, two locks and
  a semaphore.

The same commands are started by people and by the worker's schedule, and
nothing serializes them: a person may type `kiyooo route run` while the worker's
chain is routing.

### 1.2 Where the difficulty lies, and what makes each part correct

*Finding lifecycle.* Overlapping transactions over one finding; a rollback after
the tracker was called; work lists, autonomy levels and verdicts that are stale
when used; approvals and closures decided twice or out of order. Correct means:
nothing passes triage without somebody or some ticket accounting for it; no
ticket row without a ticket; no ticket without a true positive; the autonomy
ladder is respected; "fixed" rests on evidence.

*Adjudication.* Up to three rounds with up to three passes and a retry each, any
of which may be refused, fail or raise a doubt; pins that change in between; a
cost ceiling shared by overlapping runs. Correct means: doubt is never lost;
critical findings are not buried; evidence that must stay on site stays there;
spending is bounded; a run ends.

*Recon run.* Concurrent tasks, retries with time-outs, crashes in the middle of a
write, a session one task can break for all, assets discovered on the way.
Correct means: whoever discovers an asset, every contact with it is authorized,
as this adapter's kind of traffic, and audited; later stages only act on what is
recorded; stages are complete and in order; the run ends.

*Scan history.* A predecessor chosen at the start of a long transaction and used
at its end; runs of other kinds in between; upserts and decay of overlapping
scans on the same rows. Correct means: the change feed describes the difference
to one run that was over; an appearance is not told twice; the loss of a login
is never hidden behind a lesser change; decay is earned.

*Ingest.* Imports of several sources at once, each fetching before it opens its
run and setting its watermark; org-context edited in between; a worker's chain that
picks up findings an import has just taken into a run of its own. Correct means:
what a vendor recorded is imported, but for gaps that can be named; a finding and
the vendor's row it came from keep naming each other; what a chain detected is on the
list its triage reads; the preview says what a sync will do.

*Verification and scope.* A model asks for probes; scope.yaml and an organization's
rows are read once, in two statements, while people edit them; the host a model gives
is any string, which guard, limiter and tool each read in their own way. Correct means:
what the guard reads in a probe's text is a host a person named and no exclusion of that
time forbids, and for a plain host name that is the host contacted; every request is
answered, so the model knows what it did not get; hosts are not hurried.

*Detection, feedback and ownership.* A match can be silenced by its category, by a
control, by a hand-written suppression, or by one from a sweep over past reviews that
opens pull requests in the middle of its transaction; an asset's owner has six sources,
and one of them borrows from another asset's row. Correct means: a match is withheld
only for one of these four causes; what was proposed is not proposed again; the owner
a person named gives way to no inventory, only to what a person wrote elsewhere.

*Schema.* Eighteen revisions, each with a way back; enum types outlive the tables
that used them; rows are stored in between. Correct means: from wherever the ways up
and down have led, the way up ends in the schema the program was written for.

`PROJECT.json` lists the hazards one by one, each at the line where it bites.

## 2. The modules

| Module | What it is |
|---|---|
| `FindingLifecycle` | findings, verdicts, approvals, tickets and the tracker under overlapping transactions |
| `ClosureContract` | abstract: what the documentation promises about closing a finding |
| `MCFindingLifecycle` | instances for TLC |
| `FindingLifecycleProofs` | types of `FindingLifecycle`; commands one at a time: tickets, the contract, the ladder |
| `FindingAccountabilityProofs` | what holds of `FindingLifecycle` however transactions overlap |
| `Adjudication` | the triage loop: passes, retries, fallbacks, rounds, pins and costs |
| `MCAdjudication`, `AdjudicationProofs` | its instances and its theorems |
| `ReconRun` | one scan run: stages, tasks, ScopeGuard, EvidenceWriter |
| `StagedScan` | abstract: what a scan run promises whatever its adapters do |
| `MCReconRun`, `ReconRunProofs` | its instances and its theorems, a refinement among them |
| `ScanHistory` | successive and overlapping runs: snapshots, change events, decay, the chain's choice |
| `MCScanHistory`, `ScanHistoryProofs` | its instance and its theorems |
| `SourceAdapters` | what the adapters and importers of nine systems make of one record of a report |
| `Ingest` | imports of all kinds beside the worker's chain |
| `MCIngest`, `IngestProofs` | its instance and its theorems |
| `ScopeMatch` | ScopeGuard's matchers, an organization's overlay, the decision |
| `Verification` | a triage's probes while people edit scope |
| `MCVerification`, `VerificationProofs` | its instance and its theorems |
| `Metadata` | the tables and enum types `db/models.py` declares |
| `Revisions` | the statements of the eighteen revisions, up and down |
| `Migrations` | a database taken up and down by them |
| `Predicates` | the twenty predicates and the blocks made of them |
| `Attribution` | the six ownership sources, their merge, the route policy |
| `Governance` | detection, feedback and ownership |
| `MCGovernance`, `GovernanceProofs` | its instance and its theorems |

`FindingLifecycle` and `Adjudication` are two zoom levels of triage: a triage of
one finding is a single buffered step (`TriageFinding`, `TriageSkip`,
`TriageCeiling`) in the first, and a loop of passes in the second, which in turn
leaves out everything after the verdict. `ReconRun` and `ScanHistory` likewise:
what a scan finds, one adapter at a time, is the first; what is kept of it, and
compared with other runs, is the second, where `Load` chooses it freely.
`Governance` opens the step `Detect` of `FindingLifecycle` (which findings match and
are not withheld) and the step `EditPolicy` (where suppressions come from);
`Verification` opens the step `Verify` of `Adjudication`, and `ScopeMatch` the sets
`Named`, `Ranged` and `Excluded` of `ReconRun`; `Ingest` opens the action `CommitOther`
of `ScanHistory`.

### 2.1 FindingLifecycle

*Jobs.* `_run_triage`, `_run_route` and `_run_recheck` wait for models, the
tracker or predicates between their first read and their commit. Each is a
record in `job`: `Begin*` reads the work list, one action per finding or group
reads what the code reads at that point (other transactions' commits included)
and buffers its writes, `Commit` publishes them, `Abort` drops them. A row with a
buffered UPDATE is locked: `MarkStatus` and the ticket updates wait for it, as
in Postgres; when two jobs wait for each other, one aborts, which is what
Postgres does with a deadlock victim. `filed` counts the tickets at the
tracker: `RouteFile` increments it at once, and `Abort` does not decrement it.

*Single steps.* `_run_detect`, `_decide_approval`, `_close_ticket`,
`_run_escalate` and the review endpoint write after one or two reads and are
single actions, guarded by the row locks they would wait for.

*Data.* A scan is what it saw, what detection reports over it (`matching`) and what a
recheck reproduces of it (`reproducing`), all chosen freely: `route/recheck.py:33-50`
evaluates the category with an empty context and without the finding's discriminator,
so the two may judge one scan's evidence differently, either way. A verdict is its value, its severity and the evidence it was based on;
severities are two classes, those autonomy level 2 distinguishes. Suppressed
matches are matches left out of `Detect`'s set. Verdict rows are ordered by
commit, where the code orders them by `created_at`: two overlapping triage runs
serialize on the finding's row, so a later commit has the later timestamp up to
the time the row lock was waited for. A route job's work list and org-context are
read once at its start, as in the code.

*Composition.* `KeepsClosureContract` is `ClosureContract` instantiated with
`phase <- PhaseOf(status)`: the commands, one after the other, each aborting
wherever it likes, implement the contract.

### 2.2 Adjudication

A run's record holds its position (`phase`, `finding`, `rounds`, `pass`,
`retried`), the result of the round so far and its buffered rows. `CallBulk`,
`NoAnswer` (with the fallback to a local model), `AcceptBulk`,
`CallEscalation`/`NoStronger`, `AcceptEscalation`, `Verify` and `StoreVerdict`
follow `_run_adjudication_round` and `adjudicate_finding` in order; guards such
as `AlreadyAnswered`, `CeilingReached`, `RedactionRefuses`, `CrossCheckForces`
are the code's conditions by their names. An answer is what the loop reads of a
`VerdictSchema`: its value, whether its confidence reaches the threshold,
whether it asks for verification, and which checks it fails. A hit in the verdict
cache is a possibility wherever a row with the same finding, rounds and model
exists, not a certainty: the bundle's hash also covers the asset's attributes
and remembered reviews, which may have changed. A run takes its findings in any order,
because `db/repo/finding.py:76` asks for none; storing a verdict waits for the run that
has buffered that finding's status, and of a ring of runs that wait for each other
PostgreSQL aborts one (`DeadlockVictim`), whose exception nothing catches. `paid` and
`sent` are history: they record what no rollback undoes.

### 2.3 ReconRun

A task is interrupted only where it awaits. `BeginCheck`/`EndCheck` bracket the
audit write under ScopeGuard's lock; `BeginWrite`, one `WriteOne` per parsed
record and `EndWrite` bracket `write_many` under EvidenceWriter's lock;
`RunAdapter` takes the stage's semaphore for the time of `run()`. `Crash` is an
exception outside the task's `try`: the task ends, what it flushed stays in the
transaction, and a database error leaves the session refusing work until the
rollback (`broken`, `Refused`, `RollBack`). `dryRun` and `authorized` (the four
gates of active scanning together) are chosen in the initial state. `contacted`
counts every allowed target from the moment `run()` starts. The matchers are
sets: `Named` (domain, wildcard, cloud account), `Ranged` (CIDR, ASN),
`Excluded`; `Decide` is what `_decide` makes of them. Decay, snapshots and diff
after the loop appear only as a step that may fail (`Abort`).

`KeepsStagedScan` is `StagedScan` instantiated with `known <- pool`,
`closed <- outcome`, `Permitted <- MayContact` and `result` hiding an adapter's
outcome until its stage is over.

### 2.4 ScanHistory

A job is one transaction of `_run_scan` or of an ingest batch. `Begin` reads the
predecessor, `Open` inserts the run's row, `Load` and `Touch` are the SELECT and
the flush of one `get_or_create`, `ReadStale` and `MarkInactive` are decay,
`CommitScan` writes snapshots and change events and publishes everything,
`CommitOther` ends a dry run or an ingest batch, `Chain` is
`_latest_scan_run_id` right after a scan. Instants are counted in opened runs, so
`started_at` of run n is n and `last_seen` the number of runs opened so far: two
instants are told apart exactly where the code compares them. The session's
identity map (`loaded`) keeps the `is_active` it read first; a flushed row is
locked (`RowFree`); an INSERT that meets a committed row, a deadlock and a killed
process are `Abort`. A snapshot's state is what `_build_state` reads of
evidence: three classes of status code, whether a login is asked for, and one
field for technologies or the certificate's serial. `Run.chained` is history.

### 2.5 SourceAdapters and Ingest

*State.* `reported` is what each vendor recorded and when; `raw`, `findings`,
`watermark` and `completed` are the ExternalFinding, Finding, ExternalFindingSource
and ScanRun rows; `org` is the org-context on disk; `job` holds each import that is
under way with the rows it has flushed, `chain` the worker's. `imported` and
`excused` are history.

*Actions.* `BeginImport` reads the source and its watermark, `Fetch` the report,
`OpenRun` inserts the run's row, already completed, and reads the instant that will be the
watermark, one `IngestFinding` per finding is `ingest_finding`, `CommitImport`
publishes, `AbortImport` drops. What the four ways of fetching differ in (pages,
export positions, tools that fail half-way, everything) is `Reports`; a malformed
item raises in `Fetch`, so the import never gets past it. `CommitScan`, `ChainDetect`,
`ChainTriage` and `ChainEnds` are the worker's chain with the reads that matter here.
`ChainEnds` moves on any part of the list and leaves the rest "new", as triage does with
a verdict from the cache, an unknown category, a missing asset, a provider's error and
everything after the cost ceiling (`cli.py:1364-1421`).

*Data.* A record keeps the fields its parser branches on and those that enter an
identity; an f-string that joins fields is their tuple. Spellings of one asset
(`Spelling`) meet in `Canonical`, because a finding's fingerprint is computed from
the normalized value.

### 2.6 ScopeMatch and Verification

A host is a name, an IPv4 address of `AddressBits` bits, an IPv6 address cut after
its first 32 bits, or an AS number; an entry is one string of the code's lists.
`ScopeMatch` keeps what the string operations do with them, the surprises
included: `host:port` of an IPv6 host, `<address>/32` for an IPv6 exclusion, kinds
that are stored and not enforced.

What a model asks to contact is a text of one of four forms: a host as it stands
(`Bare`), one behind a scheme (`Url`), one with a slash and more behind it (`Slashed`),
any of these with a port appended (`AtPort`); labels may have capital letters. The text is
read three times. `ExtractHost` is the guard's reading: a URL is parsed only where
`://` stands in it, a trailing port is cut, a slash without a scheme stays in the name, and
the globs of `fnmatch` run across it; a cloud account is looked for anywhere in the text
(`OccursIn`). The rate limiter's key is what stands before the first colon. `Contacts` is
the tool's: what it builds its URL or its connection from. They agree on a `Plain`
text, a bare host in small letters that is not an IPv6 host with a port.

`Begin`, `ReadSeeds` and `ReadExclusions` are the three reads with which a triage
builds its guard; `CreateOrg`, `AddSeed`, `DisableSeed` and `AddExclusion` are
transactions that fall between any two of them. `Ask` starts a round and cuts it at
`MaxToolCalls`; each request is rejected (`Reject`), decided and audited (`Check`),
paced and sent (`Send`) and answered (`Answered`), one after the other. A probe goes
one of six ways, and `ToolRaises` says for which of them each of the six tools
raises. `Abort` drops audit and evidence rows and leaves `probes`, what went out.

### 2.7 Metadata, Revisions and Migrations

A table is its required columns, its nullable ones, the enum types of its columns and its
unique column sets; the database adds which tables have rows and which columns are
null in some of them. `Possible` is what PostgreSQL refuses, `Effect` what a
statement does; `Upgrade` and `Downgrade` run any number of revisions in one
transaction, as `alembic/env.py` does. `StoreRow` is the program, which works only on
the schema it declares.

### 2.8 Predicates, Attribution and Governance

A regular expression is the set of values it is found in, a glob the set of what it
matches, an entropy a number; evidence is a sequence of rows in the order stored,
because predicates return the first that satisfies them, and its discriminator
becomes part of a finding's identity. `Detect` evaluates controls and then categories for
every asset the scan touched, and withholds in the order of `_evaluate_asset`.

A sweep of `kiyooo feedback promote` is taken step by step, because it opens a pull
request (`OpenPr`) inside the transaction that marks the reviews (`MarkPromoted`,
`SweepEnds`) and dies without undoing it (`SweepDies`); every other command is a
transaction of its own. `Enrich` goes through the assets in the database's order
(`EnrichedBy`), each seeing the rows of those before it, since `sibling_asset` reads them.

People also edit both files by hand. `EditSuppressions` adds an entry that rests on no
review (`config.py:470-491` asks for none); each sweep has a `--min-count` of its own
(`cli.py:1755`), one of `MinCounts`; `EditOverrides` writes or removes an asset's entry of
ownership_overrides.yaml at any time before or after an answer through the API.
`answered` (the last answer to the API), `filed` (the entry an enrichment has read since
that answer), `minCounts`, `written` (the hand-written entries), `settled` and a pull
request's `before` are history.

## 3. What is checked

| Run | Properties | Distinct states |
|---|---|---|
| `lifecycle_serial` | `TypeOK`, `TicketMirrorsFinding`, `PastTriageIsAccountable`, `KeepsClosureContract` | 1.8 million |
| `lifecycle_overlap` | `TicketsOnlyForTruePositives`, `TicketRowsAreFiled`, `FixedOnlyOnCleanEvidence`, `FirstRouteGated` | 1.27 million |
| `lifecycle_ladder` | `HighSeverityHeld`, `ApprovalGate` | 698 thousand |
| `adjudication_doubt` | `TypeOK`, `UnsureGoesToHuman`, `CriticalNeverBuried`, `LocalOnlyStaysLocal`, `UnsureEscalates` | 122 thousand |
| `adjudication_runs` | `SpendBounded`, `RunsEnd` | 164 thousand |
| `recon_scope` | `TypeOK`, `ContactsAuthorized`, `ContactsAreEvidenced`, `KeepsStagedScan`, `RunEnds` | 155 thousand |
| `history` | `TypeOK`, `FeedExplainsSnapshots`, `FeedAlternates`, `AccessLossIsTold`, `DecayIsEarned`, `ChainNeverOlder` | 1.24 million |
| `ingest` | `TypeOK`, `SkippedOnlyInTheGap`, `Traceable`, `DetectedIsListed` | 1.48 million |
| `verification` | `TypeOK`, `ProbesInScope`, `EveryRequestAnswered`, `Paced` | 2.25 million |
| `migrations` | `ReachesModels` | 239 |
| `governance` | `WithheldForCause`, `PromotedOnce`, `HumanAnswerWins` | 389 thousand |

Every property of these runs is also shown to depend on the code: a variant of
one definition (marked `Mutant:` in the modules: a dropped guard, an off-by-one,
a missing insert) violates it under the same configuration.

Bounds, and why they are enough:

* `lifecycle_serial`: two findings of one cluster, so a group has a primary and
  a follower; one job; two scans, so a finding can be detected, fixed and looked
  at again; recheck and detection may disagree on one of the two findings, in either
  direction, and agree on the other, which every scan sees; up to two tickets at the
  tracker; levels 1 and 3; verdicts that are true or need a human.
* `lifecycle_overlap`: one finding, two jobs that overlap with each other and with
  every single-step command; two scans, of which recheck and detection may think
  differently; verdicts that disagree; a category that is held (level 1) or filed
  (level 3) throughout (other levels and edits are `lifecycle_ladder`'s subject); up to two tickets at the tracker, enough for a duplicate. The two
  jobs are interchangeable and symmetric.
* `lifecycle_ladder`: two findings of one cluster, so that one decides for the other,
  every level and a disabled category, both severities, one edit; one scan, of which recheck
  and detection think alike, suffices because the properties are about leaving triage.
* `adjudication_doubt`: one critical and one local_only finding in one run, five
  kinds of answer, a local and a hosted model, one change of pins at any moment;
  calls are free, so that no path is cut short by the ceiling (two overlapping
  runs are the next run's subject).
* `adjudication_runs`: two processes over two findings, so that each can hold what the
  other waits for. The pinned model of one finding is hosted at price 1 under a ceiling of
  2, which both processes meet in the middle of a pass; the other finding is local_only
  and free, so that nothing but the limit of rounds ends it. Every answer asks for more
  evidence; escalations are `adjudication_doubt`'s subject. TLC's VIEW leaves out `paid`
  and `sent`, which no action and neither property reads.
* `recon_scope`: two passive adapters of one stage contend for locks and
  semaphore, one active adapter follows; the four assets are a named seed, a
  range-only seed, a discoverable named host and a discoverable excluded one; one
  retry, concurrency one.
* `history`: one seed, always touched by a scan, and one web service that is
  found or not, asking for a login, open with another technology, or without
  evidence; every kind of run. Five runs one after the other (`MaxRuns`) see an
  asset appear, vanish, decay and come back, because `Threshold` is 2 here instead
  of the code's 3; three runs of which some overlap (`MaxOverlapped`) give an
  overlapping pair a predecessor or a successor.
* `ingest`: a source of each of the nine systems in turn, beside a generic one, so
  every adapter runs and two sources can name one asset; two interchangeable
  imports, enough for every race on a row; two or three reports per system that
  share an identity field, pass or are malformed; two instants, so that a report
  falls before, into or after the gap of a sync; two runs; one page of one item, so
  that the cap cuts. Org-context is edited beside Trivy, the worker runs beside
  Tenable: each variation once rather than in every combination.
* `verification`: one triage of two rounds of two calls; three edits, so that an
  exclusion can be added or a seed disabled before, between and after the reads;
  addresses of three bits, where a network is smaller than the space and larger than
  a host; hosts of every form in texts of every form, with a capital letter, a scheme, a
  slash, a port in the text and one appended; a first party's scope.yaml that names an
  address, and one that names and excludes the same page; a third party's with active
  scanning, which is not loaded. Excluded cloud accounts, which nothing enforces, are left out.
* `migrations`: every command between any two of the eighteen revisions, any number of
  them; rows are stored in the three tables whose columns later revisions touch.
* `governance`: two scans with different evidence and feeds, three assets, all
  twenty predicates; a control that suppresses and one that awaits confirmation;
  three reviews and thresholds of two and three, each sweep with either; two sweeps that
  overlap, or one sweep and one edit of suppressions.yaml by hand; sweeps are symmetric.
  Two answers and two enrichments, between which inventories and the overrides file change. Detection with feedback and
  ownership are taken one without the other (`MCSpec`): they share no variable, so
  their product shows nothing that the two do not.

`MaxRuns` and `MaxOverlapped`, the lifecycle counters (`MaxScans`, `MaxDrafts`,
`MaxFiled`, `MaxEdits`), `MaxStarts`, `MaxRepins` of `Adjudication` and the constants
`Max...` of `Ingest`, `Verification` and `Governance` only bound how often something
happens, but for `MaxToolCalls` and `MaxRounds`, which are the code's own limits, 10 and
2 there; `Findable` bounds what adapters may find. The runs let the system stop
(`CHECK_DEADLOCK FALSE`) where it really may: when no command is left to type, when every
run is closed, when the scan is over, when the bounds are used up; a migrated database
stops at revision 0 with enum types left over, as the comment in
`0011_org_seed_exclusion.py:116` says.

*Fairness.* `RunsEnd` assumes weak fairness of each open run's `Advance`: a
provider call, a verification tool and a database operation return, fail or time
out, and PostgreSQL's deadlock detector aborts one of the runs that wait for each other,
so an open run does not stand still; it assumes nothing about who starts runs.
`RunEnds` assumes it of each task and of the stage loop: `wait_for` ends every `run()`, back-off is a finite sleep, `asyncio.Lock` and `Semaphore` are
first-come-first-served and the event loop runs every ready task. The lifecycle
and the remaining modules have no liveness property: progress from one command to the
next depends on people, and no fairness would be justified.

### 3.1 Where the code and its documentation disagree

`lifecycle_stale_recheck` is a run in which TLC finds the violation: the scheduled
recheck takes the latest completed scan (`worker/tasks.py:107`), which may be older
than the closing of the ticket; CLI.md:180-182 wants a fresh scan
(`FixedOnlyOnFreshEvidence`).

Noted while reading and modelling, without a run of their own. Lifecycle, adjudication
and scans:

* Two overlapping route runs both see no Ticket row, both call the tracker and both
  insert one (`route/pipeline.py:180`), although a finding has at most one ticket in
  ARCHITECTURE.md:84.
* The decision to file is taken on the primary's severity and applied to the group
  (`route/pipeline.py:209`), so a high-severity member passes level 2 without
  approval; `route/autonomy.py:9` says it is held.
* With both roles on the same local model, a low-confidence answer of a local_only
  category is stored as a decision (`triage/agent.py:461`);
  `triage/agent.py:33-35` says it stays needs_human.
* ScopeGuard and EvidenceWriter each serialize on a lock of their own and share one
  AsyncSession (`recon/orchestrator.py:114`, `recon/scope.py:274`): an adapter that
  writes and one that is still being checked use it at the same time, which both
  docstrings say cannot happen.
* `route/recheck.py:7-9` says that recheck and detection can never disagree. A recheck has an
  empty context (no feeds, controls or promoted rules) and ignores the discriminator
  (`route/recheck.py:33-50`), so a finding of a category that needs a catalog can
  recheck as fixed on the very scan whose detection reports it. The model has both
  judgements; `FixedOnlyOnCleanEvidence` and the contract speak of the recheck's.
* ARCHITECTURE.md:194-195 says that only a HumanReview moves a finding past
  triage; `route/pipeline.py:209-210` does so itself at levels 2 and 3, and
  approvals write no HumanReview.
* `route/pipeline.py:5-6` promises one ticket per cluster; groups are formed
  among the findings triaged in the present scan, so a member detected later gets
  a ticket of its own.
* `config.py:75-76` calls the ceiling hard; it is compared with what was logged
  before a pass starts (`llm/router.py:86`), and only a pass's last attempt is
  logged (`triage/agent.py:270-292`). `SpendBounded` is what does hold.
* `_model_for` moves a local_only category to `settings.llm_provider`, which may
  be hosted (`triage/agent.py:165`); the backstop then raises RedactionViolation,
  which nothing catches, and the whole run is rolled back.
* After an escalation the identifier checks are the last operand of an `or`
  (`triage/agent.py:493-503`): once a doubt was raised, the stored answer's
  identifiers are neither checked nor recorded.
* `find_missing_citations` (`triage/validator.py:76`) is called nowhere, although
  ARCHITECTURE.md:190-191 says uncited claims are rejected.
* A scan that dies rolls back its AuditLog rows with everything else, after its
  packets were sent (`cli.py:1056`; ARCHITECTURE.md:184-187).
* A dry run upserts its seeds and commits a completed ScanRun (`cli.py:1070-1089`),
  which the next scan is diffed against; `cli.py:1158` says it touches nothing.
* An ingest batch or a dry run is a completed ScanRun without snapshots
  (`ingest/sync.py:65`, `cli.py:2957`). The next scan is diffed against it: it
  tells every asset as new and nothing that vanished as gone, where
  `diff/engine.py:9-12` promises no events for an unchanged estate. They also count
  as scans for decay (`graph/builder.py:39` says "consecutive completed scans").
  `FeedAlternates` therefore speaks of histories of scans only.
* Decay by a scan can overwrite `is_active` of an asset an overlapping scan has
  just seen, and the latter does not write it again since its own copy still says
  active (`db/repo/asset.py:50`): the asset ends inactive though just seen. TLC
  shows it with four overlapping runs once `~overlapped` is dropped from
  `DecayIsEarned`.
* The chain after a scan takes the latest completed run, which may be another
  process's, where `worker/tasks.py:42` says "whatever scan just ran".
  `ChainNeverOlder` is what does hold.
* Evidence above the inline threshold reads as an empty snapshot
  (`graph/snapshot.py:49`), so a service whose response grew is told as having lost
  its login; the comment there says no such evidence exists.

Ingest:

* A generic sync's watermark is a time read after the fetch
  (`ingest/sync.py:59-62`), and pages beyond `max_pages` are not read: what falls in
  either gap is skipped by the next sync. `SkippedOnlyInTheGap` says nothing else is.
* One malformed item fails the whole import, and the watermark stays: the next sync
  meets the same item.
* A row of a CSV file is identified by its position, so an export with a new first line
  reassigns every row; two sources of system CUSTOM make `get_by_system` raise, so
  no CSV file can be imported then.
* A tool that ends with an error code and some output is imported as if complete.
* `kiyooo sources sync` does not look at a source's `enabled`; a change of its
  configuration keeps the watermark.

* The chain's triage leaves findings "new" that are on its list: after a hit in the verdict
  cache, for an unknown category or a missing asset, after a provider's error, and all that
  remain when the ceiling is reached (`cli.py:1364-1421`). The next chain looks at its own
  run's findings, so these wait for a detection that raises them again.

Scope and verification:

* `verify/safety.py:1-7` says that a probe at a host out of scope is stopped. Guard and tool
  read a text separately: one with a slash and no scheme is matched whole by the guard and
  cut at the slash by an HTTP client; a second scheme or port, and capital letters, are
  likewise read differently by one of the two or by the limiter.
  `ProbesInScope` says of every probe what the guard read, and of plain texts only
  that this is the host contacted.
* Global exclusions are not consulted without `--org` (`cli.py:1012`), where
  `db/models.py:943` says an exclusion always beats an inclusion. `ProbesInScope`
  demands them of runs with an organization only.
* Excluded ASNs and cloud accounts are stored and not enforced (ASNs: documented). An
  excluded IPv6 address becomes `<address>/32` (`recon/scope.py:181,204`), a network
  rather than a host. `host:port` of an IPv6 host is read as one longer address, and the
  rate limiter keys it by its first group.
* The rate limiter is one per process: two triage runs do not pace each other, and
  `Paced` is about one.
* AUTHORIZATION.md:53-55 says a probe is logged before it is sent; the row is committed at
  the run's end only, so a run that dies loses it.

Detection, feedback, ownership:

* suppressions.yaml takes hand-written entries without a review
  (`config.py:470-491`), and `--min-count` is given per command, so how many reviews agreed
  is known only to whoever ran the sweep.
* Promotion groups reviews by category and rationale over all assets, and one
  person's repeated reviews count like several people's.
* Each pull request holds the whole file as checked out when the sweep began, plus
  one entry: two of one sweep conflict, and one from a stale checkout can take back
  an entry merged since. Sweeps that overlap, or one that died, propose twice.
* A finding with a disputed owner is routed to the first of the two without a note
  when that is confident enough (`cloud_tag`), where `enrich/ownership/merge.py:1-3`
  says "never silently pick one"; rows of a source that fell silent stay;
  whom a sibling borrows from depends on the order of assets.

* At the next enrich an entry of ownership_overrides.yaml replaces the answer given through
  the API, even if the entry is the older of the two, where `config.py:400-403` and
  `api/routers/ownership.py:1-8` have the person's answer win. `HumanAnswerWins` says
  that nothing but such an entry replaces it.

Schema: below revision 2 a database cannot be upgraded again
(`0011_org_seed_exclusion.py:116-121`); downgrades of 0012, 0013 and 0018 lose
endpoints, source names and toggles.

## 4. What is proved

Every theorem is for arbitrary sets of findings, jobs, assets, adapters, sources, rows
and so on, and for every bound the runs fix. Every property of a passing run is proved, but for
the three of section 4.8.

### 4.1 Assumptions

Each model states what it needs of its constants as a named assumption, which TLC
evaluates on the instance of every run:

* `ParametersAssumption` of a module gives the types of its constants. In
  `Adjudication` the processes are finitely many, or their spending would not add up, and
  so are the findings of a scan; in `ReconRun`, the assets.
* `ClusterAssumption` of `FindingLifecycle`: findings of one cluster are of one
  category, because `compute_cluster_id` hashes the category
  (`normalize/fingerprint.py:62-68`). A route run therefore reads one autonomy level for
  a group. `Findings` is finite.
* `FormsAssumption` of `Verification`: a wildcard row holds a glob, a URL row a URL, an
  address row an address. The code stores what it is given (`cli.py:530-601`), and an
  entry made of anything else matches nothing, so no claim about such an exclusion
  would hold.
* `GovernanceAssumption` of `Governance`: a sweep asks for at least one review; the assets are a list, in the order the database
  returns them; an owner is of one of the types that `db/models.py:191-193` names.

Two hypotheses belong to single theorems and are stated in them:

* `Overlap = FALSE`, in the four theorems about commands run one after the other (any of
  them may still abort anywhere). They are false otherwise: with two transactions open,
  a recheck that read a finding before a triage run took it back overwrites the
  status without anybody's approval. What holds with overlap as well is in
  `FindingAccountabilityProofs`, the gate of a finding's first ticket included
  (`FirstRouteIsGated`).
* `VendorIdsAreStable`, in `FindingsStayTraceable`: what the adapters rely on vendors
  for, such as that one Tenable asset id is one host's. It speaks of the vendor's records
  only; that the identities which the parsers, the mapper and the fingerprint
  make of them then stay apart is proved from the parsers. TLC evaluates it on the
  instance.

`UnsureEscalates` compares a stored row with the models pinned now, and itself promises
no more than that nobody has pinned another model yet (`repins = 0 =>`).

### 4.2 The lifecycle of a finding

* **`TypeCorrect`**: `TypeOK` is inductive, one lemma per group of actions that write
  the same variables.
* **`PastTriageAlwaysAccountable`**. Not inductive alone: a job publishes what it
  buffered long ago. `AccountableInv` adds, per open job, that each buffered
  status past triage comes with the trace that will justify it at commit: a Ticket
  row buffered or committed in the cluster for "routed", an own Ticket row for a
  recheck's result, and that rows whose UPDATE waits have such a trace already.
  What makes it survive other jobs is that approvals and Ticket rows are only ever
  added (`RowsStay`).
* **`TicketRowsAlwaysFiled`**. `FiledInv` adds `BufferedKeysFiled`: keys of
  buffered Ticket rows exist at the tracker and differ between jobs and from
  committed rows. `RouteFile` draws a new key under every interleaving; commits
  append it (`AfterTicketsKeys`).
* **`TicketsAreForTruePositives`**. Inductive with the types, because verdicts are
  committed before a route run can read them and are never deleted.
* **`FixedIsEvidenced`**. `EvidenceInv` adds that an open job's scan exists and that
  "fixed" is buffered by a recheck only, against a scan that saw the asset and on which the
  recheck's evaluation does not reproduce the finding, whatever detection says of it; scans
  do not change, so it still is when the job commits.
* **`FirstRouteIsGated`**: what is left of the approval gate when transactions overlap.
  A recheck may put a finding back past triage that a triage run has taken back meanwhile,
  but it has a Ticket row of that finding (`AccountableInv`); so where there is none, only
  "routed" can be published without an approval (`EntersFirst`). `GateInv` adds that
  whoever has "routed" buffered is a route run whose org-context lets the finding's category
  file (`GateJob`); the level was read for the group's primary and is the member's too,
  since a cluster has one category (`GroupLets`).

### 4.3 Adjudication

* **`DoubtAlwaysReachesHuman`**, **`CriticalIsNeverBuried`**,
  **`LocalOnlyNeverLeaves`**, **`AdjudicationTypes`**. `IInv` says that every row,
  committed or buffered, is `RowSound`; that a result nothing forced to a human
  contains its answer among the heard ones and none of those is flagged
  (`Cleared`), from the first accepted answer to the stored row; and that a call
  under way passed the redaction check. The second theorem follows from the first
  because burying a critical finding is a flag.
* **`EscalationIsHeard`**. `EscalationInv` says the same of a result that is about to be
  settled, of rows buffered and of rows committed: a bulk answer that wanted
  escalation is there only because the escalation's model gave it.
* **`SpendIsBounded`**. Runs are numbered, and the committed cost is the first of a
  sequence of partial sums that add what each run owes, which is its buffered log and
  the price of the call it is in. `SpendInv`: a run owes at most one call beyond the
  ceiling, and the last partial sum is at most that times the number of runs. The
  ceiling is compared with the committed cost plus the run's own, so a step changes one
  debt and the sums behind it, and a commit moves a debt into the first. That the sums
  bound the committed cost follows by taking the least index at which they would not.
* **`EveryStepCounts`**: `StepsRunOut`, an action property. Whatever changes an open run
  lowers `StepsLeft`: 28 for each finding still to do (three rounds of nine places, and the
  choice), and what is left of the finding in hand, where a retry, a fallback and an
  escalation each take the run to a place that it has not been to in this round. Other
  runs and changes of pins touch none of it, so a run that goes on ends. `RunsEnd` adds
  that it does go on.

### 4.4 Recon runs and what is kept of them

* **`EveryContactAuthorized`**, **`EveryContactEvidenced`**, **`RunTypes`**.
  `IInv` ties each task to its stage and its locks (`PhaseSound`), says that what
  it may contact was allowed and audited and is known (`TargetsSound`), that the
  pool holds seeds and findings of adapters that ended well (`PoolSound`), and the
  same for the contacts made (`ContactsSound`). It is needed because a target is
  checked, contacted and recorded in three different steps with other tasks in
  between.
* **`ScanIsStaged`**: `Spec => KeepsStagedScan`. Initial states map to initial
  states; `RunAdapter` maps to `Contact`, `NextStage` to `EndStage`, `Commit`,
  `RollBack` and `Abort` to `Close`, everything else to a stutter, under `IInv`.
* **`EveryStageRunsOut`**: `StageRunsOut`, an action property. Within a stage each step of
  an open run lowers one adapter's `WorkLeft` and leaves the others': two steps per target
  to check (waiting for the guard's lock and the query under it), three per attempt, one or
  two per record to write. Contention for the locks and the semaphore, time-outs and a
  broken session give nothing back. There are `LastStage` stages, and `RunEnds` adds that
  the steps are taken.
* **`FeedAlwaysExplains`**, **`AccessLossAlwaysTold`**, **`ChainIsNeverOlder`**,
  **`HistoryTypes`**. `IInv` says of each open transaction that its row is its own,
  not completed and later than its predecessor, which is completed (`JobsSound`),
  and of each completed scan that its events are `Diff` of the two snapshots
  (`RunsSound`). It survives because committed rows never change but for the
  chain's choice (`RunsStand`). What `Diff` tells follows from `KindsOfShape`; that
  a chain's choice is no older, from the well-foundedness of the natural numbers
  (`NewestIsGreatest`).
* **`DecayIsAlwaysEarned`**, **`FeedAlwaysAlternates`** speak of histories without
  overlap. `CalmInv` says that in those one job is open at most, that every scan was
  compared with the newest run before it (`Consecutive`), and that an open job knows
  every committed run (`Aware`), holds assets as they are committed (`Truthful`) and
  retires only what is due (`Merited`). That the feed alternates then follows by
  taking the first run after the earlier appearance whose snapshot lacks the asset.

### 4.5 Verification and scope

* **`VerificationTypes`**: `TypeInv`, per field of rows and of the run.
* **`EveryProbeInScope`**. Rows are edited between the two reads, after them and during
  the probes. `ScopeInv` says that the seeds read include those that stood when the run
  began and none that was disabled by then (`SeedsRead`), that each entry
  of the guard's lists has a file or such a row behind it and no exclusion is missing
  (`ListsSound`), and that what the guard reads in the text of a request being paced, and of
  each probe sent, is named by somebody and excluded by nobody (`TargetSound`). The lemmas
  about `ScopeMatch` say that an entry matches what its row speaks of, kind by kind and form
  by form; `PlainReading`, that of a plain text guard and tools read the same host.
* **`EveryRequestIsAnswered`**. `AnswerInv` relates the evidence, the audit and the probes
  to the position in the round: keys of rows are at most the current one, and the
  audit is one ahead while a request is paced or probed.
* **`ProbesArePaced`**. `PaceInv`: the limiter remembers, per key, an instant no earlier
  than the last probe of any host of that key.

### 4.6 Ingest

* **`ImportedRowsAreTyped`**, **`PreviewIsKept`**, **`FindingsStayTraceable`**. `TraceInv`
  says that a vendor's row, stored or flushed, names exactly the findings its item is
  filed under in the org-context its import read, and that, while org-context stands,
  each finding filed has such a row. An import takes over a row of the same vendor id;
  that it then names the same finding is where `VendorIdsAreStable` is used.
  `PreviewAgrees`, which `PreviewIsKept` proves, is in no run.
* **`DetectedReachesTriage`**: `Spec => []DetectedIsListed`. `ChainInv`: no open import's run is among those the chain
  knows, and what its detection saw and is still new is under its own run until
  triage reads its list, then on that list.
* **`NothingMissingButTheGap`**. `GapInv` says of each open import that everything up to the
  watermark it read is accounted for, and everything up to its fetch is stored, on its
  list, flushed or cut off. An abandoned import leaves the watermark alone, two
  syncs of one source each account for what they set it to.

### 4.7 Detection and feedback

* **`SettledOnce`**. `FeedbackInv`: reviews are appended and only their marks change; what a
  sweep has still to propose is disjoint from what was settled when it began, because
  settled reviews are marked and the sweep read unmarked ones.
* **`NothingWithheldWithoutCause`**. The same invariant says that every entry of a
  suppressions.yaml, upstream, checked out or in a pull request, was written by hand or has
  as many agreeing reviews behind it as some sweep was told to ask for, one of them on each
  asset it names. With it, a step of detection is followed through the four causes.
  Reviews are counted, not people, as in the code.
* **`AnswersPrevail`**: `Spec => HumanAnswerWins`. `OwnershipInv` says that an asset's rows
  name known sources and that there is a `manual` row exactly where a person named an owner
  (`Given`), with that owner: the last answer through the API or, where an enrichment has
  read an entry of the overrides file since, that entry's. `Merge` picks it because no other source is as sure
  (`ManualSurest`). An enrichment passes over the assets one after the other; the rows after
  the i-th hear every override of an asset up to there and are otherwise as before (`StagesHeard`), which is shown for all of them by taking the least index at
  which it would not be so, as is that the recursion has a value at every index
  (`EnrichUnfolds`).

### 4.8 Only model-checked

* `RunsEnd` and `RunEnds` are liveness under fairness. That the steps run out is proved
  (`EveryStepCounts`, `EveryStageRunsOut`); that fairness takes them, which is about ENABLED,
  is left to TLC, and with it that nobody waits on everybody.
* `ReachesModels` of `Migrations`: eighteen revisions, each a fold over its statements; the
  claim is about these lists and has no parameter, and TLC visits all of its states.
* `FixedOnlyOnFreshEvidence` is false (section 3.1).

## 5. What is not modelled, and why

* *Text*: prompts, ticket bodies, output formats of tools, normalization and redaction of
  strings; how an identifier is looked up in text; `detect/cases.py` and the
  fingerprints of AI services, which classify text.
* *I/O*: command lines of tools, HTTP to providers, vendors and trackers, cloud
  clients, the object store.
* *Read-only parts*: graph queries, attack paths, agreement rates, dashboards,
  digests, listings, the web interface, metrics.
* *Administration that nothing modelled reads*: module toggles, model pins beyond their
  effect on a pass, configuration of sources.
* *Evaluation and skills* read files and compute averages.

Abstractions a reader should know: row locks are held by buffered writes only
(foreign-key share locks never conflict with them here); an INSERT that loses a
race on a unique constraint is an abort; a provider's charge is the same for
every hosted call; but for the rate limiter and the watermarks time is absent, so a
time-out is an outcome that may occur. `sent` of `Adjudication` holds what goes to chat models;
the embedding of a finding's title (`triage/memory.py`) is not among it. The rate
limiter's permission and the first packet are one step of `Verification`. `Verification` has one triage at a time and
`Governance` one detection; triage runs that overlap are the subject of
`FindingLifecycle` and `Adjudication`.

## 6. Plan

Modelled, in the order in which other parts feed or follow them: the finding's
lifecycle; adjudication and the recon run, which make the strictest promises;
what is kept of successive runs; then ingest, verification with scope, the schema, and
detection with feedback and ownership.

Theorems next worth proving:

1. `WithheldForCause` says nothing of matches that are raised; that a raised finding is
   a match, and that controls change nothing else, are two more facts of the same
   shape.
2. A refinement for `Ingest`: what the database holds of a source is what a single
   import of everything recorded would have made of it, but for the gap.

Models still worth writing: overlapping pins of one role (`db/repo/model_pin.py:62`),
attack paths against a reference definition, and a recheck evaluated by `Predicates`
with its empty context.
