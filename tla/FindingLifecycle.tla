--------------------------- MODULE FindingLifecycle ---------------------------
(***************************************************************************)
(* The life of a finding in kiyooo, from the detection that records it to  *)
(* the recheck that proves it fixed: kiyooo/cli.py's `_run_detect`,        *)
(* `_run_triage`, `_run_route`, `_decide_approval`, `_close_ticket`,       *)
(* `_run_recheck` and `_run_escalate`, with the repositories they write    *)
(* through.                                                                *)
(*                                                                         *)
(* Every one of those commands is one READ COMMITTED Postgres transaction  *)
(* (db/session.py).  The three that call an LLM or a ticket sink, or       *)
(* evaluate predicates, between their first read and their commit are      *)
(* modelled as jobs: Begin reads the work list, each step reads what it    *)
(* needs and buffers its writes, Commit publishes them, Abort (an          *)
(* exception or a killed process) drops them.  A row with a buffered       *)
(* UPDATE is locked for every other transaction.  What a job did at the    *)
(* ticket tracker is not buffered and survives Abort.  The other commands  *)
(* write blindly after one or two reads and are single steps.              *)
(***************************************************************************)
EXTENDS Naturals, Sequences, FiniteSets

CONSTANTS
  Findings,        \* fingerprints: one row per element at most
  Categories,      \* org-context category ids
  CategoryOf,      \* the category of a finding
  ClusterOf,       \* cluster_id, a function of category and discriminator
  Jobs,            \* processes (CLI or arq worker) that can run a job
  Policies,        \* contents org-context may have for one category
  Adjudications,   \* what one adjudication may conclude: value and severity
  Overlap,         \* may a transaction start while a job is open?
  NoWrite,         \* "this transaction does not write that row"
  ReviewOutcomes,  \* HumanReview outcomes explored
  ScanResults,     \* what a scan's evidence may say, of the results explored
  MaxScans, MaxDrafts, MaxFiled, MaxEdits   \* bounds

Statuses == {"new", "triaging", "triaged", "routed", "verification_pending",
             "fixed", "regressed"}
RowStatuses == Statuses \cup {"absent"}
TicketStatuses == {"open", "escalated", "pending_verification", "closed"}
ApprovalStatuses == {"pending", "approved", "rejected"}
VerdictValues == {"true_positive", "false_positive", "needs_human"}
Severities == {"low", "high"}
PastTriage == {"routed", "verification_pending", "fixed", "regressed"}

\* Two verdict values stand for their class: "false_positive" also for
\* not_exploitable; severity "high" for high and critical, "low" for the rest.
Policy == [level : 0..3, enabled : BOOLEAN]
Adjudication == [value : VerdictValues, severity : Severities]
Verdict == [value : VerdictValues, severity : Severities, basis : Nat]
Ticket == [key : Nat, status : TicketStatuses]

\* What a completed scan's evidence says of each finding.  `matching`: detection
\* reports it.  `reproducing`: a recheck does; that evaluates the category
\* without the KEV, EPSS and detected-control context detection has, and
\* matches on any discriminator, so neither set contains the other.
ScanResult == [seen : SUBSET Findings, matching : SUBSET Findings,
               reproducing : SUBSET Findings]

ASSUME ParametersAssumption ==
  /\ CategoryOf \in [Findings -> Categories]
  /\ DOMAIN ClusterOf = Findings
  /\ Policies \subseteq Policy
  /\ Policies # {}
  /\ Adjudications \subseteq Adjudication
  /\ Overlap \in BOOLEAN
  /\ NoWrite \notin RowStatuses
  /\ NoWrite \notin [index : Nat, status : TicketStatuses]
  /\ {MaxScans, MaxDrafts, MaxFiled, MaxEdits} \subseteq Nat
  /\ ReviewOutcomes \subseteq {"agree", "disagree"}
  /\ ScanResults \subseteq ScanResult

ASSUME FiniteAssumption == IsFiniteSet(Findings)

\* compute_cluster_id hashes the category's id with the discriminator.
ASSUME ClusterAssumption ==
  \A f, g \in Findings : ClusterOf[f] = ClusterOf[g] => CategoryOf[f] = CategoryOf[g]

VARIABLES
  scans,      \* completed scan runs and what their evidence says
  status,     \* Finding.status, "absent" while there is no row
  scanRun,    \* Finding.scan_run_id: the last scan that detected it
  firstSeen,  \* order in which rows were first created (ties share a rank)
  verdicts,   \* Verdict rows of a finding, oldest first
  reviews,    \* the finding's latest HumanReview, if any
  approvals,  \* Approval rows of a finding
  tickets,    \* Ticket rows of a finding
  filed,      \* tickets created at the tracker, database row or not
  policy,     \* org-context on disk
  edits,      \* number of org-context edits so far
  closedAt,   \* history: scans completed when a ticket was last closed
  job         \* open transactions

dbVars == <<status, scanRun, firstSeen, verdicts, reviews, approvals, tickets>>
vars == <<scans, dbVars, filed, policy, edits, closedAt, job>>

-----------------------------------------------------------------------------
(* Open transactions *)

TicketWrite == [index : Nat, status : TicketStatuses]

JobState ==
  [kind : {"idle", "triage", "route", "recheck"},
   scan : Nat,
   policy : [Categories -> Policies],
   todo : SUBSET Findings,          \* rows read at the start, not yet handled
   pending : SUBSET Findings,       \* rows whose UPDATE waits for a row lock
   target : Statuses,               \* the status that UPDATE sets
   writes : [Findings -> Statuses \cup {NoWrite}],
   verdict : [Findings -> Seq(Verdict)],
   drafts : SUBSET Findings,        \* Approval rows inserted
   created : [Findings -> Nat],     \* key of the Ticket row inserted, or 0
   ticketWrites : [Findings -> TicketWrite \cup {NoWrite}]]

Opened(kind, scan, orgContext, todo) ==
  [kind |-> kind, scan |-> scan, policy |-> orgContext, todo |-> todo,
   pending |-> {}, target |-> "new",
   writes |-> [f \in Findings |-> NoWrite],
   verdict |-> [f \in Findings |-> <<>>],
   drafts |-> {},
   created |-> [f \in Findings |-> 0],
   ticketWrites |-> [f \in Findings |-> NoWrite]]

Fresh(kind, scan, todo) == Opened(kind, scan, policy, todo)
Closed == Opened("idle", 0, [c \in Categories |-> CHOOSE p \in Policies : TRUE], {})

Idle(j) == job[j].kind = "idle"

\* Without Overlap an operator runs one command after the other.
MayStart == Overlap \/ \A j \in Jobs : Idle(j)

\* Postgres row locks: a buffered UPDATE of the row in another transaction.
RowsFree(j, S) ==
  \A k \in Jobs \ {j} : \A f \in S : job[k].writes[f] = NoWrite
AllRowsFree(S) == \A k \in Jobs : \A f \in S : job[k].writes[f] = NoWrite
TicketFree(j, f) == \A k \in Jobs \ {j} : job[k].ticketWrites[f] = NoWrite
AllTicketsFree(S) ==
  \A k \in Jobs : \A f \in S : job[k].ticketWrites[f] = NoWrite

\* The UPDATE that sets a Ticket row's status: none when the row read already
\* has it, otherwise it waits for the row's lock.
TicketUpdate(f, i, st) ==
  IF i = 0 \/ tickets[f][i].status = st THEN NoWrite ELSE [index |-> i, status |-> st]
TicketUpdatable(j, f, i, st) ==
  TicketUpdate(f, i, st) # NoWrite => TicketFree(j, f)

Cluster(f) == {g \in Findings : ClusterOf[g] = ClusterOf[f]}
Recorded == {f \in Findings : status[f] # "absent"}

-----------------------------------------------------------------------------
Init ==
  /\ scans = <<>>
  /\ status = [f \in Findings |-> "absent"]
  /\ scanRun = [f \in Findings |-> 0]
  /\ firstSeen = [f \in Findings |-> 0]
  /\ verdicts = [f \in Findings |-> <<>>]
  /\ reviews = [f \in Findings |-> "none"]
  /\ approvals = [f \in Findings |-> <<>>]
  /\ tickets = [f \in Findings |-> <<>>]
  /\ filed = [f \in Findings |-> 0]
  /\ policy \in [Categories -> Policies]
  /\ edits = 0
  /\ closedAt = [f \in Findings |-> 0]
  /\ job = [j \in Jobs |-> Closed]

\* A scan run completes: it recorded evidence for some assets, and on some of
\* those the category's detect block matches (and suppress_if does not).
RunScan(result) ==
  /\ Len(scans) < MaxScans
  /\ result.matching \cup result.reproducing \subseteq result.seen
  /\ scans' = Append(scans, result)
  /\ UNCHANGED <<dbVars, filed, policy, edits, closedAt, job>>

\* A reviewable diff to org-context; commands read it when they start.
EditPolicy(c, p) ==
  /\ edits < MaxEdits
  /\ policy' = [policy EXCEPT ![c] = p]
  /\ edits' = edits + 1
  /\ UNCHANGED <<scans, dbVars, filed, closedAt, job>>

-----------------------------------------------------------------------------
(* kiyooo detect *)

\* FindingRepository.upsert: a new fingerprint is inserted as "new"; an
\* existing row only learns which scan saw it last, its status is kept.
UpsertStatus(f, S) ==
  IF f \in S /\ status[f] = "absent" THEN "new" ELSE status[f]

\* Findings hidden by a detected control or a promoted suppression are the
\* enabled matches outside S.
Detect(s, S) ==
  /\ MayStart
  /\ s \in DOMAIN scans
  /\ S \subseteq {f \in scans[s].matching : policy[CategoryOf[f]].enabled}
  /\ AllRowsFree(S)
  /\ status' = [f \in Findings |-> UpsertStatus(f, S)]
  /\ scanRun' = [f \in Findings |-> IF f \in S THEN s ELSE scanRun[f]]
  /\ firstSeen' = [f \in Findings |-> IF f \in S /\ status[f] = "absent"
                                        THEN Cardinality(Recorded)
                                        ELSE firstSeen[f]]
  /\ UNCHANGED <<scans, verdicts, reviews, approvals, tickets, filed, policy,
                 edits, closedAt, job>>

-----------------------------------------------------------------------------
(* kiyooo triage: one transaction over the scan's "new" findings *)

BeginTriage(j, s) ==
  /\ Idle(j) /\ MayStart
  /\ s \in DOMAIN scans
  /\ job' = [job EXCEPT ![j] = Fresh("triage", s,
               {f \in Findings : scanRun[f] = s /\ status[f] = "new"})]
  /\ UNCHANGED <<scans, dbVars, filed, policy, edits, closedAt>>

\* The input hash covers the evidence linked to the finding, which grows with
\* every scan that detects it; only committed verdicts can be cache hits.
Cached(f) == \E i \in DOMAIN verdicts[f] : verdicts[f][i].basis = scanRun[f]

\* Mutant: the verdict's value is stored as the status.
TriagedStatusIsValue(a) == IF a.value = "needs_human" THEN a.value ELSE "triaged"

TriagedStatus(a) == IF a.value = "needs_human" THEN "triaging" ELSE "triaged"

TriageFinding(j, f, a) ==
  /\ job[j].kind = "triage"
  /\ job[j].pending = {}
  /\ f \in job[j].todo
  /\ ~Cached(f)
  /\ job' = [job EXCEPT ![j] = [job[j] EXCEPT
       !.todo = job[j].todo \ {f},
       !.pending = {f},
       !.target = TriagedStatus(a),
       !.verdict[f] = <<[value |-> a.value, severity |-> a.severity,
                         basis |-> scanRun[f]]>>]]
  /\ UNCHANGED <<scans, dbVars, filed, policy, edits, closedAt>>

\* A cache hit returns the stored verdict and leaves the status alone; an
\* unknown category, a vanished asset or a ProviderError moves on.
TriageSkip(j, f) ==
  /\ job[j].kind = "triage"
  /\ job[j].pending = {}
  /\ f \in job[j].todo
  /\ job' = [job EXCEPT ![j] = [job[j] EXCEPT !.todo = job[j].todo \ {f}]]
  /\ UNCHANGED <<scans, dbVars, filed, policy, edits, closedAt>>

\* CostCeilingExceeded breaks the loop; what was adjudicated still commits.
TriageCeiling(j) ==
  /\ job[j].kind = "triage"
  /\ job[j].pending = {}
  /\ job[j].todo # {}
  /\ job' = [job EXCEPT ![j] = [job[j] EXCEPT !.todo = {}]]
  /\ UNCHANGED <<scans, dbVars, filed, policy, edits, closedAt>>

-----------------------------------------------------------------------------
(* kiyooo route run: one transaction over the scan's "triaged" findings *)

BeginRoute(j, s) ==
  /\ Idle(j) /\ MayStart
  /\ s \in DOMAIN scans
  /\ job' = [job EXCEPT ![j] = Fresh("route", s,
               {f \in Findings : scanRun[f] = s /\ status[f] = "triaged"})]
  /\ UNCHANGED <<scans, dbVars, filed, policy, edits, closedAt>>

\* Mutants: level 2 holds the wrong severities; level 1 already files.
DecideActionHoldsLow(level, severity) ==
  IF level = 2 /\ severity = "low" THEN "draft_for_approval" ELSE "auto_file"
DecideActionOffByOne(level, severity) ==
  IF level = 0 THEN "draft_for_approval" ELSE "auto_file"

\* autonomy.decide_action: the ladder of shadow, draft, hold-high, auto-file.
DecideAction(level, severity) ==
  CASE level = 0 -> "shadow"
    [] level = 1 -> "draft_for_approval"
    [] level = 2 -> IF severity = "high" THEN "draft_for_approval"
                                         ELSE "auto_file"
    [] OTHER     -> "auto_file"

\* The members of f's cluster still in the work list form one group; its
\* primary is a member first seen no later than any other.
Group(j, f) == job[j].todo \cap Cluster(f)
IsPrimary(j, f) ==
  /\ f \in job[j].todo
  /\ \A g \in Group(j, f) : firstSeen[f] <= firstSeen[g]

Latest(f) == verdicts[f][Len(verdicts[f])]

\* Mutant: any adjudicated finding is ticketed.
LatestAnyVerdict(f) == verdicts[f] # <<>>

LatestTruePositive(f) ==
  verdicts[f] # <<>> /\ Latest(f).value = "true_positive"

\* A group about to be handled with primary f, and what its category's
\* autonomy level says to do with it.
RouteReady(j, f) ==
  job[j].kind = "route" /\ job[j].pending = {} /\ IsPrimary(j, f)
RouteAction(j, f) ==
  DecideAction(job[j].policy[CategoryOf[f]].level, Latest(f).severity)

\* No true positive, no category, a ticket that fails its contract, no sink
\* configured, or shadow mode: the whole group is passed over.
RouteSkip(j, f) ==
  /\ RouteReady(j, f)
  /\ job' = [job EXCEPT ![j] = [job[j] EXCEPT !.todo = job[j].todo \ Cluster(f)]]
  /\ UNCHANGED <<scans, dbVars, filed, policy, edits, closedAt>>

\* Held for a human: an Approval for the primary; no status changes.
RouteDraft(j, f) ==
  /\ RouteReady(j, f)
  /\ LatestTruePositive(f)
  /\ RouteAction(j, f) = "draft_for_approval"
  /\ Len(approvals[f]) < MaxDrafts
  /\ job' = [job EXCEPT ![j] = [job[j] EXCEPT
       !.todo = job[j].todo \ Cluster(f),
       !.drafts = job[j].drafts \cup {f}]]
  /\ UNCHANGED <<scans, dbVars, filed, policy, edits, closedAt>>

\* Mutant: the sink's failure is swallowed and the row inserted all the same.
RouteFileUnsent(j, f) ==
  /\ RouteReady(j, f)
  /\ LatestTruePositive(f)
  /\ RouteAction(j, f) = "auto_file"
  /\ tickets[f] = <<>>
  /\ job' = [job EXCEPT ![j] = [job[j] EXCEPT
       !.todo = job[j].todo \ Cluster(f),
       !.pending = Group(j, f),
       !.target = "routed",
       !.created[f] = filed[f] + 1]]
  /\ UNCHANGED <<scans, dbVars, filed, policy, edits, closedAt>>

\* No Ticket row is visible for the primary: the sink creates one at the
\* tracker now, the row and the members' "routed" wait for the commit.
RouteFile(j, f) ==
  /\ RouteReady(j, f)
  /\ LatestTruePositive(f)
  /\ RouteAction(j, f) = "auto_file"
  /\ tickets[f] = <<>>
  /\ filed[f] < MaxFiled
  /\ filed' = [filed EXCEPT ![f] = @ + 1]
  /\ job' = [job EXCEPT ![j] = [job[j] EXCEPT
       !.todo = job[j].todo \ Cluster(f),
       !.pending = Group(j, f),
       !.target = "routed",
       !.created[f] = filed[f] + 1]]
  /\ UNCHANGED <<scans, dbVars, policy, edits, closedAt>>

\* A Ticket row exists (the query has no order: any of them): it is reopened.
RouteReopen(j, f, i) ==
  /\ RouteReady(j, f)
  /\ LatestTruePositive(f)
  /\ RouteAction(j, f) = "auto_file"
  /\ i \in DOMAIN tickets[f]
  /\ TicketUpdatable(j, f, i, "open")
  /\ job' = [job EXCEPT ![j] = [job[j] EXCEPT
       !.todo = job[j].todo \ Cluster(f),
       !.pending = Group(j, f),
       !.target = "routed",
       !.ticketWrites[f] = TicketUpdate(f, i, "open")]]
  /\ UNCHANGED <<scans, dbVars, filed, policy, edits, closedAt>>

\* FindingRepository.mark_status: the UPDATE waits for the row locks.
MarkStatus(j) ==
  /\ job[j].pending # {}
  /\ RowsFree(j, job[j].pending)
  /\ job' = [job EXCEPT ![j] = [job[j] EXCEPT
       !.writes = [f \in Findings |-> IF f \in job[j].pending
                                      THEN job[j].target
                                      ELSE job[j].writes[f]],
       !.pending = {}]]
  /\ UNCHANGED <<scans, dbVars, filed, policy, edits, closedAt>>

-----------------------------------------------------------------------------
(* kiyooo route approvals send / reject *)

\* Unconditional: neither the approval's nor the finding's state is looked at,
\* and nothing is sent to a sink.
DecideApproval(f, i, approve) ==
  /\ MayStart
  /\ i \in DOMAIN approvals[f]
  /\ approve => AllRowsFree({f})
  /\ approvals' = [approvals EXCEPT
       ![f][i] = IF approve THEN "approved" ELSE "rejected"]
  /\ status' = IF approve THEN [status EXCEPT ![f] = "routed"] ELSE status
  /\ UNCHANGED <<scans, scanRun, firstSeen, verdicts, reviews, tickets, filed,
                 policy, edits, closedAt, job>>

-----------------------------------------------------------------------------
(* kiyooo route close, recheck and escalate *)

\* Mutant: closing the ticket is taken as the proof.
CloseTicketAsFixed(f, i) ==
  /\ MayStart
  /\ i \in DOMAIN tickets[f]
  /\ AllRowsFree({f}) /\ AllTicketsFree({f})
  /\ tickets' = [tickets EXCEPT ![f][i].status = "closed"]
  /\ status' = [status EXCEPT ![f] = "fixed"]
  /\ closedAt' = [closedAt EXCEPT ![f] = Len(scans)]
  /\ UNCHANGED <<scans, scanRun, firstSeen, verdicts, reviews, approvals, filed,
                 policy, edits, job>>

\* Closing a ticket sends its finding to "verification_pending", whatever
\* either's state was; the other members of its cluster are left alone.
CloseTicket(f, i) ==
  /\ MayStart
  /\ i \in DOMAIN tickets[f]
  /\ AllRowsFree({f}) /\ AllTicketsFree({f})
  /\ tickets' = [tickets EXCEPT ![f][i].status = "pending_verification"]
  /\ status' = [status EXCEPT ![f] = "verification_pending"]
  /\ closedAt' = [closedAt EXCEPT ![f] = Len(scans)]
  /\ UNCHANGED <<scans, scanRun, firstSeen, verdicts, reviews, approvals, filed,
                 policy, edits, job>>

BeginRecheck(j, s) ==
  /\ Idle(j) /\ MayStart
  /\ s \in DOMAIN scans
  /\ job' = [job EXCEPT ![j] = Fresh("recheck", s,
               {f \in Findings : status[f] = "verification_pending"})]
  /\ UNCHANGED <<scans, dbVars, filed, policy, edits, closedAt>>

\* recheck_finding, for an asset the scan has evidence for, on an empty
\* PredicateContext: controls and promoted suppressions play no part, nor does
\* what detection made of the same scan.
RecheckResult(f, s, p) ==
  IF ~p[CategoryOf[f]].enabled THEN "no_longer_applicable"
  ELSE IF f \in scans[s].reproducing THEN "regressed" ELSE "fixed"

\* Mutant: a recheck always leaves the ticket closed.
TicketAlwaysClosed(result) == "closed"

TicketAfterRecheck(result) == IF result = "fixed" THEN "closed" ELSE "open"

\* The finding's asset has no evidence in this scan, or its category is gone
\* or disabled: the finding stays where it is.
RecheckSkip(j, f) ==
  /\ job[j].kind = "recheck"
  /\ f \in job[j].todo
  /\ \/ f \notin scans[job[j].scan].seen
     \/ RecheckResult(f, job[j].scan, job[j].policy) = "no_longer_applicable"
  /\ job' = [job EXCEPT ![j] = [job[j] EXCEPT !.todo = job[j].todo \ {f}]]
  /\ UNCHANGED <<scans, dbVars, filed, policy, edits, closedAt>>

\* Mutant: an asset the scan has no evidence for is rechecked all the same.
RecheckUnseen(j, f, i) ==
  LET result == RecheckResult(f, job[j].scan, job[j].policy) IN
  /\ job[j].kind = "recheck"
  /\ f \in job[j].todo
  /\ result \in {"fixed", "regressed"}
  /\ IF tickets[f] = <<>> THEN i = 0 ELSE i \in DOMAIN tickets[f]
  /\ RowsFree(j, {f}) /\ TicketUpdatable(j, f, i, TicketAfterRecheck(result))
  /\ job' = [job EXCEPT ![j] = [job[j] EXCEPT
       !.todo = job[j].todo \ {f},
       !.writes[f] = result,
       !.ticketWrites[f] = TicketUpdate(f, i, TicketAfterRecheck(result))]]
  /\ UNCHANGED <<scans, dbVars, filed, policy, edits, closedAt>>

\* The verdict of the evidence: the finding's row, then its ticket's, if any
\* (index i; 0 stands for no ticket).
RecheckFinding(j, f, i) ==
  LET result == RecheckResult(f, job[j].scan, job[j].policy) IN
  /\ job[j].kind = "recheck"
  /\ f \in job[j].todo
  /\ f \in scans[job[j].scan].seen
  /\ result \in {"fixed", "regressed"}
  /\ IF tickets[f] = <<>> THEN i = 0 ELSE i \in DOMAIN tickets[f]
  /\ RowsFree(j, {f}) /\ TicketUpdatable(j, f, i, TicketAfterRecheck(result))
  /\ job' = [job EXCEPT ![j] = [job[j] EXCEPT
       !.todo = job[j].todo \ {f},
       !.writes[f] = result,
       !.ticketWrites[f] = TicketUpdate(f, i, TicketAfterRecheck(result))]]
  /\ UNCHANGED <<scans, dbVars, filed, policy, edits, closedAt>>

\* The SLA sweep: open tickets past sla_due_at; O says of which findings.
Escalate(O) ==
  /\ MayStart
  /\ AllTicketsFree(O)
  /\ tickets' = [f \in Findings |-> [i \in DOMAIN tickets[f] |->
       IF f \in O /\ tickets[f][i].status = "open"
         THEN [tickets[f][i] EXCEPT !.status = "escalated"]
         ELSE tickets[f][i]]]
  /\ UNCHANGED <<scans, status, scanRun, firstSeen, verdicts, reviews, approvals,
                 filed, policy, edits, closedAt, job>>

\* kiyooo review and POST /findings/{id}/review: a row, never a status.
Review(f, outcome) ==
  /\ status[f] # "absent"
  /\ reviews' = [reviews EXCEPT ![f] = outcome]
  /\ UNCHANGED <<scans, status, scanRun, firstSeen, verdicts, approvals, tickets,
                 filed, policy, edits, closedAt, job>>

-----------------------------------------------------------------------------
(* Commit and rollback of a job (session_scope) *)

AfterWrite(old, w) == IF w = NoWrite THEN old ELSE w

\* Mutant: the tracker is called but the Ticket row is never inserted.
AfterTicketsNoInsert(f, d) ==
  [i \in DOMAIN tickets[f] |->
     IF d.ticketWrites[f] # NoWrite /\ d.ticketWrites[f].index = i
       THEN [tickets[f][i] EXCEPT !.status = d.ticketWrites[f].status]
       ELSE tickets[f][i]]

\* The Ticket rows of f after job record d commits: one row updated by primary
\* key, one inserted.
AfterTickets(f, d) ==
  LET updated == [i \in DOMAIN tickets[f] |->
        IF d.ticketWrites[f] # NoWrite /\ d.ticketWrites[f].index = i
          THEN [tickets[f][i] EXCEPT !.status = d.ticketWrites[f].status]
          ELSE tickets[f][i]]
  IN IF d.created[f] = 0 THEN updated
     ELSE Append(updated, [key |-> d.created[f], status |-> "open"])

Commit(j) ==
  LET d == job[j] IN
  /\ ~Idle(j)
  /\ d.todo = {} /\ d.pending = {}
  /\ status' = [f \in Findings |-> AfterWrite(status[f], d.writes[f])]
  /\ verdicts' = [f \in Findings |-> verdicts[f] \o d.verdict[f]]
  /\ approvals' = [f \in Findings |-> IF f \in d.drafts
                                         THEN Append(approvals[f], "pending")
                                         ELSE approvals[f]]
  /\ tickets' = [f \in Findings |-> AfterTickets(f, d)]
  /\ job' = [job EXCEPT ![j] = Closed]
  /\ UNCHANGED <<scans, scanRun, firstSeen, reviews, filed, policy, edits, closedAt>>

\* Any exception the loop does not catch, a deadlock victim, or a kill.
Abort(j) ==
  /\ ~Idle(j)
  /\ job' = [job EXCEPT ![j] = Closed]
  /\ UNCHANGED <<scans, dbVars, filed, policy, edits, closedAt>>

-----------------------------------------------------------------------------
JobStep(j) ==
  \/ \E f \in Findings, a \in Adjudications : TriageFinding(j, f, a)
  \/ \E f \in Findings : TriageSkip(j, f)
  \/ TriageCeiling(j)
  \/ \E f \in Findings :
       RouteSkip(j, f) \/ RouteDraft(j, f) \/ RouteFile(j, f)
  \/ \E f \in Findings : \E i \in DOMAIN tickets[f] : RouteReopen(j, f, i)
  \/ MarkStatus(j)
  \/ \E f \in Findings : RecheckSkip(j, f)
  \/ \E f \in Findings : \E i \in 0..Len(tickets[f]) : RecheckFinding(j, f, i)
  \/ Commit(j)
  \/ Abort(j)

Environment ==
  \/ \E result \in ScanResults : RunScan(result)
  \/ \E c \in Categories, p \in Policies : EditPolicy(c, p)

\* Commands a person types; `route recheck` takes any scan run.
Operator ==
  \/ \E f \in Findings : \E i \in DOMAIN approvals[f] :
       \E approve \in BOOLEAN : DecideApproval(f, i, approve)
  \/ \E f \in Findings : \E i \in DOMAIN tickets[f] : CloseTicket(f, i)
  \/ \E f \in Findings, o \in ReviewOutcomes : Review(f, o)

\* Work that the CLI and the worker's schedule both start.
Pipeline ==
  \/ \E s \in DOMAIN scans, S \in SUBSET Findings : Detect(s, S)
  \/ \E j \in Jobs, s \in DOMAIN scans :
       BeginTriage(j, s) \/ BeginRoute(j, s) \/ BeginRecheck(j, s)
  \/ \E O \in SUBSET Findings : Escalate(O)
  \/ \E j \in Jobs : JobStep(j)

Next == Environment \/ Operator \/ Pipeline

Spec == Init /\ [][Next]_vars

\* The worker's cron jobs only ever name the latest completed scan.
Scheduled ==
  \/ \E s \in {Len(scans)}, S \in SUBSET Findings : Detect(s, S)
  \/ \E j \in Jobs, s \in {Len(scans)} :
       BeginTriage(j, s) \/ BeginRoute(j, s) \/ BeginRecheck(j, s)
  \/ \E O \in SUBSET Findings : Escalate(O)
  \/ \E j \in Jobs : JobStep(j)

ScheduledSpec == Init /\ [][Environment \/ Operator \/ Scheduled]_vars

-----------------------------------------------------------------------------
(* Properties *)

\* Every variable, and every field of every open transaction, has its type.
TypeOK ==
  /\ scans \in Seq(ScanResult)
  /\ status \in [Findings -> RowStatuses]
  /\ scanRun \in [Findings -> Nat]
  /\ firstSeen \in [Findings -> Nat]
  /\ verdicts \in [Findings -> Seq(Verdict)]
  /\ reviews \in [Findings -> {"none", "agree", "disagree"}]
  /\ approvals \in [Findings -> Seq(ApprovalStatuses)]
  /\ tickets \in [Findings -> Seq(Ticket)]
  /\ filed \in [Findings -> Nat]
  /\ policy \in [Categories -> Policies]
  /\ edits \in Nat
  /\ closedAt \in [Findings -> Nat]
  /\ job \in [Jobs -> JobState]

\* Nothing is past triage without a trace of who let it through: the finding
\* had a draft of its own, or its cluster has a Ticket row; and nothing awaits
\* or has had a recheck without a Ticket row of its own.  Holds however
\* transactions overlap and abort.
PastTriageIsAccountable ==
  \A f \in Findings :
    /\ status[f] \in PastTriage =>
         approvals[f] # <<>> \/ \E g \in Cluster(f) : tickets[g] # <<>>
    /\ status[f] \in PastTriage \ {"routed"} => tickets[f] # <<>>

\* Every Ticket row names a ticket that really exists at the tracker, and no
\* two rows of a finding name the same one: a rollback may leave a tracker
\* ticket without a row, never a row without a tracker ticket.
TicketRowsAreFiled ==
  \A f \in Findings :
    /\ \A i \in DOMAIN tickets[f] : tickets[f][i].key \in 1..filed[f]
    /\ \A i, k \in DOMAIN tickets[f] :
         tickets[f][i].key = tickets[f][k].key => i = k

\* Nothing reaches the tracker for a finding no adjudication has ever called a
\* true positive.
TicketsOnlyForTruePositives ==
  \A f \in Findings : filed[f] > 0 =>
    \E i \in DOMAIN verdicts[f] : verdicts[f][i].value = "true_positive"

\* Rollbacks after the tracker was called may leave a tracker ticket without a
\* row, and the next run files another: still only one row is inserted.
OneTicketRow == \A f \in Findings : Len(tickets[f]) <= 1

TicketTellsState ==
  \A f \in Findings : tickets[f] # <<>> =>
    LET ticket == tickets[f][1].status IN
    /\ status[f] = "verification_pending" => ticket = "pending_verification"
    /\ status[f] = "fixed" => ticket = "closed"
    /\ status[f] = "regressed" => ticket \in {"open", "escalated"}

\* One command at a time, whatever aborts, a finding has one Ticket row at most,
\* and the row tells the finding's state: it awaits proof with the finding, is
\* closed with it, and reopened with it (cli.py: _close_ticket, _run_recheck).
TicketMirrorsFinding == OneTicketRow /\ TicketTellsState

\* Whatever other transactions did to the finding since, "fixed" is written only
\* by a recheck of a scan that saw the asset and whose own evaluation of that
\* scan no longer reproduces the finding (route/recheck.py).  Detection of the
\* same scan may still report it.
FixedOnlyOnCleanEvidence ==
  [][\A f \in Findings : status'[f] = "fixed" /\ status[f] # "fixed" =>
       \E j \in Jobs :
         /\ job[j].kind = "recheck"
         /\ f \in scans[job[j].scan].seen \ scans[job[j].scan].reproducing]_vars

Enters(f) == status[f] \notin PastTriage /\ status'[f] \in PastTriage
ApprovedNext(f) == \E i \in DOMAIN approvals'[f] : approvals'[f][i] = "approved"

\* The finding is being routed by a run that read one of these levels.
RoutedAt(f, levels) ==
  \E j \in Jobs : /\ job[j].kind = "route"
                 /\ job[j].writes[f] = "routed"
                 /\ job[j].policy[CategoryOf[f]].level \in levels

\* Autonomy level 2: a group's primary decides for the whole group, so a
\* finding in a cluster whose latest verdicts are all high or critical leaves
\* triage only by an approval of its own, or by a run that read level 3
\* (route/autonomy.py), even when the level is edited between two commands.
ClusterIsHigh(f) ==
  /\ verdicts[f] # <<>>
  /\ \A g \in Cluster(f) : verdicts[g] # <<>> => Latest(g).severity = "high"

HighSeverityHeld ==
  [][\A f \in Findings :
       Enters(f) /\ ClusterIsHigh(f) => ApprovedNext(f) \/ RoutedAt(f, {3})]_vars

\* Autonomy levels 0 and 1: without a human's approval nothing leaves triage
\* but by a run that read level 2 or 3.
ApprovalGate ==
  [][\A f \in Findings :
       Enters(f) => ApprovedNext(f) \/ RoutedAt(f, {2, 3})]_vars

\* Whatever else is running, a finding that has no Ticket row yet leaves triage only
\* by an approval of its own, or by a run that read level 2 or 3: a triage or a
\* recheck that commits late never lets it through (cli.py: _run_route).
FirstRouteGated ==
  [][\A f \in Findings :
       Enters(f) /\ tickets[f] = <<>> => ApprovedNext(f) \/ RoutedAt(f, {2, 3})]_vars

\* CLI.md: only a recheck against a fresh scan, one completed after the ticket
\* was closed, marks a finding fixed.
FixedOnlyOnFreshEvidence ==
  [][\A f \in Findings : status'[f] = "fixed" /\ status[f] # "fixed" =>
       \E j \in Jobs : job[j].kind = "recheck" /\ job[j].scan > closedAt[f]]_vars

\* One command at a time, the commands keep the closure contract.
PhaseOf(s) ==
  CASE s = "absent" -> "unrecorded"
    [] s \in {"new", "triaging", "triaged"} -> "assessed"
    [] s = "verification_pending" -> "awaiting_proof"
    [] OTHER -> s

Contract == INSTANCE ClosureContract
              WITH phase <- [f \in Findings |-> PhaseOf(status[f])]

\* Run one after the other, whatever aborts, the commands implement the
\* contract: "fixed" and "regressed" are reached from "verification_pending"
\* only, each on what a recheck makes of one scan's evidence.
KeepsClosureContract == Contract!ContractSpec
=============================================================================
