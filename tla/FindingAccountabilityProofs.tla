----------------------- MODULE FindingAccountabilityProofs -----------------------
(***************************************************************************)
(* Two invariants of FindingLifecycle that hold however transactions       *)
(* overlap, wait for each other and abort: no finding is past triage       *)
(* without a trace of who let it through, and no Ticket row names a ticket *)
(* the tracker does not have.  Neither is inductive: what an open          *)
(* transaction has buffered is published later, so the invariants are      *)
(* strengthened with what each buffer may hold.                            *)
(***************************************************************************)
EXTENDS FindingLifecycleProofs

-----------------------------------------------------------------------------
(* Rows that stay *)

\* No step takes the last Ticket row, or the last Approval row, of a finding
\* away.
LEMMA RowsStay ==
  ASSUME TypeOK, TypeOK', [Next]_vars, NEW f \in Findings
  PROVE  /\ tickets[f] # <<>> => tickets'[f] # <<>>
         /\ approvals[f] # <<>> => approvals'[f] # <<>>
  <1>1. /\ tickets[f] \in Seq(Ticket) /\ tickets'[f] \in Seq(Ticket)
        /\ approvals[f] \in Seq(ApprovalStatuses)
        /\ approvals'[f] \in Seq(ApprovalStatuses)
    BY DEF TypeOK
  <1>3. ASSUME NEW g \in Findings, NEW i \in DOMAIN approvals[g],
               NEW approve \in BOOLEAN, DecideApproval(g, i, approve)
        PROVE  Len(approvals'[f]) = Len(approvals[f]) /\ tickets' = tickets
    <2>1. DOMAIN approvals'[f] = DOMAIN approvals[f]
      BY <1>3 DEF DecideApproval, TypeOK
    <2> QED BY <1>1, <1>3, <2>1, LenProperties DEF DecideApproval
  <1>4. ASSUME NEW g \in Findings, NEW i \in DOMAIN tickets[g], CloseTicket(g, i)
        PROVE  Len(tickets'[f]) = Len(tickets[f]) /\ approvals' = approvals
    <2>1. DOMAIN tickets'[f] = DOMAIN tickets[f]
      BY <1>4 DEF CloseTicket, TypeOK
    <2> QED BY <1>1, <1>4, <2>1, LenProperties DEF CloseTicket
  <1>5. ASSUME NEW O \in SUBSET Findings, Escalate(O)
        PROVE  Len(tickets'[f]) = Len(tickets[f]) /\ approvals' = approvals
    <2>1. DOMAIN tickets'[f] = DOMAIN tickets[f]
      BY <1>5 DEF Escalate
    <2> QED BY <1>1, <1>5, <2>1, LenProperties DEF Escalate
  <1>6. ASSUME NEW j \in Jobs, Commit(j)
        PROVE  Len(tickets'[f]) >= Len(tickets[f]) /\ Len(approvals'[f]) >= Len(approvals[f])
    <2>1. tickets'[f] = AfterTickets(f, job[j]) /\ job[j] \in JobState
      BY <1>6 DEF Commit, TypeOK
    <2>2. Len(tickets'[f]) >= Len(tickets[f])
      BY <2>1, AfterTicketsKeys
    <2>3. approvals'[f] = Append(approvals[f], "pending") \/ approvals'[f] = approvals[f]
      BY <1>6 DEF Commit
    <2>4. Len(approvals'[f]) >= Len(approvals[f])
      BY <1>1, <2>3, LenProperties, AppendProperties DEF ApprovalStatuses
    <2> QED BY <2>2, <2>4
  <1>7. \/ UNCHANGED <<tickets, approvals>>
        \/ \E g \in Findings : \E i \in DOMAIN approvals[g] :
             \E approve \in BOOLEAN : DecideApproval(g, i, approve)
        \/ \E g \in Findings : \E i \in DOMAIN tickets[g] : CloseTicket(g, i)
        \/ \E O \in SUBSET Findings : Escalate(O)
        \/ \E j \in Jobs : Commit(j)
    <2>1. CASE UNCHANGED vars
      BY <2>1 DEF vars, dbVars
    <2>2. CASE Environment
      BY <2>2 DEF Environment, RunScan, EditPolicy, dbVars
    <2>3. CASE Operator
      BY <2>3 DEF Operator, Review
    <2>4. CASE Pipeline
      <3>1. CASE \E s \in DOMAIN scans, S \in SUBSET Findings : Detect(s, S)
        BY <3>1 DEF Detect
      <3>2. CASE \E j \in Jobs, s \in DOMAIN scans :
                   BeginTriage(j, s) \/ BeginRoute(j, s) \/ BeginRecheck(j, s)
        BY <3>2 DEF BeginTriage, BeginRoute, BeginRecheck, dbVars
      <3>3. ASSUME NEW j \in Jobs, JobStep(j), ~Commit(j)
            PROVE  UNCHANGED <<tickets, approvals>>
        BY <3>3, JobStepFrame
      <3> QED BY <2>4, <3>1, <3>2, <3>3 DEF Pipeline
    <2> QED BY <2>1, <2>2, <2>3, <2>4 DEF Next
  <1>8. /\ tickets'[f] = tickets[f] \/ Len(tickets'[f]) >= Len(tickets[f])
        /\ approvals'[f] = approvals[f] \/ Len(approvals'[f]) >= Len(approvals[f])
    <2>1. /\ Len(tickets[f]) \in Nat /\ Len(tickets'[f]) \in Nat
          /\ Len(approvals[f]) \in Nat /\ Len(approvals'[f]) \in Nat
      BY <1>1, LenProperties
    <2>2. CASE \E g \in Findings : \E i \in DOMAIN approvals[g] :
                 \E approve \in BOOLEAN : DecideApproval(g, i, approve)
      BY <2>1, <2>2, <1>3
    <2>3. CASE \E g \in Findings : \E i \in DOMAIN tickets[g] : CloseTicket(g, i)
      BY <2>1, <2>3, <1>4
    <2>4. CASE \E O \in SUBSET Findings : Escalate(O)
      BY <2>1, <2>4, <1>5
    <2>5. CASE \E j \in Jobs : Commit(j)
      BY <2>5, <1>6
    <2> QED BY <1>7, <2>2, <2>3, <2>4, <2>5
  <1>9. /\ (tickets[f] # <<>>) <=> Len(tickets[f]) > 0
        /\ (tickets'[f] # <<>>) <=> Len(tickets'[f]) > 0
        /\ (approvals[f] # <<>>) <=> Len(approvals[f]) > 0
        /\ (approvals'[f] # <<>>) <=> Len(approvals'[f]) > 0
    BY <1>1, NonEmpty
  <1>10. /\ Len(tickets[f]) \in Nat /\ Len(tickets'[f]) \in Nat
         /\ Len(approvals[f]) \in Nat /\ Len(approvals'[f]) \in Nat
    BY <1>1, LenProperties
  <1> QED BY <1>8, <1>9, <1>10

\* What that lemma says of a step, for every finding at once.
RowsKept ==
  \A f \in Findings : /\ tickets[f] # <<>> => tickets'[f] # <<>>
                      /\ approvals[f] # <<>> => approvals'[f] # <<>>

-----------------------------------------------------------------------------
(* Nothing is past triage without a trace *)

\* The cluster of f has a Ticket row, or gets one when job record d commits.
Backed(d, f) == \E g \in Cluster(f) : d.created[g] # 0 \/ tickets[g] # <<>>

\* What an open transaction may have buffered: "routed" for a cluster with a
\* Ticket row or one of its own making, "fixed" or "regressed" for findings
\* that have a ticket, and a recheck works on nothing else.
AccountableJob(d) ==
  /\ d.target \in {"new", "triaging", "triaged", "routed"}
  /\ d.target = "routed" => \A f \in d.pending : Backed(d, f)
  /\ d.kind = "recheck" => \A f \in d.todo : tickets[f] # <<>>
  /\ \A f \in Findings :
       /\ d.writes[f] # "verification_pending"
       /\ d.writes[f] = "routed" => Backed(d, f)
       /\ d.writes[f] \in {"fixed", "regressed"} => tickets[f] # <<>>

AccountableInv ==
  /\ TypeOK
  /\ PastTriageIsAccountable
  /\ \A j \in Jobs : AccountableJob(job[j])

LEMMA ClosedAccountable ==
  ASSUME NEW kind \in {"idle", "triage", "route", "recheck"}, NEW s \in Nat,
         NEW p \in [Categories -> Policies], NEW todo \in SUBSET Findings,
         kind = "recheck" => \A f \in todo : tickets[f] # <<>>
  PROVE  AccountableJob(Opened(kind, s, p, todo))
  <1>1. NoWrite \notin {"verification_pending", "routed", "fixed", "regressed"}
    BY ParametersAssumption DEF RowStatuses, Statuses
  <1> QED BY <1>1 DEF AccountableJob, Opened

LEMMA AccountableInit == Init => AccountableInv
  <1> SUFFICES ASSUME Init PROVE AccountableInv OBVIOUS
  <1>1. TypeOK
    BY InitType
  <1>2. PastTriageIsAccountable
    BY DEF Init, PastTriageIsAccountable, PastTriage
  <1>3. AccountableJob(Closed)
    <2>1. [c \in Categories |-> CHOOSE p \in Policies : TRUE] \in [Categories -> Policies]
      BY ParametersAssumption
    <2> QED BY <2>1, ClosedAccountable DEF Closed
  <1> QED BY <1>1, <1>2, <1>3 DEF Init, AccountableInv

\* A step that replaces one job's record and touches no row.
LEMMA AccountableRecord ==
  ASSUME AccountableInv, TypeOK', NEW j \in Jobs, NEW d,
         job' = [job EXCEPT ![j] = d], AccountableJob(d),
         UNCHANGED <<status, approvals, tickets>>
  PROVE  AccountableInv'
  <1>1. PastTriageIsAccountable'
    BY DEF AccountableInv, PastTriageIsAccountable, Cluster
  <1>2. ASSUME NEW k \in Jobs
        PROVE  AccountableJob(job[k])'
    <2>1. job'[k] = IF k = j THEN d ELSE job[k]
      BY DEF AccountableInv, TypeOK
    <2> QED BY <2>1 DEF AccountableInv, AccountableJob, Backed, Cluster
  <1> QED BY <1>1, <1>2 DEF AccountableInv

\* Triage buffers verdicts and statuses that stop at "triaged".
LEMMA AccountableTriage ==
  ASSUME AccountableInv, TypeOK', NEW j \in Jobs,
         \/ \E f \in Findings, a \in Adjudications : TriageFinding(j, f, a)
         \/ \E f \in Findings : TriageSkip(j, f)
         \/ TriageCeiling(j)
  PROVE  AccountableInv'
  <1>1. job[j] \in JobState /\ AccountableJob(job[j])
    BY DEF AccountableInv, TypeOK
  <1>2. ASSUME NEW f \in Findings, NEW a \in Adjudications, TriageFinding(j, f, a)
        PROVE  AccountableInv'
    <2> DEFINE e == [job[j] EXCEPT
                 !.todo = job[j].todo \ {f}, !.pending = {f},
                 !.target = TriagedStatus(a),
                 !.verdict[f] = <<[value |-> a.value, severity |-> a.severity,
                                   basis |-> scanRun[f]]>>]
    <2>1. /\ e.kind = "triage" /\ e.target \in {"triaging", "triaged"}
          /\ e.writes = job[j].writes /\ e.created = job[j].created
      BY <1>1, <1>2 DEF TriageFinding, TriagedStatus, JobState
    <2>2. AccountableJob(e)
      <3> HIDE DEF e
      <3> QED BY <2>1, <1>1 DEF AccountableJob, Backed
    <2>3. job' = [job EXCEPT ![j] = e] /\ UNCHANGED <<status, approvals, tickets>>
      BY <1>2 DEF TriageFinding, dbVars
    <2> HIDE DEF e
    <2> QED BY <2>2, <2>3, AccountableRecord
  <1>3. ASSUME NEW T \in SUBSET job[j].todo
        PROVE  AccountableJob([job[j] EXCEPT !.todo = T])
    BY <1>1 DEF AccountableJob, Backed, JobState
  <1>4. CASE (\E f \in Findings : TriageSkip(j, f)) \/ TriageCeiling(j)
    <2>1. PICK T \in SUBSET job[j].todo : job' = [job EXCEPT ![j] = [job[j] EXCEPT !.todo = T]]
      BY <1>4 DEF TriageSkip, TriageCeiling
    <2>2. UNCHANGED <<status, approvals, tickets>>
      BY <1>4 DEF TriageSkip, TriageCeiling, dbVars
    <2> QED BY <1>3, <2>1, <2>2, AccountableRecord
  <1> QED BY <1>2, <1>4

\* Route buffers "routed" for members of a cluster whose primary has a Ticket
\* row, or gets one from this very job.
LEMMA AccountableRoute ==
  ASSUME AccountableInv, TypeOK', NEW j \in Jobs,
         \/ \E f \in Findings : RouteSkip(j, f) \/ RouteDraft(j, f) \/ RouteFile(j, f)
         \/ \E f \in Findings : \E i \in DOMAIN tickets[f] : RouteReopen(j, f, i)
         \/ MarkStatus(j)
  PROVE  AccountableInv'
  <1>1. job[j] \in JobState /\ AccountableJob(job[j]) /\ TypeOK
    BY DEF AccountableInv, TypeOK
  <1>2. CASE \E f \in Findings : RouteSkip(j, f)
    <2>1. PICK T \in SUBSET job[j].todo : job' = [job EXCEPT ![j] = [job[j] EXCEPT !.todo = T]]
      BY <1>2 DEF RouteSkip
    <2>2. AccountableJob([job[j] EXCEPT !.todo = T])
      BY <1>1 DEF AccountableJob, Backed, JobState
    <2>3. UNCHANGED <<status, approvals, tickets>>
      BY <1>2 DEF RouteSkip, dbVars
    <2> QED BY <2>1, <2>2, <2>3, AccountableRecord
  <1>3. ASSUME NEW f \in Findings, RouteDraft(j, f)
        PROVE  AccountableInv'
    <2> DEFINE e == [job[j] EXCEPT !.todo = job[j].todo \ Cluster(f),
                                   !.drafts = job[j].drafts \cup {f}]
    <2>1. AccountableJob(e)
      BY <1>1 DEF AccountableJob, Backed, JobState
    <2>2. job' = [job EXCEPT ![j] = e] /\ UNCHANGED <<status, approvals, tickets>>
      BY <1>3 DEF RouteDraft, dbVars
    <2> HIDE DEF e
    <2> QED BY <2>1, <2>2, AccountableRecord
  <1>4. ASSUME NEW f \in Findings, NEW g \in Group(j, f)
        PROVE  f \in Cluster(g) /\ g \in Findings
    BY <1>1 DEF Group, Cluster, JobState
  <1>5. ASSUME NEW f \in Findings, RouteFile(j, f)
        PROVE  AccountableInv'
    <2> DEFINE n == filed[f] + 1
               e == [job[j] EXCEPT !.todo = job[j].todo \ Cluster(f),
                                   !.pending = Group(j, f), !.target = "routed",
                                   !.created[f] = n]
    <2>1. n # 0
      BY <1>1 DEF TypeOK
    <2>2. /\ e.kind = "route" /\ e.writes = job[j].writes /\ e.target = "routed"
          /\ e.pending = Group(j, f)
          /\ e.created = [job[j].created EXCEPT ![f] = n]
      BY <1>1, <1>5 DEF RouteFile, RouteReady, JobState
    <2>3. \A g \in Findings : job[j].created[g] # 0 => e.created[g] # 0
      <3> HIDE DEF n, e
      <3> QED BY <1>1, <2>1, <2>2 DEF JobState
    <2>4. e.created[f] # 0
      <3> HIDE DEF n, e
      <3> QED BY <1>1, <2>1, <2>2 DEF JobState
    <2>5. AccountableJob(e)
      <3> HIDE DEF n, e
      <3>1. \A g \in Findings : Backed(job[j], g) => Backed(e, g)
        BY <2>3 DEF Backed, Cluster
      <3>2. \A g \in e.pending : Backed(e, g)
        BY <1>4, <2>2, <2>4 DEF Backed
      <3> QED BY <1>1, <2>2, <3>1, <3>2 DEF AccountableJob
    <2>6. job' = [job EXCEPT ![j] = e] /\ UNCHANGED <<status, approvals, tickets>>
      BY <1>5 DEF RouteFile, dbVars
    <2> HIDE DEF e
    <2> QED BY <2>5, <2>6, AccountableRecord
  <1>6. ASSUME NEW f \in Findings, NEW i \in DOMAIN tickets[f], RouteReopen(j, f, i)
        PROVE  AccountableInv'
    <2> DEFINE e == [job[j] EXCEPT !.todo = job[j].todo \ Cluster(f),
                                   !.pending = Group(j, f), !.target = "routed",
                                   !.ticketWrites[f] = TicketUpdate(f, i, "open")]
    <2>1. /\ e.kind = "route" /\ e.writes = job[j].writes /\ e.target = "routed"
          /\ e.pending = Group(j, f) /\ e.created = job[j].created
      BY <1>1, <1>6 DEF RouteReopen, RouteReady, JobState
    <2>2. tickets[f] # <<>>
      BY <1>6
    <2>3. AccountableJob(e)
      <3> HIDE DEF e
      <3>1. \A g \in e.pending : Backed(e, g)
        BY <1>4, <2>1, <2>2 DEF Backed
      <3> QED BY <1>1, <2>1, <3>1 DEF AccountableJob, Backed
    <2>4. job' = [job EXCEPT ![j] = e] /\ UNCHANGED <<status, approvals, tickets>>
      BY <1>6 DEF RouteReopen, dbVars
    <2> HIDE DEF e
    <2> QED BY <2>3, <2>4, AccountableRecord
  <1>7. CASE MarkStatus(j)
    <2> DEFINE w == [f \in Findings |-> IF f \in job[j].pending THEN job[j].target
                                         ELSE job[j].writes[f]]
               e == [job[j] EXCEPT !.writes = w, !.pending = {}]
    <2>1. /\ e.kind = job[j].kind /\ e.writes = w /\ e.pending = {}
          /\ e.todo = job[j].todo /\ e.target = job[j].target
          /\ e.created = job[j].created
      BY <1>1 DEF JobState
    <2>2. AccountableJob(e)
      <3> HIDE DEF e
      <3> QED BY <1>1, <2>1 DEF AccountableJob, Backed
    <2>3. job' = [job EXCEPT ![j] = e] /\ UNCHANGED <<status, approvals, tickets>>
      BY <1>7 DEF MarkStatus, dbVars
    <2> HIDE DEF e
    <2> QED BY <2>2, <2>3, AccountableRecord
  <1> QED BY <1>2, <1>3, <1>5, <1>6, <1>7

\* A recheck buffers a result only for findings it read as awaiting proof.
LEMMA AccountableRecheck ==
  ASSUME AccountableInv, TypeOK', NEW j \in Jobs,
         \/ \E f \in Findings : RecheckSkip(j, f)
         \/ \E f \in Findings : \E i \in 0..Len(tickets[f]) : RecheckFinding(j, f, i)
  PROVE  AccountableInv'
  <1>1. job[j] \in JobState /\ AccountableJob(job[j])
    BY DEF AccountableInv, TypeOK
  <1>2. CASE \E f \in Findings : RecheckSkip(j, f)
    <2>1. PICK T \in SUBSET job[j].todo : job' = [job EXCEPT ![j] = [job[j] EXCEPT !.todo = T]]
      BY <1>2 DEF RecheckSkip
    <2>2. AccountableJob([job[j] EXCEPT !.todo = T])
      BY <1>1 DEF AccountableJob, Backed, JobState
    <2>3. UNCHANGED <<status, approvals, tickets>>
      BY <1>2 DEF RecheckSkip, dbVars
    <2> QED BY <2>1, <2>2, <2>3, AccountableRecord
  <1>3. ASSUME NEW f \in Findings, NEW i \in 0..Len(tickets[f]), RecheckFinding(j, f, i)
        PROVE  AccountableInv'
    <2> DEFINE result == RecheckResult(f, job[j].scan, job[j].policy)
               w == TicketUpdate(f, i, TicketAfterRecheck(result))
               e == [job[j] EXCEPT !.todo = job[j].todo \ {f},
                                   !.writes[f] = result, !.ticketWrites[f] = w]
    <2>1. result \in {"fixed", "regressed"} /\ f \in job[j].todo /\ job[j].kind = "recheck"
      BY <1>3 DEF RecheckFinding
    <2>2. /\ e.kind = job[j].kind /\ e.writes = [job[j].writes EXCEPT ![f] = result]
          /\ e.pending = job[j].pending /\ e.todo = job[j].todo \ {f}
          /\ e.target = job[j].target /\ e.created = job[j].created
      <3> HIDE DEF result, w
      <3> QED BY <1>1 DEF JobState
    <2>3. tickets[f] # <<>>
      BY <1>1, <2>1 DEF AccountableJob
    <2>4. AccountableJob(e)
      <3> HIDE DEF e, result
      <3>1. \A g \in Findings : e.writes[g] = IF g = f THEN result ELSE job[j].writes[g]
        BY <1>1, <2>2 DEF JobState
      <3> QED BY <1>1, <2>1, <2>2, <2>3, <3>1 DEF AccountableJob, Backed
    <2>5. job' = [job EXCEPT ![j] = e] /\ UNCHANGED <<status, approvals, tickets>>
      BY <1>3 DEF RecheckFinding, dbVars
    <2> HIDE DEF e
    <2> QED BY <2>4, <2>5, AccountableRecord
  <1> QED BY <1>2, <1>3

\* A commit publishes "routed" together with, or after, the cluster's row.
LEMMA AccountableCommit ==
  ASSUME AccountableInv, TypeOK', NEW j \in Jobs, Commit(j), RowsKept
  PROVE  AccountableInv'
  <1> DEFINE d == job[j]
  <1>1. d \in JobState /\ AccountableJob(d) /\ TypeOK
    BY DEF AccountableInv, TypeOK
  <1>2. ASSUME NEW f \in Findings, d.created[f] # 0
        PROVE  tickets'[f] # <<>>
    <2>1. tickets'[f] = AfterTickets(f, d)
      BY DEF Commit
    <2>2. Len(tickets'[f]) = Len(tickets[f]) + 1 /\ Len(tickets[f]) \in Nat
      BY <1>1, <1>2, <2>1, AfterTicketsKeys
    <2>3. tickets'[f] \in Seq(Ticket)
      BY DEF TypeOK
    <2> QED BY <2>2, <2>3, NonEmpty
  <1>3. ASSUME NEW f \in Findings
        PROVE  status'[f] = status[f] \/ status'[f] = d.writes[f]
    BY DEF Commit, AfterWrite
  <1>4. PastTriageIsAccountable'
    <2> SUFFICES ASSUME NEW f \in Findings
                 PROVE /\ status'[f] \in PastTriage =>
                            approvals'[f] # <<>> \/ \E g \in Cluster(f) : tickets'[g] # <<>>
                       /\ status'[f] \in PastTriage \ {"routed"} => tickets'[f] # <<>>
      BY DEF PastTriageIsAccountable, Cluster
    <2>1. CASE status'[f] = status[f]
      BY <2>1 DEF AccountableInv, PastTriageIsAccountable, Cluster, RowsKept
    <2>2. CASE status'[f] = d.writes[f]
      <3>1. ASSUME d.writes[f] = "routed"
            PROVE  \E g \in Cluster(f) : tickets'[g] # <<>>
        <4>1. PICK g \in Cluster(f) : d.created[g] # 0 \/ tickets[g] # <<>>
          BY <1>1, <3>1 DEF AccountableJob, Backed
        <4>2. g \in Findings
          BY DEF Cluster
        <4>3. tickets'[g] # <<>>
          BY <4>1, <4>2, <1>2 DEF RowsKept
        <4> QED BY <4>3
      <3>2. f \in Cluster(f)
        BY DEF Cluster
      <3> QED BY <1>1, <2>2, <3>1, <3>2 DEF AccountableJob, PastTriage, RowsKept
    <2> QED BY <1>3, <2>1, <2>2
  <1>5. ASSUME NEW k \in Jobs
        PROVE  AccountableJob(job[k])'
    <2>1. CASE k # j
      <3>1. job'[k] = job[k]
        BY <1>1, <2>1 DEF Commit, TypeOK
      <3>2. job[k] \in JobState /\ AccountableJob(job[k])
        BY DEF AccountableInv, TypeOK
      <3>3. \A f \in Findings : Backed(job[k], f) => \E g \in Cluster(f) :
                                  job[k].created[g] # 0 \/ tickets'[g] # <<>>
        BY DEF Backed, Cluster, RowsKept
      <3> QED BY <3>1, <3>2, <3>3 DEF AccountableJob, Backed, Cluster, JobState, RowsKept
    <2>2. CASE k = j
      <3>1. job'[k] = Closed
        BY <1>1, <2>2 DEF Commit, TypeOK
      <3>2. NoWrite \notin {"verification_pending", "routed", "fixed", "regressed"}
        BY ParametersAssumption DEF RowStatuses, Statuses
      <3> QED BY <3>1, <3>2 DEF AccountableJob, Closed, Opened
    <2> QED BY <2>1, <2>2
  <1> QED BY <1>4, <1>5 DEF AccountableInv

\* Steps outside a job write one row at a time, after reading its rows.
LEMMA AccountableSingle ==
  ASSUME AccountableInv, TypeOK', UNCHANGED job,
         \/ Environment \/ Operator
         \/ \E s \in DOMAIN scans, S \in SUBSET Findings : Detect(s, S)
         \/ \E O \in SUBSET Findings : Escalate(O),
         RowsKept
  PROVE  AccountableInv'
  <1>1. ASSUME NEW k \in Jobs
        PROVE  AccountableJob(job[k])'
    <2>1. job[k] \in JobState /\ AccountableJob(job[k])
      BY DEF AccountableInv, TypeOK
    <2>2. \A f \in Findings : Backed(job[k], f) => \E g \in Cluster(f) :
                                  job[k].created[g] # 0 \/ tickets'[g] # <<>>
      BY DEF Backed, Cluster, RowsKept
    <2> QED BY <2>1, <2>2 DEF AccountableJob, Backed, Cluster, JobState, RowsKept
  <1>2. ASSUME NEW f \in Findings
        PROVE  \/ status'[f] \notin PastTriage
               \/ status'[f] = status[f]
               \/ status'[f] = "routed" /\ approvals[f] # <<>>
               \/ tickets[f] # <<>>
    <2>1. CASE Environment
      BY <2>1 DEF Environment, RunScan, EditPolicy, dbVars
    <2>2. CASE \E s \in DOMAIN scans, S \in SUBSET Findings : Detect(s, S)
      BY <2>2 DEF Detect, UpsertStatus, PastTriage
    <2>3. CASE \E O \in SUBSET Findings : Escalate(O)
      BY <2>3 DEF Escalate
    <2>4. ASSUME NEW g \in Findings, NEW i \in DOMAIN approvals[g],
                 NEW approve \in BOOLEAN, DecideApproval(g, i, approve)
          PROVE  \/ status'[f] = status[f]
                 \/ status'[f] = "routed" /\ approvals[f] # <<>>
      <3>1. approvals[g] # <<>>
        BY <2>4
      <3>2. status \in [Findings -> RowStatuses]
        BY DEF AccountableInv, TypeOK
      <3>3. status' = [status EXCEPT ![g] = "routed"] \/ status' = status
        BY <2>4 DEF DecideApproval
      <3>4. CASE f = g /\ status' = [status EXCEPT ![g] = "routed"]
        BY <3>1, <3>2, <3>4
      <3>5. CASE f # g \/ status' = status
        BY <3>2, <3>3, <3>5
      <3> QED BY <3>3, <3>4, <3>5
    <2>5. ASSUME NEW g \in Findings, NEW i \in DOMAIN tickets[g], CloseTicket(g, i)
          PROVE  status'[f] = status[f] \/ tickets[f] # <<>>
      <3>1. tickets[g] # <<>>
        BY <2>5
      <3> QED BY <2>5, <3>1 DEF CloseTicket, AccountableInv, TypeOK
    <2>6. CASE \E g \in Findings, o \in ReviewOutcomes : Review(g, o)
      BY <2>6 DEF Review
    <2> QED BY <2>1, <2>2, <2>3, <2>4, <2>5, <2>6 DEF Operator
  <1>3. PastTriageIsAccountable'
    <2> SUFFICES ASSUME NEW f \in Findings
                 PROVE /\ status'[f] \in PastTriage =>
                            approvals'[f] # <<>> \/ \E g \in Cluster(f) : tickets'[g] # <<>>
                       /\ status'[f] \in PastTriage \ {"routed"} => tickets'[f] # <<>>
      BY DEF PastTriageIsAccountable, Cluster
    <2>1. f \in Cluster(f)
      BY DEF Cluster
    <2>2. CASE status'[f] = status[f]
      BY <2>2 DEF AccountableInv, PastTriageIsAccountable, Cluster, RowsKept
    <2> QED BY <1>2, <2>1, <2>2 DEF RowsKept
  <1> QED BY <1>1, <1>3 DEF AccountableInv

LEMMA AccountableBegin ==
  ASSUME AccountableInv, TypeOK', NEW j \in Jobs,
         \/ \E s \in DOMAIN scans :
              BeginTriage(j, s) \/ BeginRoute(j, s) \/ BeginRecheck(j, s)
         \/ Abort(j)
  PROVE  AccountableInv'
  <1>1. /\ UNCHANGED <<status, approvals, tickets>>
        /\ policy \in [Categories -> Policies]
        /\ \A s \in DOMAIN scans : s \in Nat
    <2>1. UNCHANGED <<status, approvals, tickets>>
      BY DEF BeginTriage, BeginRoute, BeginRecheck, Abort, dbVars
    <2>2. policy \in [Categories -> Policies] /\ scans \in Seq(ScanResult)
      BY DEF AccountableInv, TypeOK
    <2> QED BY <2>1, <2>2
  <1>2. CASE Abort(j)
    <2>1. [c \in Categories |-> CHOOSE p \in Policies : TRUE] \in [Categories -> Policies]
      BY ParametersAssumption
    <2>2. AccountableJob(Closed)
      BY <2>1, ClosedAccountable DEF Closed
    <2> QED BY <1>1, <1>2, <2>2, AccountableRecord DEF Abort
  <1>3. ASSUME NEW s \in DOMAIN scans, BeginTriage(j, s)
        PROVE  AccountableInv'
    <2> DEFINE T == {f \in Findings : scanRun[f] = s /\ status[f] = "new"}
    <2>1. AccountableJob(Opened("triage", s, policy, T))
      BY <1>1, ClosedAccountable
    <2>2. job' = [job EXCEPT ![j] = Opened("triage", s, policy, T)]
      BY <1>3 DEF BeginTriage, Fresh
    <2> HIDE DEF T
    <2> QED BY <1>1, <2>1, <2>2, AccountableRecord
  <1>4. ASSUME NEW s \in DOMAIN scans, BeginRoute(j, s)
        PROVE  AccountableInv'
    <2> DEFINE T == {f \in Findings : scanRun[f] = s /\ status[f] = "triaged"}
    <2>1. AccountableJob(Opened("route", s, policy, T))
      BY <1>1, ClosedAccountable
    <2>2. job' = [job EXCEPT ![j] = Opened("route", s, policy, T)]
      BY <1>4 DEF BeginRoute, Fresh
    <2> HIDE DEF T
    <2> QED BY <1>1, <2>1, <2>2, AccountableRecord
  <1>5. ASSUME NEW s \in DOMAIN scans, BeginRecheck(j, s)
        PROVE  AccountableInv'
    <2> DEFINE T == {f \in Findings : status[f] = "verification_pending"}
    <2>1. \A f \in T : tickets[f] # <<>>
      BY DEF AccountableInv, PastTriageIsAccountable, PastTriage
    <2>2. AccountableJob(Opened("recheck", s, policy, T))
      BY <1>1, <2>1, ClosedAccountable
    <2>3. job' = [job EXCEPT ![j] = Opened("recheck", s, policy, T)]
      BY <1>5 DEF BeginRecheck, Fresh
    <2> HIDE DEF T
    <2> QED BY <1>1, <2>2, <2>3, AccountableRecord
  <1> QED BY <1>2, <1>3, <1>4, <1>5

LEMMA AccountableNext == AccountableInv /\ [Next]_vars => AccountableInv'
  <1> SUFFICES ASSUME AccountableInv, [Next]_vars PROVE AccountableInv'
    OBVIOUS
  <1>1. TypeOK /\ TypeOK'
    BY NextType DEF AccountableInv
  <1>2. RowsKept
    BY <1>1, RowsStay DEF RowsKept
  <1>3. CASE UNCHANGED vars
    BY <1>3 DEF vars, dbVars, AccountableInv, TypeOK, PastTriageIsAccountable,
                Cluster, AccountableJob, Backed
  <1>4. CASE Environment \/ Operator
    <2>1. UNCHANGED job
      BY <1>4 DEF Environment, Operator, RunScan, EditPolicy, DecideApproval,
                  CloseTicket, Review
    <2> QED BY <1>1, <1>2, <1>4, <2>1, AccountableSingle
  <1>5. CASE Pipeline
    <2>1. CASE \/ \E s \in DOMAIN scans, S \in SUBSET Findings : Detect(s, S)
               \/ \E O \in SUBSET Findings : Escalate(O)
      <3>1. UNCHANGED job
        BY <2>1 DEF Detect, Escalate
      <3> QED BY <1>1, <1>2, <2>1, <3>1, AccountableSingle
    <2>2. CASE \E j \in Jobs, s \in DOMAIN scans :
                 BeginTriage(j, s) \/ BeginRoute(j, s) \/ BeginRecheck(j, s)
      BY <1>1, <2>2, AccountableBegin
    <2>3. ASSUME NEW j \in Jobs, JobStep(j) PROVE AccountableInv'
      <3>1. CASE Commit(j)
        BY <1>1, <1>2, <3>1, AccountableCommit
      <3>2. CASE Abort(j)
        BY <1>1, <3>2, AccountableBegin
      <3>3. CASE \/ \E f \in Findings, a \in Adjudications : TriageFinding(j, f, a)
                 \/ \E f \in Findings : TriageSkip(j, f)
                 \/ TriageCeiling(j)
        BY <1>1, <3>3, AccountableTriage
      <3>4. CASE \/ \E f \in Findings : RouteSkip(j, f) \/ RouteDraft(j, f) \/ RouteFile(j, f)
                 \/ \E f \in Findings : \E i \in DOMAIN tickets[f] : RouteReopen(j, f, i)
                 \/ MarkStatus(j)
        BY <1>1, <3>4, AccountableRoute
      <3>5. CASE \/ \E f \in Findings : RecheckSkip(j, f)
                 \/ \E f \in Findings : \E i \in 0..Len(tickets[f]) : RecheckFinding(j, f, i)
        BY <1>1, <3>5, AccountableRecheck
      <3> QED BY <2>3, <3>1, <3>2, <3>3, <3>4, <3>5 DEF JobStep
    <2> QED BY <1>5, <2>1, <2>2, <2>3 DEF Pipeline
  <1> QED BY <1>3, <1>4, <1>5 DEF Next

\* For every deployment, however transactions overlap and abort, a finding past
\* triage has an approval draft of its own or a Ticket row in its cluster, and
\* one past routing a Ticket row of its own.
THEOREM PastTriageAlwaysAccountable == Spec => []PastTriageIsAccountable
  <1>1. AccountableInv => PastTriageIsAccountable
    BY DEF AccountableInv
  <1> QED BY AccountableInit, AccountableNext, <1>1, PTL DEF Spec

-----------------------------------------------------------------------------
(* Every Ticket row names a ticket the tracker has *)

\* The keys open transactions hold for rows they have not inserted yet are
\* filed, and collide with no row and no other transaction's.
BufferedKeysFiled ==
  \A f \in Findings, j \in Jobs : job[j].created[f] # 0 =>
    /\ job[j].created[f] \in 1..filed[f]
    /\ \A i \in DOMAIN tickets[f] : tickets[f][i].key # job[j].created[f]
    /\ \A k \in Jobs \ {j} : job[k].created[f] # job[j].created[f]

FiledInv == TypeOK /\ TicketRowsAreFiled /\ BufferedKeysFiled

\* Ticket rows keep their number and keys in this step.
SameKeys ==
  \A f \in Findings :
    /\ DOMAIN tickets'[f] = DOMAIN tickets[f]
    /\ \A i \in DOMAIN tickets[f] : tickets'[f][i].key = tickets[f][i].key

\* Buffered keys are only ever forgotten in this step.
NoNewKeys ==
  \A f \in Findings, j \in Jobs :
    job'[j].created[f] = job[j].created[f] \/ job'[j].created[f] = 0

LEMMA FiledKept ==
  ASSUME FiledInv, TypeOK', UNCHANGED filed, SameKeys, NoNewKeys
  PROVE  FiledInv'
  <1>1. TicketRowsAreFiled'
    BY DEF FiledInv, TicketRowsAreFiled, SameKeys
  <1>2. BufferedKeysFiled'
    <2> SUFFICES ASSUME NEW f \in Findings, NEW j \in Jobs, job'[j].created[f] # 0
                 PROVE  /\ job'[j].created[f] \in 1..filed[f]
                        /\ \A i \in DOMAIN tickets'[f] :
                             tickets'[f][i].key # job'[j].created[f]
                        /\ \A k \in Jobs \ {j} :
                             job'[k].created[f] # job'[j].created[f]
      BY DEF BufferedKeysFiled
    <2>1. job'[j].created[f] = job[j].created[f]
      BY DEF NoNewKeys
    <2> QED BY <2>1 DEF FiledInv, BufferedKeysFiled, SameKeys, NoNewKeys
  <1> QED BY <1>1, <1>2 DEF FiledInv

\* The tracker's new ticket has a key no row and no buffer holds.
LEMMA FiledRouteFile ==
  ASSUME FiledInv, TypeOK', NEW j \in Jobs, NEW f \in Findings, RouteFile(j, f)
  PROVE  FiledInv'
  <1> DEFINE n == filed[f] + 1
  <1>1. filed \in [Findings -> Nat] /\ filed' = [filed EXCEPT ![f] = n]
    BY DEF RouteFile, FiledInv, TypeOK
  <1>2. UNCHANGED tickets
    BY DEF RouteFile, dbVars
  <1>3. job[j] \in JobState /\ job \in [Jobs -> JobState]
    BY DEF FiledInv, TypeOK
  <1>4. \A k \in Jobs, g \in Findings :
          job'[k].created[g] = IF k = j /\ g = f THEN n ELSE job[k].created[g]
    <2> DEFINE e == [job[j] EXCEPT !.todo = job[j].todo \ Cluster(f),
                                   !.pending = Group(j, f), !.target = "routed",
                                   !.created[f] = n]
    <2>1. job' = [job EXCEPT ![j] = e]
      BY DEF RouteFile
    <2>2. e.created = [job[j].created EXCEPT ![f] = n]
      <3> HIDE DEF n
      <3> QED BY <1>3 DEF JobState
    <2> HIDE DEF e, n
    <2> QED BY <1>3, <2>1, <2>2 DEF JobState
  <1>5. \A k \in Jobs : job[k].created[f] \in 0..filed[f]
    BY <1>1, <1>3 DEF FiledInv, BufferedKeysFiled, JobState
  <1>6. \A i \in DOMAIN tickets[f] : tickets[f][i].key \in 1..filed[f]
    BY DEF FiledInv, TicketRowsAreFiled
  <1>7. TicketRowsAreFiled'
    <2> SUFFICES ASSUME NEW g \in Findings
                 PROVE /\ \A i \in DOMAIN tickets[g] : tickets[g][i].key \in 1..filed'[g]
                       /\ \A i, k \in DOMAIN tickets[g] :
                            tickets[g][i].key = tickets[g][k].key => i = k
      BY <1>2 DEF TicketRowsAreFiled
    <2>1. \A m \in 1..filed[g] : m \in 1..filed'[g]
      BY <1>1
    <2> QED BY <2>1 DEF FiledInv, TicketRowsAreFiled
  <1>8. BufferedKeysFiled'
    <2> SUFFICES ASSUME NEW g \in Findings, NEW k \in Jobs, job'[k].created[g] # 0
                 PROVE  /\ job'[k].created[g] \in 1..filed'[g]
                        /\ \A i \in DOMAIN tickets[g] :
                             tickets[g][i].key # job'[k].created[g]
                        /\ \A h \in Jobs \ {k} :
                             job'[h].created[g] # job'[k].created[g]
      BY <1>2 DEF BufferedKeysFiled
    <2>1. CASE g = f /\ k = j
      <3>1. job'[k].created[g] = n /\ n \in 1..filed'[g]
        BY <1>1, <1>4, <2>1
      <3>2. \A i \in DOMAIN tickets[g] : tickets[g][i].key # n
        BY <1>1, <1>6, <2>1
      <3>3. \A h \in Jobs \ {k} : job'[h].created[g] # n
        BY <1>1, <1>4, <1>5, <2>1
      <3> QED BY <3>1, <3>2, <3>3
    <2>2. CASE g = f /\ k # j
      <3>1. job'[k].created[g] = job[k].created[g]
        BY <1>4, <2>2
      <3>2. /\ job[k].created[g] \in 1..filed[g]
            /\ \A i \in DOMAIN tickets[g] : tickets[g][i].key # job[k].created[g]
            /\ \A h \in Jobs \ {k} : job[h].created[g] # job[k].created[g]
        BY <3>1 DEF FiledInv, BufferedKeysFiled
      <3>3. job[k].created[g] \in 1..filed'[g] /\ job[k].created[g] # n
        BY <1>1, <3>2, <2>2
      <3> QED BY <1>4, <3>1, <3>2, <3>3
    <2>3. CASE g # f
      <3>1. \A h \in Jobs : job'[h].created[g] = job[h].created[g]
        BY <1>4, <2>3
      <3>2. filed'[g] = filed[g]
        BY <1>1, <2>3
      <3> QED BY <3>1, <3>2 DEF FiledInv, BufferedKeysFiled
    <2> QED BY <2>1, <2>2, <2>3
  <1> QED BY <1>7, <1>8 DEF FiledInv

\* A commit turns the buffered key of each finding into that of a new row.
LEMMA FiledCommit ==
  ASSUME FiledInv, TypeOK', NEW j \in Jobs, Commit(j)
  PROVE  FiledInv'
  <1> DEFINE d == job[j]
  <1>1. d \in JobState /\ job \in [Jobs -> JobState] /\ TypeOK
    BY DEF FiledInv, TypeOK
  <1>2. UNCHANGED filed
    BY DEF Commit
  <1>3. \A k \in Jobs, f \in Findings :
          job'[k].created[f] = IF k = j THEN 0 ELSE job[k].created[f]
    BY <1>1 DEF Commit, Closed, Opened
  <1>4. ASSUME NEW f \in Findings, NEW i \in DOMAIN tickets'[f]
        PROVE  \/ i \in DOMAIN tickets[f] /\ tickets'[f][i].key = tickets[f][i].key
               \/ /\ i = Len(tickets[f]) + 1 /\ d.created[f] # 0
                  /\ tickets'[f][i].key = d.created[f]
    <2>1. tickets'[f] = AfterTickets(f, d)
      BY DEF Commit
    <2>2. /\ DOMAIN tickets[f] = 1..Len(tickets[f])
          /\ DOMAIN AfterTickets(f, d) = 1..Len(AfterTickets(f, d))
          /\ Len(tickets[f]) \in Nat
          /\ Len(AfterTickets(f, d)) = IF d.created[f] = 0 THEN Len(tickets[f])
                                       ELSE Len(tickets[f]) + 1
          /\ \A n \in DOMAIN tickets[f] :
               AfterTickets(f, d)[n].key = tickets[f][n].key
          /\ d.created[f] # 0 =>
               AfterTickets(f, d)[Len(tickets[f]) + 1].key = d.created[f]
      BY <1>1, AfterTicketsKeys
    <2>3. i \in 1..Len(AfterTickets(f, d))
      BY <2>1, <2>2
    <2>4. i \in 1..Len(tickets[f]) \/ (d.created[f] # 0 /\ i = Len(tickets[f]) + 1)
      BY <2>2, <2>3
    <2> QED BY <2>1, <2>2, <2>4
  <1>5. TicketRowsAreFiled'
    <2> SUFFICES ASSUME NEW f \in Findings
                 PROVE /\ \A i \in DOMAIN tickets'[f] : tickets'[f][i].key \in 1..filed[f]
                       /\ \A i, k \in DOMAIN tickets'[f] :
                            tickets'[f][i].key = tickets'[f][k].key => i = k
      BY <1>2 DEF TicketRowsAreFiled
    <2> QED BY <1>4 DEF FiledInv, TicketRowsAreFiled, BufferedKeysFiled
  <1>6. BufferedKeysFiled'
    <2> SUFFICES ASSUME NEW f \in Findings, NEW k \in Jobs, job'[k].created[f] # 0
                 PROVE  /\ job'[k].created[f] \in 1..filed[f]
                        /\ \A i \in DOMAIN tickets'[f] :
                             tickets'[f][i].key # job'[k].created[f]
                        /\ \A h \in Jobs \ {k} :
                             job'[h].created[f] # job'[k].created[f]
      BY <1>2 DEF BufferedKeysFiled
    <2>1. k # j /\ job'[k].created[f] = job[k].created[f]
      BY <1>3
    <2> QED BY <1>3, <1>4, <2>1 DEF FiledInv, BufferedKeysFiled
  <1> QED BY <1>5, <1>6 DEF FiledInv

\* A job's record keeps its buffered keys in every step but filing.
LEMMA RecordKeepsKeys ==
  ASSUME TypeOK, NEW j \in Jobs, NEW e, job' = [job EXCEPT ![j] = e],
         \/ e.created = job[j].created
         \/ \A f \in Findings : e.created[f] = 0
  PROVE  NoNewKeys
  BY DEF NoNewKeys, TypeOK

LEMMA JobStepKeys ==
  ASSUME TypeOK, NEW j \in Jobs, JobStep(j), ~Commit(j),
         ~ \E f \in Findings : RouteFile(j, f)
  PROVE  NoNewKeys /\ UNCHANGED filed
  <1>1. job[j] \in JobState
    BY DEF TypeOK
  <1>2. ASSUME NEW f \in Findings, NEW a \in Adjudications, TriageFinding(j, f, a)
        PROVE  NoNewKeys /\ UNCHANGED filed
    <2> DEFINE e == [job[j] EXCEPT
                 !.todo = job[j].todo \ {f}, !.pending = {f},
                 !.target = TriagedStatus(a),
                 !.verdict[f] = <<[value |-> a.value, severity |-> a.severity,
                                   basis |-> scanRun[f]]>>]
    <2>1. e.created = job[j].created
      BY <1>1 DEF JobState
    <2>2. job' = [job EXCEPT ![j] = e] /\ UNCHANGED filed
      BY <1>2 DEF TriageFinding
    <2> HIDE DEF e
    <2> QED BY <2>1, <2>2, RecordKeepsKeys
  <1>3. CASE \/ \E f \in Findings :
                  TriageSkip(j, f) \/ RouteSkip(j, f) \/ RecheckSkip(j, f)
             \/ TriageCeiling(j)
    <2>1. \E T \in SUBSET job[j].todo : job' = [job EXCEPT ![j] = [job[j] EXCEPT !.todo = T]]
      <3>1. CASE \E f \in Findings : TriageSkip(j, f) \/ RecheckSkip(j, f)
        BY <3>1 DEF TriageSkip, RecheckSkip
      <3>2. CASE \E f \in Findings : RouteSkip(j, f)
        BY <3>2 DEF RouteSkip
      <3>3. CASE TriageCeiling(j)
        BY <3>3 DEF TriageCeiling
      <3> QED BY <1>3, <3>1, <3>2, <3>3
    <2>2. PICK T \in SUBSET job[j].todo : job' = [job EXCEPT ![j] = [job[j] EXCEPT !.todo = T]]
      BY <2>1
    <2>3. [job[j] EXCEPT !.todo = T].created = job[j].created
      BY <1>1 DEF JobState
    <2>4. UNCHANGED filed
      BY <1>3 DEF TriageSkip, RouteSkip, RecheckSkip, TriageCeiling
    <2> QED BY <2>2, <2>3, <2>4, RecordKeepsKeys
  <1>4. ASSUME NEW f \in Findings, RouteDraft(j, f)
        PROVE  NoNewKeys /\ UNCHANGED filed
    <2> DEFINE e == [job[j] EXCEPT !.todo = job[j].todo \ Cluster(f),
                                   !.drafts = job[j].drafts \cup {f}]
    <2>1. e.created = job[j].created
      BY <1>1 DEF JobState
    <2>2. job' = [job EXCEPT ![j] = e] /\ UNCHANGED filed
      BY <1>4 DEF RouteDraft
    <2> HIDE DEF e
    <2> QED BY <2>1, <2>2, RecordKeepsKeys
  <1>5. ASSUME NEW f \in Findings, NEW i \in DOMAIN tickets[f], RouteReopen(j, f, i)
        PROVE  NoNewKeys /\ UNCHANGED filed
    <2> DEFINE e == [job[j] EXCEPT !.todo = job[j].todo \ Cluster(f),
                                   !.pending = Group(j, f), !.target = "routed",
                                   !.ticketWrites[f] = TicketUpdate(f, i, "open")]
    <2>1. e.created = job[j].created
      BY <1>1 DEF JobState
    <2>2. job' = [job EXCEPT ![j] = e] /\ UNCHANGED filed
      BY <1>5 DEF RouteReopen
    <2> HIDE DEF e
    <2> QED BY <2>1, <2>2, RecordKeepsKeys
  <1>6. CASE MarkStatus(j)
    <2> DEFINE w == [f \in Findings |-> IF f \in job[j].pending THEN job[j].target
                                         ELSE job[j].writes[f]]
               e == [job[j] EXCEPT !.writes = w, !.pending = {}]
    <2>1. e.created = job[j].created
      BY <1>1 DEF JobState
    <2>2. job' = [job EXCEPT ![j] = e] /\ UNCHANGED filed
      BY <1>6 DEF MarkStatus
    <2> HIDE DEF e
    <2> QED BY <2>1, <2>2, RecordKeepsKeys
  <1>7. ASSUME NEW f \in Findings, NEW i \in 0..Len(tickets[f]), RecheckFinding(j, f, i)
        PROVE  NoNewKeys /\ UNCHANGED filed
    <2> DEFINE result == RecheckResult(f, job[j].scan, job[j].policy)
               w == TicketUpdate(f, i, TicketAfterRecheck(result))
               e == [job[j] EXCEPT !.todo = job[j].todo \ {f},
                                   !.writes[f] = result, !.ticketWrites[f] = w]
    <2>1. e.created = job[j].created
      <3> HIDE DEF result, w
      <3> QED BY <1>1 DEF JobState
    <2>2. job' = [job EXCEPT ![j] = e] /\ UNCHANGED filed
      BY <1>7 DEF RecheckFinding
    <2> HIDE DEF e
    <2> QED BY <2>1, <2>2, RecordKeepsKeys
  <1>8. CASE Abort(j)
    <2>1. \A f \in Findings : Closed.created[f] = 0
      BY DEF Closed, Opened
    <2> QED BY <1>8, <2>1, RecordKeepsKeys DEF Abort
  <1> QED BY <1>2, <1>3, <1>4, <1>5, <1>6, <1>7, <1>8 DEF JobStep

LEMMA BeginKeys ==
  ASSUME TypeOK, NEW j \in Jobs, NEW s,
         BeginTriage(j, s) \/ BeginRoute(j, s) \/ BeginRecheck(j, s)
  PROVE  NoNewKeys /\ UNCHANGED <<filed, tickets>>
  <1>1. \A kind, T : \A f \in Findings : Fresh(kind, s, T).created[f] = 0
    BY DEF Fresh, Opened
  <1>2. \E kind, T : job' = [job EXCEPT ![j] = Fresh(kind, s, T)]
    BY DEF BeginTriage, BeginRoute, BeginRecheck
  <1>3. PICK kind, T : job' = [job EXCEPT ![j] = Fresh(kind, s, T)]
    BY <1>2
  <1>4. NoNewKeys
    BY <1>1, <1>3, RecordKeepsKeys
  <1> QED BY <1>4 DEF BeginTriage, BeginRoute, BeginRecheck, dbVars

\* Closing and escalating rewrite the status of a row, never its key.
LEMMA TicketStatusKeys ==
  ASSUME TypeOK,
         \/ \E f \in Findings : \E i \in DOMAIN tickets[f] : CloseTicket(f, i)
         \/ \E O \in SUBSET Findings : Escalate(O)
  PROVE  SameKeys
  <1>1. \A f \in Findings : \A i \in DOMAIN tickets[f] :
          /\ tickets[f][i] \in Ticket
          /\ \A st : [tickets[f][i] EXCEPT !.status = st].key = tickets[f][i].key
    <2> TAKE f \in Findings
    <2>1. tickets[f] \in Seq(Ticket)
      BY DEF TypeOK
    <2> TAKE i \in DOMAIN tickets[f]
    <2>2. tickets[f][i] \in Ticket
      BY <2>1
    <2> QED BY <2>2 DEF Ticket
  <1>2. ASSUME NEW f \in Findings, NEW i \in DOMAIN tickets[f], CloseTicket(f, i)
        PROVE  SameKeys
    <2> DEFINE t == [tickets[f][i] EXCEPT !.status = "pending_verification"]
    <2>1. tickets' = [tickets EXCEPT ![f] = [tickets[f] EXCEPT ![i] = t]]
      BY <1>2 DEF CloseTicket
    <2>2. t.key = tickets[f][i].key
      BY <1>1
    <2>3. tickets \in [Findings -> Seq(Ticket)]
      BY DEF TypeOK
    <2> HIDE DEF t
    <2>4. ASSUME NEW g \in Findings
          PROVE  /\ DOMAIN tickets'[g] = DOMAIN tickets[g]
                 /\ \A k \in DOMAIN tickets[g] : tickets'[g][k].key = tickets[g][k].key
      <3>1. CASE g = f
        <4>1. tickets'[g] = [tickets[g] EXCEPT ![i] = t]
          BY <2>1, <2>3, <3>1
        <4> QED BY <2>2, <3>1, <4>1
      <3>2. CASE g # f
        <4>1. tickets'[g] = tickets[g]
          BY <2>1, <2>3, <3>2
        <4> QED BY <4>1
      <3> QED BY <3>1, <3>2
    <2> QED BY <2>4 DEF SameKeys
  <1>3. ASSUME NEW O \in SUBSET Findings, Escalate(O)
        PROVE  SameKeys
    <2>1. ASSUME NEW g \in Findings
          PROVE  /\ DOMAIN tickets'[g] = DOMAIN tickets[g]
                 /\ \A k \in DOMAIN tickets[g] :
                      tickets'[g][k] \in {tickets[g][k],
                                          [tickets[g][k] EXCEPT !.status = "escalated"]}
      BY <1>3 DEF Escalate
    <2>2. ASSUME NEW g \in Findings, NEW k \in DOMAIN tickets[g]
          PROVE  tickets'[g][k].key = tickets[g][k].key
      <3>1. CASE tickets'[g][k] = tickets[g][k]
        BY <3>1
      <3>2. CASE tickets'[g][k] = [tickets[g][k] EXCEPT !.status = "escalated"]
        BY <1>1, <3>2
      <3> QED BY <2>1, <3>1, <3>2
    <2> QED BY <2>1, <2>2 DEF SameKeys
  <1> QED BY <1>2, <1>3

LEMMA FiledInit == Init => FiledInv
  <1> SUFFICES ASSUME Init PROVE FiledInv OBVIOUS
  <1>1. TypeOK
    BY InitType
  <1>2. TicketRowsAreFiled
    BY DEF Init, TicketRowsAreFiled
  <1>3. BufferedKeysFiled
    BY DEF Init, BufferedKeysFiled, Closed, Opened
  <1> QED BY <1>1, <1>2, <1>3 DEF FiledInv

LEMMA FiledNext == FiledInv /\ [Next]_vars => FiledInv'
  <1> SUFFICES ASSUME FiledInv, [Next]_vars PROVE FiledInv'
    OBVIOUS
  <1>1. TypeOK /\ TypeOK'
    BY NextType DEF FiledInv
  <1>2. UNCHANGED job => NoNewKeys
    BY DEF NoNewKeys
  <1>3. UNCHANGED tickets => SameKeys
    BY DEF SameKeys
  <1>4. CASE UNCHANGED vars
    <2>1. UNCHANGED <<job, tickets, filed>>
      BY <1>4 DEF vars, dbVars
    <2> QED BY <1>1, <1>2, <1>3, <2>1, FiledKept
  <1>5. CASE Environment
    <2>1. UNCHANGED <<job, tickets, filed>>
      BY <1>5 DEF Environment, RunScan, EditPolicy, dbVars
    <2> QED BY <1>1, <1>2, <1>3, <2>1, FiledKept
  <1>6. CASE Operator
    <2>1. UNCHANGED <<job, filed>>
      BY <1>6 DEF Operator, DecideApproval, CloseTicket, Review
    <2>2. SameKeys
      <3>1. CASE \E f \in Findings : \E i \in DOMAIN tickets[f] : CloseTicket(f, i)
        BY <1>1, <3>1, TicketStatusKeys
      <3>2. CASE UNCHANGED tickets
        BY <1>3, <3>2
      <3> QED BY <1>6, <3>1, <3>2 DEF Operator, DecideApproval, Review
    <2> QED BY <1>1, <1>2, <2>1, <2>2, FiledKept
  <1>7. CASE Pipeline
    <2>1. CASE \E s \in DOMAIN scans, S \in SUBSET Findings : Detect(s, S)
      <3>1. UNCHANGED <<job, tickets, filed>>
        BY <2>1 DEF Detect
      <3> QED BY <1>1, <1>2, <1>3, <3>1, FiledKept
    <2>2. CASE \E j \in Jobs, s \in DOMAIN scans :
                 BeginTriage(j, s) \/ BeginRoute(j, s) \/ BeginRecheck(j, s)
      BY <1>1, <1>3, <2>2, BeginKeys, FiledKept
    <2>3. CASE \E O \in SUBSET Findings : Escalate(O)
      <3>1. UNCHANGED <<job, filed>>
        BY <2>3 DEF Escalate
      <3> QED BY <1>1, <1>2, <2>3, <3>1, TicketStatusKeys, FiledKept
    <2>4. ASSUME NEW j \in Jobs, JobStep(j) PROVE FiledInv'
      <3>1. CASE Commit(j)
        BY <1>1, <3>1, FiledCommit
      <3>2. CASE \E f \in Findings : RouteFile(j, f)
        BY <1>1, <3>2, FiledRouteFile
      <3>3. CASE ~Commit(j) /\ ~ \E f \in Findings : RouteFile(j, f)
        <4>1. NoNewKeys /\ UNCHANGED filed
          BY <1>1, <2>4, <3>3, JobStepKeys
        <4>2. UNCHANGED tickets
          BY <2>4, <3>3, JobStepFrame
        <4> QED BY <1>1, <1>3, <4>1, <4>2, FiledKept
      <3> QED BY <3>1, <3>2, <3>3
    <2> QED BY <1>7, <2>1, <2>2, <2>3, <2>4 DEF Pipeline
  <1> QED BY <1>4, <1>5, <1>6, <1>7 DEF Next

\* For every deployment, however route runs overlap and whichever of them roll
\* back after they called the tracker, a Ticket row names a ticket that exists
\* there, and no two rows of a finding name the same one.
THEOREM TicketRowsAlwaysFiled == Spec => []TicketRowsAreFiled
  <1>1. FiledInv => TicketRowsAreFiled
    BY DEF FiledInv
  <1> QED BY FiledInit, FiledNext, <1>1, PTL DEF Spec

-----------------------------------------------------------------------------
(* The tracker hears of true positives only *)

TruePositiveInv == TypeOK /\ TicketsOnlyForTruePositives

\* What is appended to a sequence leaves its elements where they are.
LEMMA ConcatKeeps ==
  ASSUME NEW T, NEW s \in Seq(T), NEW t \in Seq(T), NEW i \in DOMAIN s
  PROVE  i \in DOMAIN (s \o t) /\ (s \o t)[i] = s[i]
  <1>1. /\ Len(s) \in Nat /\ Len(t) \in Nat /\ i \in 1..Len(s)
        /\ s \o t \in Seq(T)
        /\ Len(s \o t) = Len(s) + Len(t)
        /\ (s \o t)[i] = s[i]
    BY LenProperties, ConcatProperties
  <1>2. DOMAIN (s \o t) = 1..Len(s \o t)
    BY <1>1, LenProperties
  <1> QED BY <1>1, <1>2

\* A verdict row once recorded stays where it is: a commit adds behind it.
LEMMA VerdictsKept ==
  ASSUME TypeOK, [Next]_vars, NEW f \in Findings, NEW i \in DOMAIN verdicts[f]
  PROVE  i \in DOMAIN verdicts'[f] /\ verdicts'[f][i] = verdicts[f][i]
  <1>1. CASE UNCHANGED verdicts
    BY <1>1
  <1>2. ASSUME NEW j \in Jobs, Commit(j)
        PROVE  i \in DOMAIN verdicts'[f] /\ verdicts'[f][i] = verdicts[f][i]
    <2>1. /\ verdicts[f] \in Seq(Verdict)
          /\ job[j].verdict[f] \in Seq(Verdict)
      BY DEF TypeOK, JobState
    <2>2. verdicts'[f] = verdicts[f] \o job[j].verdict[f]
      BY <1>2 DEF Commit
    <2>3. \A s, t \in Seq(Verdict) : \A k \in DOMAIN s :
            k \in DOMAIN (s \o t) /\ (s \o t)[k] = s[k]
      BY ConcatKeeps
    <2>4. /\ i \in DOMAIN (verdicts[f] \o job[j].verdict[f])
          /\ (verdicts[f] \o job[j].verdict[f])[i] = verdicts[f][i]
      BY <2>1, <2>3, Zenon
    <2> QED BY <2>2, <2>4, Zenon
  <1>3. UNCHANGED verdicts \/ \E j \in Jobs : Commit(j)
    <2>1. CASE UNCHANGED vars
      BY <2>1 DEF vars, dbVars
    <2>2. CASE Environment
      BY <2>2 DEF Environment, RunScan, EditPolicy, dbVars
    <2>3. CASE Operator
      BY <2>3 DEF Operator, DecideApproval, CloseTicket, Review
    <2>4. CASE Pipeline
      <3>1. CASE \E s \in DOMAIN scans, S \in SUBSET Findings : Detect(s, S)
        BY <3>1 DEF Detect
      <3>2. CASE \E j \in Jobs, s \in DOMAIN scans :
                   BeginTriage(j, s) \/ BeginRoute(j, s) \/ BeginRecheck(j, s)
        BY <3>2 DEF BeginTriage, BeginRoute, BeginRecheck, dbVars
      <3>3. CASE \E O \in SUBSET Findings : Escalate(O)
        BY <3>3 DEF Escalate
      <3>4. ASSUME NEW j \in Jobs, JobStep(j), ~Commit(j)
            PROVE  UNCHANGED verdicts
        BY <3>4, JobStepFrame
      <3> QED BY <2>4, <3>1, <3>2, <3>3, <3>4 DEF Pipeline
    <2> QED BY <2>1, <2>2, <2>3, <2>4 DEF Next
  <1> QED BY <1>1, <1>2, <1>3

\* Only a route run calls the tracker, and it has read the finding's latest
\* verdict before it does.
LEMMA FiledStep ==
  ASSUME TypeOK, [Next]_vars, NEW f \in Findings
  PROVE  filed'[f] = filed[f] \/ LatestTruePositive(f)
  <1>1. CASE UNCHANGED filed
    BY <1>1
  <1>2. ASSUME NEW j \in Jobs, NEW g \in Findings, RouteFile(j, g)
        PROVE  filed'[f] = filed[f] \/ LatestTruePositive(f)
    BY <1>2 DEF RouteFile, TypeOK
  <1>3. UNCHANGED filed \/ \E j \in Jobs : \E g \in Findings : RouteFile(j, g)
    <2>1. CASE UNCHANGED vars
      BY <2>1 DEF vars
    <2>2. CASE Environment \/ Operator
      BY <2>2 DEF Environment, RunScan, EditPolicy, Operator, DecideApproval,
                  CloseTicket, Review
    <2>3. CASE Pipeline
      <3>1. CASE \E s \in DOMAIN scans, S \in SUBSET Findings : Detect(s, S)
        BY <3>1 DEF Detect
      <3>2. CASE \E j \in Jobs, s \in DOMAIN scans :
                   BeginTriage(j, s) \/ BeginRoute(j, s) \/ BeginRecheck(j, s)
        BY <3>2 DEF BeginTriage, BeginRoute, BeginRecheck
      <3>3. CASE \E O \in SUBSET Findings : Escalate(O)
        BY <3>3 DEF Escalate
      <3>4. ASSUME NEW j \in Jobs, JobStep(j), ~ \E g \in Findings : RouteFile(j, g)
            PROVE  UNCHANGED filed
        <4>1. CASE Commit(j)
          BY <4>1 DEF Commit
        <4>2. CASE ~Commit(j)
          BY <3>4, <4>2, JobStepKeys
        <4> QED BY <4>1, <4>2
      <3> QED BY <2>3, <3>1, <3>2, <3>3, <3>4 DEF Pipeline
    <2> QED BY <2>1, <2>2, <2>3 DEF Next
  <1> QED BY <1>1, <1>2, <1>3

LEMMA TruePositiveInit == Init => TruePositiveInv
  <1> SUFFICES ASSUME Init PROVE TruePositiveInv OBVIOUS
  <1>1. TicketsOnlyForTruePositives
    BY DEF Init, TicketsOnlyForTruePositives
  <1> QED BY <1>1, InitType DEF TruePositiveInv

LEMMA TruePositiveNext == TruePositiveInv /\ [Next]_vars => TruePositiveInv'
  <1> SUFFICES ASSUME TruePositiveInv, [Next]_vars PROVE TruePositiveInv'
    OBVIOUS
  <1>1. TypeOK /\ TypeOK'
    BY NextType DEF TruePositiveInv
  <1>2. ASSUME NEW f \in Findings, filed'[f] > 0
        PROVE  \E i \in DOMAIN verdicts'[f] : verdicts'[f][i].value = "true_positive"
    <2>1. \E i \in DOMAIN verdicts[f] : verdicts[f][i].value = "true_positive"
      <3>1. CASE filed'[f] = filed[f]
        BY <1>2, <3>1 DEF TruePositiveInv, TicketsOnlyForTruePositives
      <3>2. CASE LatestTruePositive(f)
        <4>1. verdicts[f] \in Seq(Verdict) /\ verdicts[f] # <<>>
          BY <1>1, <3>2 DEF TypeOK, LatestTruePositive
        <4>2. Len(verdicts[f]) \in DOMAIN verdicts[f]
          BY <4>1, NonEmpty, LenProperties
        <4> QED BY <3>2, <4>2 DEF LatestTruePositive, Latest
      <3> QED BY <1>1, <3>1, <3>2, FiledStep
    <2> QED BY <1>1, <2>1, VerdictsKept
  <1> QED BY <1>1, <1>2 DEF TruePositiveInv, TicketsOnlyForTruePositives

\* For every deployment and every interleaving: the tracker holds no ticket of
\* a finding that no adjudication ever called a true positive, whichever route
\* run filed it and whether or not that run committed.
THEOREM TicketsAreForTruePositives == Spec => []TicketsOnlyForTruePositives
  <1>1. TruePositiveInv => TicketsOnlyForTruePositives
    BY DEF TruePositiveInv
  <1> QED BY TruePositiveInit, TruePositiveNext, <1>1, PTL DEF Spec

-----------------------------------------------------------------------------
(* "fixed" needs a scan that saw the asset and not the finding *)

\* An open transaction reads a scan that exists, and has "fixed" buffered only
\* if it is a recheck against a clean scan of the asset.
EvidenceJob(d) ==
  /\ d.kind # "idle" => d.scan \in DOMAIN scans
  /\ \A f \in Findings :
       d.writes[f] = "fixed" => d.kind = "recheck" /\ CleanIn(d.scan, f)

EvidenceInv == AccountableInv /\ \A j \in Jobs : EvidenceJob(job[j])

\* A transaction has nothing buffered when it opens or when it is over.
LEMMA OpenedEvidence ==
  ASSUME NEW kind, NEW s, NEW p, NEW todo, kind # "idle" => s \in DOMAIN scans
  PROVE  EvidenceJob(Opened(kind, s, p, todo))
  <1>1. NoWrite # "fixed"
    BY ParametersAssumption DEF RowStatuses, Statuses
  <1> QED BY <1>1 DEF EvidenceJob, Opened

\* What a recheck buffers is what its scan shows.
LEMMA RecheckEvidence ==
  ASSUME NEW f, NEW s, NEW p, RecheckResult(f, s, p) = "fixed"
  PROVE  f \notin scans[s].reproducing
  BY DEF RecheckResult

\* A step of a job keeps what its own buffer promises, on the scans as they
\* stand before the step.
LEMMA EvidenceStep ==
  ASSUME EvidenceInv, NEW j \in Jobs, JobStep(j), NEW f \in Findings,
         job'[j].writes[f] = "fixed"
  PROVE  /\ job'[j].kind = job[j].kind /\ job'[j].scan = job[j].scan
         /\ job[j].kind = "recheck" /\ CleanIn(job[j].scan, f)
  <1>1. /\ TypeOK /\ job[j] \in JobState
        /\ AccountableJob(job[j]) /\ EvidenceJob(job[j])
    BY DEF EvidenceInv, AccountableInv, TypeOK
  <1>2. CASE \E g \in Findings, a \in Adjudications : TriageFinding(j, g, a)
    BY <1>1, <1>2, TriageFindingRecord DEF EvidenceJob, SameOrders
  <1>3. CASE \/ \E g \in Findings : \/ TriageSkip(j, g) \/ RouteSkip(j, g)
                                    \/ RouteDraft(j, g) \/ RecheckSkip(j, g)
             \/ TriageCeiling(j)
    BY <1>1, <1>3, SkipRecord DEF EvidenceJob, SameOrders
  <1>4. CASE \E g \in Findings : RouteFile(j, g)
    BY <1>1, <1>4, RouteFileRecord DEF EvidenceJob, SameOrders
  <1>5. CASE \E g \in Findings : \E i \in DOMAIN tickets[g] : RouteReopen(j, g, i)
    BY <1>1, <1>5, RouteReopenRecord DEF EvidenceJob, SameOrders
  <1>6. CASE MarkStatus(j)
    <2>1. job'[j].writes[f] = job[j].writes[f]
      BY <1>1, <1>6, MarkStatusRecord DEF AccountableJob
    <2> QED BY <1>1, <1>6, <2>1, MarkStatusRecord DEF EvidenceJob, SameOrders
  <1>7. ASSUME NEW g \in Findings, NEW i \in 0..Len(tickets[g]), RecheckFinding(j, g, i)
        PROVE  /\ job'[j].kind = job[j].kind /\ job'[j].scan = job[j].scan
               /\ job[j].kind = "recheck" /\ CleanIn(job[j].scan, f)
    <2> DEFINE result == RecheckedAs(j, g)
    <2>1. /\ job'[j].writes = [job[j].writes EXCEPT ![g] = result]
          /\ SameOrders(j)
      BY <1>1, <1>7, RecheckFindingRecord
    <2>2. job[j].kind = "recheck" /\ g \in scans[job[j].scan].seen
      BY <1>7 DEF RecheckFinding
    <2>3. CASE g = f
      <3>1. result = "fixed"
        BY <1>1, <2>1, <2>3 DEF JobState
      <3>2. g \notin scans[job[j].scan].reproducing
        BY <3>1, RecheckEvidence DEF RecheckedAs
      <3> QED BY <1>1, <2>1, <2>2, <2>3, <3>2 DEF EvidenceJob, CleanIn, SameOrders
    <2>4. CASE g # f
      <3>1. job'[j].writes[f] = job[j].writes[f]
        BY <1>1, <2>1, <2>4 DEF JobState
      <3> QED BY <1>1, <2>1, <3>1 DEF EvidenceJob, SameOrders
    <2> QED BY <2>3, <2>4
  <1>8. CASE Commit(j) \/ Abort(j)
    <2>1. job'[j].writes[f] = NoWrite
      BY <1>1, <1>8, CloseRecord
    <2> QED BY <2>1, ParametersAssumption DEF RowStatuses, Statuses
  <1> QED BY <1>2, <1>3, <1>4, <1>5, <1>6, <1>7, <1>8 DEF JobStep

LEMMA EvidenceInit == Init => EvidenceInv
  <1> SUFFICES ASSUME Init PROVE EvidenceInv OBVIOUS
  <1>1. AccountableInv
    BY AccountableInit
  <1>2. EvidenceJob(Closed)
    BY OpenedEvidence DEF Closed
  <1> QED BY <1>1, <1>2 DEF Init, EvidenceInv

LEMMA EvidenceNext == EvidenceInv /\ [Next]_vars => EvidenceInv'
  <1> SUFFICES ASSUME EvidenceInv, [Next]_vars PROVE EvidenceInv'
    OBVIOUS
  <1>1. TypeOK /\ AccountableInv'
    BY AccountableNext DEF EvidenceInv, AccountableInv
  <1>2. ASSUME NEW j \in Jobs
        PROVE  EvidenceJob(job[j])'
    <2>1. CASE job'[j] = job[j]
      <3>1. job'[j].kind # "idle" => job'[j].scan \in DOMAIN scans'
        BY <1>1, <2>1, ScansGrow DEF EvidenceInv, EvidenceJob
      <3>2. ASSUME NEW f \in Findings, job'[j].writes[f] = "fixed"
            PROVE  job'[j].kind = "recheck" /\ CleanIn(job[j].scan, f)'
        <4>1. job[j].kind = "recheck" /\ CleanIn(job[j].scan, f)
          BY <2>1, <3>2 DEF EvidenceInv, EvidenceJob
        <4> QED BY <1>1, <2>1, <4>1, ScansGrow DEF CleanIn
      <3> QED BY <3>1, <3>2 DEF EvidenceJob
    <2>2. CASE JobStep(j)
      <3>1. job'[j].kind # "idle" => job'[j].scan \in DOMAIN scans'
        <4>1. CASE SameOrders(j)
          BY <1>1, <4>1, ScansGrow DEF EvidenceInv, EvidenceJob, SameOrders
        <4>2. CASE job'[j] = Closed
          BY <4>2 DEF Closed, Opened
        <4> QED BY <1>1, <2>2, <4>1, <4>2, JobStepOrders
      <3>2. ASSUME NEW f \in Findings, job'[j].writes[f] = "fixed"
            PROVE  job'[j].kind = "recheck" /\ CleanIn(job[j].scan, f)'
        <4>1. /\ job'[j].kind = "recheck" /\ job'[j].scan = job[j].scan
              /\ CleanIn(job[j].scan, f)
          BY <2>2, <3>2, EvidenceStep
        <4> QED BY <1>1, <4>1, ScansGrow DEF CleanIn
      <3> QED BY <3>1, <3>2 DEF EvidenceJob
    <2>3. ASSUME NEW s \in DOMAIN scans,
                 BeginTriage(j, s) \/ BeginRoute(j, s) \/ BeginRecheck(j, s)
          PROVE  EvidenceJob(job[j])'
      <3>1. PICK kind \in {"triage", "route", "recheck"}, T \in SUBSET Findings :
              job'[j] = Opened(kind, s, policy, T)
        BY <1>1, <2>3, BeginRecord
      <3>2. UNCHANGED scans
        BY <2>3 DEF BeginTriage, BeginRoute, BeginRecheck
      <3>3. EvidenceJob(Opened(kind, s, policy, T))
        BY OpenedEvidence
      <3> QED BY <3>1, <3>2, <3>3 DEF EvidenceJob, CleanIn
    <2> QED BY <1>1, <2>1, <2>2, <2>3, JobEvolves
  <1> QED BY <1>1, <1>2 DEF EvidenceInv

\* Only a commit that publishes it makes a finding "fixed".
LEMMA FixedStep ==
  ASSUME TypeOK, [Next]_vars, NEW f \in Findings,
         status'[f] = "fixed", status[f] # "fixed"
  PROVE  \E j \in Jobs : job[j].writes[f] = "fixed"
  <1>1. CASE UNCHANGED status
    BY <1>1
  <1>2. CASE Operator
    <2>1. CASE \E g \in Findings : \E i \in DOMAIN approvals[g] :
                 \E approve \in BOOLEAN : DecideApproval(g, i, approve)
      BY <2>1 DEF DecideApproval, TypeOK
    <2>2. CASE \E g \in Findings : \E i \in DOMAIN tickets[g] : CloseTicket(g, i)
      BY <2>2 DEF CloseTicket, TypeOK
    <2>3. CASE \E g \in Findings, o \in ReviewOutcomes : Review(g, o)
      BY <2>3 DEF Review
    <2> QED BY <1>2, <2>1, <2>2, <2>3 DEF Operator
  <1>3. CASE Pipeline
    <2>1. CASE \E s \in DOMAIN scans, S \in SUBSET Findings : Detect(s, S)
      BY <2>1 DEF Detect, UpsertStatus
    <2>2. CASE \E j \in Jobs, s \in DOMAIN scans :
                 BeginTriage(j, s) \/ BeginRoute(j, s) \/ BeginRecheck(j, s)
      BY <2>2 DEF BeginTriage, BeginRoute, BeginRecheck, dbVars
    <2>3. CASE \E O \in SUBSET Findings : Escalate(O)
      BY <2>3 DEF Escalate
    <2>4. ASSUME NEW j \in Jobs, JobStep(j)
          PROVE  job[j].writes[f] = "fixed"
      <3>1. Commit(j)
        BY <2>4, JobStepFrame
      <3> QED BY <3>1 DEF Commit, AfterWrite
    <2> QED BY <1>3, <2>1, <2>2, <2>3, <2>4 DEF Pipeline
  <1>4. CASE Environment \/ UNCHANGED vars
    BY <1>4 DEF Environment, RunScan, EditPolicy, vars, dbVars
  <1> QED BY <1>2, <1>3, <1>4 DEF Next

\* However commands overlap: a finding becomes "fixed" only by the commit of a
\* recheck whose scan saw the asset and which did not reproduce the finding on
\* that scan's evidence, whatever detection reports of the same scan, even if
\* another transaction moved the finding after the recheck read it.
THEOREM FixedIsEvidenced == Spec => FixedOnlyOnCleanEvidence
  <1>1. EvidenceInv /\ [Next]_vars =>
          [\A f \in Findings : status'[f] = "fixed" /\ status[f] # "fixed" =>
             \E j \in Jobs :
               /\ job[j].kind = "recheck"
               /\ f \in scans[job[j].scan].seen \ scans[job[j].scan].reproducing]_vars
    <2> SUFFICES ASSUME EvidenceInv, [Next]_vars, NEW f \in Findings,
                        status'[f] = "fixed", status[f] # "fixed"
                 PROVE  \E j \in Jobs :
                          /\ job[j].kind = "recheck"
                          /\ f \in scans[job[j].scan].seen \ scans[job[j].scan].reproducing
      OBVIOUS
    <2>1. TypeOK
      BY DEF EvidenceInv, AccountableInv
    <2>2. PICK j \in Jobs : job[j].writes[f] = "fixed"
      BY <2>1, FixedStep
    <2> QED BY <2>2 DEF EvidenceInv, EvidenceJob, CleanIn
  <1> QED BY EvidenceInit, EvidenceNext, <1>1, PTL DEF Spec, FixedOnlyOnCleanEvidence


-----------------------------------------------------------------------------
(* The autonomy level is what lets a finding's first ticket through *)

\* A transaction that has "routed" buffered, or waits to buffer it, is a route run
\* whose org-context lets the finding's category file without a human.
Lets(d, f) == d.kind = "route" /\ d.policy[CategoryOf[f]].level \in {2, 3}
GateJob(d) ==
  /\ d.target = "routed" => \A f \in d.pending : Lets(d, f)
  /\ \A f \in Findings : d.writes[f] = "routed" => Lets(d, f)

GateInv == AccountableInv /\ \A j \in Jobs : GateJob(job[j])

LEMMA OpenedGate ==
  ASSUME NEW kind, NEW s, NEW p, NEW todo
  PROVE  GateJob(Opened(kind, s, p, todo))
  <1>1. NoWrite # "routed"
    BY ParametersAssumption DEF RowStatuses, Statuses
  <1> QED BY <1>1 DEF GateJob, Opened

\* The primary of a group speaks for its cluster, and a cluster has one category.
LEMMA GroupLets ==
  ASSUME TypeOK, NEW j \in Jobs, NEW p \in Findings, job[j].kind = "route",
         LatestTruePositive(p), RouteAction(j, p) = "auto_file", NEW f \in Group(j, p)
  PROVE  Lets(job[j], f)
  <1>1. job[j] \in JobState
    BY DEF TypeOK
  <1>2. f \in Findings /\ p \in Cluster(f)
    BY <1>1 DEF Group, Cluster, JobState
  <1>3. FiledFor(job[j], p)
    BY DEF FiledFor, RouteAction
  <1> QED BY <1>1, <1>2, <1>3, LevelOfFiled DEF Lets

LEMMA GateStep ==
  ASSUME GateInv, NEW j \in Jobs, JobStep(j)
  PROVE  GateJob(job'[j])
  <1> DEFINE d == job[j]
             e == job'[j]
  <1>1. TypeOK /\ d \in JobState /\ GateJob(d)
    BY DEF GateInv, AccountableInv, TypeOK
  <1>2. CASE \E g \in Findings, a \in Adjudications : TriageFinding(j, g, a)
    <2>1. /\ SameOrders(j) /\ e.writes = d.writes
          /\ \E a \in Adjudications : e.target = TriagedStatus(a)
      BY <1>1, <1>2, TriageFindingRecord
    <2>2. e.target # "routed"
      BY <2>1 DEF TriagedStatus
    <2> HIDE DEF d, e
    <2>3. e.kind = d.kind /\ e.policy = d.policy
      BY <2>1 DEF SameOrders, d, e
    <2> QED BY <1>1, <2>1, <2>2, <2>3 DEF GateJob, Lets, e
  <1>3. CASE \/ \E g \in Findings : \/ TriageSkip(j, g) \/ RouteSkip(j, g)
                                    \/ RouteDraft(j, g) \/ RecheckSkip(j, g)
             \/ TriageCeiling(j)
    BY <1>1, <1>3, SkipRecord DEF GateJob, Lets, SameOrders
  <1>4. ASSUME NEW g \in Findings, LatestTruePositive(g), RouteAction(j, g) = "auto_file",
               d.kind = "route", SameOrders(j), e.writes = d.writes, e.pending = Group(j, g)
        PROVE  GateJob(e)
    <2>1. \A f \in e.pending : Lets(d, f)
      BY <1>1, <1>4, GroupLets
    <2>2. e.kind = d.kind /\ e.policy = d.policy
      BY <1>4 DEF SameOrders
    <2> HIDE DEF d, e
    <2> QED BY <1>1, <1>4, <2>1, <2>2 DEF GateJob, Lets
  <1>5. CASE \E g \in Findings : RouteFile(j, g)
    <2>1. PICK g \in Findings : RouteFile(j, g)
      BY <1>5
    <2>2. LatestTruePositive(g) /\ RouteAction(j, g) = "auto_file" /\ d.kind = "route"
      BY <2>1 DEF RouteFile, RouteReady
    <2> QED BY <1>1, <1>4, <2>1, <2>2, RouteFileRecord
  <1>6. CASE \E g \in Findings : \E i \in DOMAIN tickets[g] : RouteReopen(j, g, i)
    <2>1. PICK g \in Findings : \E i \in DOMAIN tickets[g] : RouteReopen(j, g, i)
      BY <1>6
    <2>2. LatestTruePositive(g) /\ RouteAction(j, g) = "auto_file" /\ d.kind = "route"
      BY <2>1 DEF RouteReopen, RouteReady
    <2> QED BY <1>1, <1>4, <2>1, <2>2, RouteReopenRecord
  <1>7. CASE MarkStatus(j)
    <2>1. /\ SameOrders(j) /\ e.pending = {}
          /\ \A f \in Findings : e.writes[f] = IF f \in d.pending THEN d.target ELSE d.writes[f]
      BY <1>1, <1>7, MarkStatusRecord
    <2>2. e.kind = d.kind /\ e.policy = d.policy
      BY <2>1 DEF SameOrders
    <2> HIDE DEF d, e
    <2>3. GateJob(e)
      BY <1>1, <2>1, <2>2 DEF GateJob, Lets
    <2> QED BY <2>3 DEF e
  <1>8. ASSUME NEW g \in Findings, NEW i \in 0..Len(tickets[g]), RecheckFinding(j, g, i)
        PROVE  GateJob(e)
    <2> DEFINE result == RecheckedAs(j, g)
    <2>1. /\ SameOrders(j) /\ e.pending = d.pending /\ e.target = d.target
          /\ e.writes = [d.writes EXCEPT ![g] = result]
      BY <1>1, <1>8, RecheckFindingRecord
    <2>2. result # "routed"
      BY DEF RecheckedAs, RecheckResult
    <2>3. e.kind = d.kind /\ e.policy = d.policy
      BY <2>1 DEF SameOrders
    <2>4. \A f \in Findings : e.writes[f] = "routed" => d.writes[f] = "routed"
      BY <1>1, <2>1, <2>2 DEF JobState
    <2> HIDE DEF d, e
    <2> QED BY <1>1, <2>1, <2>3, <2>4 DEF GateJob, Lets
  <1>9. CASE Commit(j) \/ Abort(j)
    <2>1. e = Closed
      BY <1>1, <1>9, CloseRecord
    <2> QED BY <2>1, OpenedGate DEF Closed
  <1> QED BY <1>2, <1>3, <1>5, <1>6, <1>7, <1>8, <1>9 DEF JobStep

LEMMA GateNext == GateInv /\ [Next]_vars => GateInv'
  <1> SUFFICES ASSUME GateInv, [Next]_vars PROVE GateInv'
    OBVIOUS
  <1>1. TypeOK /\ AccountableInv'
    BY AccountableNext DEF GateInv, AccountableInv
  <1>2. ASSUME NEW j \in Jobs
        PROVE  GateJob(job'[j])
    <2>1. CASE job'[j] = job[j]
      BY <2>1 DEF GateInv
    <2>2. CASE JobStep(j)
      BY <2>2, GateStep
    <2>3. ASSUME NEW s \in DOMAIN scans,
                 BeginTriage(j, s) \/ BeginRoute(j, s) \/ BeginRecheck(j, s)
          PROVE  GateJob(job'[j])
      BY <1>1, <2>3, BeginRecord, OpenedGate
    <2> QED BY <1>1, <2>1, <2>2, <2>3, JobEvolves
  <1> QED BY <1>1, <1>2 DEF GateInv, GateJob, Lets

\* A finding without a Ticket row gets past triage by an approval or by a commit
\* that has "routed" buffered: a close needs a row, and a recheck works on findings
\* that have one.
LEMMA EntersFirst ==
  ASSUME AccountableInv, [Next]_vars, NEW f \in Findings, Enters(f), tickets[f] = <<>>,
         ~ApprovedNext(f)
  PROVE  \E j \in Jobs : job[j].writes[f] = "routed"
  <1>1. TypeOK /\ status'[f] # status[f] /\ status'[f] \in PastTriage
    BY DEF AccountableInv, Enters
  <1>2. CASE Operator
    <2>1. ASSUME NEW g \in Findings, NEW i \in DOMAIN approvals[g], NEW approve \in BOOLEAN,
                 DecideApproval(g, i, approve)
          PROVE  FALSE
      <3>1. g = f /\ approve
        BY <1>1, <2>1 DEF DecideApproval, TypeOK
      <3>2. i \in DOMAIN approvals'[f] /\ approvals'[f][i] = "approved"
        BY <1>1, <2>1, <3>1 DEF DecideApproval, TypeOK
      <3> QED BY <3>2 DEF ApprovedNext
    <2>2. ASSUME NEW g \in Findings, NEW i \in DOMAIN tickets[g], CloseTicket(g, i)
          PROVE  FALSE
      <3>1. g # f
        OBVIOUS
      <3> QED BY <1>1, <2>2, <3>1 DEF CloseTicket, TypeOK
    <2>3. CASE \E g \in Findings, o \in ReviewOutcomes : Review(g, o)
      BY <1>1, <2>3 DEF Review
    <2> QED BY <1>2, <2>1, <2>2, <2>3 DEF Operator
  <1>3. CASE Pipeline
    <2>1. CASE \E s \in DOMAIN scans, S \in SUBSET Findings : Detect(s, S)
      BY <1>1, <2>1 DEF Detect, UpsertStatus, PastTriage
    <2>2. CASE \E j \in Jobs, s \in DOMAIN scans :
                 BeginTriage(j, s) \/ BeginRoute(j, s) \/ BeginRecheck(j, s)
      BY <1>1, <2>2 DEF BeginTriage, BeginRoute, BeginRecheck, dbVars
    <2>3. CASE \E O \in SUBSET Findings : Escalate(O)
      BY <1>1, <2>3 DEF Escalate
    <2>4. ASSUME NEW j \in Jobs, JobStep(j)
          PROVE  job[j].writes[f] = "routed"
      <3>1. Commit(j)
        BY <1>1, <2>4, JobStepFrame
      <3>2. status'[f] = job[j].writes[f]
        BY <1>1, <3>1 DEF Commit, AfterWrite
      <3>3. AccountableJob(job[j])
        BY DEF AccountableInv
      <3> QED BY <1>1, <3>2, <3>3 DEF AccountableJob, PastTriage
    <2> QED BY <1>3, <2>1, <2>2, <2>3, <2>4 DEF Pipeline
  <1>4. CASE Environment \/ UNCHANGED vars
    BY <1>1, <1>4 DEF Environment, RunScan, EditPolicy, vars, dbVars
  <1> QED BY <1>2, <1>3, <1>4 DEF Next

\* However commands overlap and abort, and whatever the level was edited to meanwhile:
\* a finding without a Ticket row leaves triage only by an approval of its own or by a
\* route run that read level 2 or 3.
THEOREM FirstRouteIsGated == Spec => FirstRouteGated
  <1>1. Init => GateInv
    <2>1. GateJob(Closed)
      BY OpenedGate DEF Closed
    <2> QED BY <2>1, AccountableInit DEF Init, GateInv
  <1>2. GateInv /\ [Next]_vars =>
          [\A f \in Findings :
             Enters(f) /\ tickets[f] = <<>> => ApprovedNext(f) \/ RoutedAt(f, {2, 3})]_vars
    <2> SUFFICES ASSUME GateInv, [Next]_vars, NEW f \in Findings, Enters(f),
                        tickets[f] = <<>>, ~ApprovedNext(f)
                 PROVE  RoutedAt(f, {2, 3})
      OBVIOUS
    <2>1. PICK j \in Jobs : job[j].writes[f] = "routed"
      BY EntersFirst DEF GateInv
    <2>2. Lets(job[j], f)
      BY <2>1 DEF GateInv, GateJob
    <2> QED BY <2>1, <2>2 DEF RoutedAt, Lets
  <1> QED BY <1>1, <1>2, GateNext, PTL DEF Spec, FirstRouteGated

==================================================================================
