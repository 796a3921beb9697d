------------------------ MODULE FindingLifecycleProofs ------------------------
(***************************************************************************)
(* Theorems about FindingLifecycle for every set of findings, categories   *)
(* and jobs, every clustering, every policy and every bound: types; then,  *)
(* for commands run one at a time, that the ticket of a finding tells its  *)
(* state, that the commands implement ClosureContract, and what the        *)
(* autonomy level lets through.                                            *)
(***************************************************************************)
EXTENDS FindingLifecycle, FiniteSetTheorems, SequenceTheorems, TLAPS

-----------------------------------------------------------------------------
(* Types *)

\* A transaction opened on a work list of findings is well typed.
LEMMA OpenedType ==
  ASSUME NEW kind \in {"idle", "triage", "route", "recheck"}, NEW s \in Nat,
         NEW p \in [Categories -> Policies], NEW todo \in SUBSET Findings
  PROVE  Opened(kind, s, p, todo) \in JobState
  BY DEF Opened, JobState, Statuses

\* So is the record that stands for no transaction.
LEMMA ClosedType == Closed \in JobState
  <1>1. (CHOOSE p \in Policies : TRUE) \in Policies
    BY ParametersAssumption
  <1>2. [c \in Categories |-> CHOOSE p \in Policies : TRUE] \in [Categories -> Policies]
    BY <1>1
  <1> QED BY <1>2, OpenedType DEF Closed

\* The rank given to a new row is a natural number.
LEMMA RankType == Cardinality(Recorded) \in Nat
  BY FiniteAssumption, FS_Subset, FS_CardinalityType DEF Recorded

LEMMA InitType == Init => TypeOK
  <1> SUFFICES ASSUME Init PROVE TypeOK OBVIOUS
  <1>1. job \in [Jobs -> JobState]
    BY ClosedType DEF Init
  <1> QED BY <1>1 DEF Init, TypeOK, RowStatuses, ScanResult

\* Replacing one job's record by a well-typed one keeps the type of job.
LEMMA JobUpdateType ==
  ASSUME job \in [Jobs -> JobState], NEW j \in Jobs, NEW d \in JobState,
         job' = [job EXCEPT ![j] = d]
  PROVE  job' \in [Jobs -> JobState]
  OBVIOUS

\* A step that only gives a job a new, well-typed record keeps every type.
LEMMA JobRecordType ==
  ASSUME TypeOK, NEW j \in Jobs, NEW d \in JobState,
         job' = [job EXCEPT ![j] = d],
         UNCHANGED <<scans, dbVars, filed, policy, edits, closedAt>>
  PROVE  TypeOK'
  <1>1. job' \in [Jobs -> JobState]
    BY JobUpdateType DEF TypeOK
  <1> QED BY <1>1 DEF TypeOK, dbVars

LEMMA TriageFindingType ==
  ASSUME TypeOK, NEW j \in Jobs, NEW f \in Findings, NEW a \in Adjudications,
         TriageFinding(j, f, a)
  PROVE  TypeOK'
  <1> DEFINE d == job[j]
             v == [value |-> a.value, severity |-> a.severity, basis |-> scanRun[f]]
             e == [d EXCEPT !.todo = d.todo \ {f}, !.pending = {f},
                            !.target = TriagedStatus(a), !.verdict[f] = <<v>>]
  <1>1. d \in JobState
    BY DEF TypeOK
  <1>2. v \in Verdict
    BY ParametersAssumption DEF TypeOK, Verdict, Adjudication
  <1>3. TriagedStatus(a) \in Statuses
    BY DEF TriagedStatus, Statuses
  <1>4. <<v>> \in Seq(Verdict)
    BY <1>2
  <1>5. e \in JobState
    <2> HIDE DEF v
    <2> QED BY <1>1, <1>3, <1>4 DEF JobState
  <1>6. job' = [job EXCEPT ![j] = e] /\ UNCHANGED <<scans, dbVars, filed, policy, edits, closedAt>>
    BY DEF TriageFinding
  <1> HIDE DEF e
  <1> QED BY <1>5, <1>6, JobRecordType

\* Passing over a finding, a group, or the rest of the work list.
LEMMA SkipType ==
  ASSUME TypeOK, NEW j \in Jobs,
         \/ \E f \in Findings :
              TriageSkip(j, f) \/ RouteSkip(j, f) \/ RecheckSkip(j, f)
         \/ TriageCeiling(j)
  PROVE  TypeOK'
  <1> DEFINE d == job[j]
  <1>1. d \in JobState
    BY DEF TypeOK
  <1>2. \E T \in SUBSET Findings : job' = [job EXCEPT ![j] = [d EXCEPT !.todo = T]]
    <2>1. d.todo \in SUBSET Findings
      BY <1>1 DEF JobState
    <2>2. CASE \E f \in Findings : TriageSkip(j, f) \/ RecheckSkip(j, f)
      BY <2>1, <2>2 DEF TriageSkip, RecheckSkip
    <2>3. CASE \E f \in Findings : RouteSkip(j, f)
      BY <2>1, <2>3 DEF RouteSkip
    <2>4. CASE TriageCeiling(j)
      BY <2>1, <2>4 DEF TriageCeiling
    <2> QED BY <2>2, <2>3, <2>4
  <1>3. PICK T \in SUBSET Findings : job' = [job EXCEPT ![j] = [d EXCEPT !.todo = T]]
    BY <1>2
  <1>4. [d EXCEPT !.todo = T] \in JobState
    BY <1>1 DEF JobState
  <1>5. UNCHANGED <<scans, dbVars, filed, policy, edits, closedAt>>
    BY DEF TriageSkip, RouteSkip, RecheckSkip, TriageCeiling
  <1> QED BY <1>3, <1>4, <1>5, JobRecordType

LEMMA RouteDraftType ==
  ASSUME TypeOK, NEW j \in Jobs, NEW f \in Findings, RouteDraft(j, f)
  PROVE  TypeOK'
  <1> DEFINE d == job[j]
             e == [d EXCEPT !.todo = d.todo \ Cluster(f), !.drafts = d.drafts \cup {f}]
  <1>1. d \in JobState
    BY DEF TypeOK
  <1>2. e \in JobState
    BY <1>1 DEF JobState
  <1>3. job' = [job EXCEPT ![j] = e] /\ UNCHANGED <<scans, dbVars, filed, policy, edits, closedAt>>
    BY DEF RouteDraft
  <1> HIDE DEF e
  <1> QED BY <1>2, <1>3, JobRecordType

LEMMA RouteReopenType ==
  ASSUME TypeOK, NEW j \in Jobs, NEW f \in Findings, NEW i \in DOMAIN tickets[f],
         RouteReopen(j, f, i)
  PROVE  TypeOK'
  <1> DEFINE d == job[j]
             w == TicketUpdate(f, i, "open")
             e == [d EXCEPT !.todo = d.todo \ Cluster(f), !.pending = Group(j, f),
                            !.target = "routed", !.ticketWrites[f] = w]
  <1>1. d \in JobState /\ i \in Nat
    BY DEF TypeOK
  <1>2. w \in TicketWrite \cup {NoWrite}
    BY <1>1 DEF TicketUpdate, TicketWrite, TicketStatuses
  <1>3. Group(j, f) \in SUBSET Findings
    BY <1>1 DEF Group, JobState
  <1>4. e \in JobState
    <2> HIDE DEF w
    <2> QED BY <1>1, <1>2, <1>3 DEF JobState, Statuses
  <1>5. job' = [job EXCEPT ![j] = e] /\ UNCHANGED <<scans, dbVars, filed, policy, edits, closedAt>>
    BY DEF RouteReopen
  <1> HIDE DEF e
  <1> QED BY <1>4, <1>5, JobRecordType

LEMMA MarkStatusType ==
  ASSUME TypeOK, NEW j \in Jobs, MarkStatus(j)
  PROVE  TypeOK'
  <1> DEFINE d == job[j]
             w == [g \in Findings |-> IF g \in d.pending THEN d.target ELSE d.writes[g]]
             e == [d EXCEPT !.writes = w, !.pending = {}]
  <1>1. d \in JobState
    BY DEF TypeOK
  <1>2. w \in [Findings -> Statuses \cup {NoWrite}]
    BY <1>1 DEF JobState
  <1>3. e \in JobState
    <2> HIDE DEF w
    <2> QED BY <1>1, <1>2 DEF JobState
  <1>4. job' = [job EXCEPT ![j] = e] /\ UNCHANGED <<scans, dbVars, filed, policy, edits, closedAt>>
    BY DEF MarkStatus
  <1> HIDE DEF e
  <1> QED BY <1>3, <1>4, JobRecordType

LEMMA RecheckFindingType ==
  ASSUME TypeOK, NEW j \in Jobs, NEW f \in Findings, NEW i \in 0..Len(tickets[f]),
         RecheckFinding(j, f, i)
  PROVE  TypeOK'
  <1> DEFINE d == job[j]
             result == RecheckResult(f, d.scan, d.policy)
             w == TicketUpdate(f, i, TicketAfterRecheck(result))
             e == [d EXCEPT !.todo = d.todo \ {f}, !.writes[f] = result,
                            !.ticketWrites[f] = w]
  <1>1. d \in JobState /\ i \in Nat
    BY DEF TypeOK
  <1>2. result \in Statuses
    BY DEF RecheckFinding, Statuses
  <1>3. w \in TicketWrite \cup {NoWrite}
    BY <1>1 DEF TicketUpdate, TicketWrite, TicketStatuses, TicketAfterRecheck
  <1>4. e \in JobState
    <2> HIDE DEF w, result
    <2> QED BY <1>1, <1>2, <1>3 DEF JobState
  <1>5. job' = [job EXCEPT ![j] = e] /\ UNCHANGED <<scans, dbVars, filed, policy, edits, closedAt>>
    BY DEF RecheckFinding
  <1> HIDE DEF e
  <1> QED BY <1>4, <1>5, JobRecordType

LEMMA RouteFileType ==
  ASSUME TypeOK, NEW j \in Jobs, NEW f \in Findings, RouteFile(j, f)
  PROVE  TypeOK'
  <1> DEFINE d == job[j]
             n == filed[f] + 1
             e == [d EXCEPT !.todo = d.todo \ Cluster(f), !.pending = Group(j, f),
                            !.target = "routed", !.created[f] = n]
  <1>1. d \in JobState /\ job \in [Jobs -> JobState]
    BY DEF TypeOK
  <1>2. n \in Nat /\ filed' \in [Findings -> Nat]
    BY DEF RouteFile, TypeOK
  <1>3. Group(j, f) \in SUBSET Findings
    BY <1>1 DEF Group, JobState
  <1>4. e \in JobState
    <2> HIDE DEF n
    <2> QED BY <1>1, <1>2, <1>3 DEF JobState, Statuses
  <1>5. job' = [job EXCEPT ![j] = e]
    BY DEF RouteFile
  <1>6. job' \in [Jobs -> JobState]
    <2> HIDE DEF e
    <2> QED BY <1>1, <1>4, <1>5, JobUpdateType
  <1> QED BY <1>2, <1>6 DEF RouteFile, TypeOK, dbVars

\* The Ticket rows after a commit are Ticket rows.
LEMMA AfterTicketsType ==
  ASSUME TypeOK, NEW f \in Findings, NEW d \in JobState
  PROVE  AfterTickets(f, d) \in Seq(Ticket)
  <1> DEFINE updated == [i \in DOMAIN tickets[f] |->
        IF d.ticketWrites[f] # NoWrite /\ d.ticketWrites[f].index = i
          THEN [tickets[f][i] EXCEPT !.status = d.ticketWrites[f].status]
          ELSE tickets[f][i]]
  <1>1. tickets[f] \in Seq(Ticket)
    BY DEF TypeOK
  <1>2. PICK n \in Nat : DOMAIN tickets[f] = 1..n
    BY <1>1, LenProperties
  <1>3. ASSUME NEW i \in DOMAIN tickets[f]
        PROVE  updated[i] \in Ticket
    <2>1. tickets[f][i] \in Ticket
      BY <1>1, <1>3
    <2>2. d.ticketWrites[f] # NoWrite => d.ticketWrites[f].status \in TicketStatuses
      BY DEF JobState, TicketWrite
    <2> QED BY <2>1, <2>2, <1>3 DEF Ticket
  <1>4. updated = [i \in 1..n |-> updated[i]]
    BY <1>2
  <1>5. updated \in Seq(Ticket)
    <2> HIDE DEF updated
    <2>1. updated \in [1..n -> Ticket]
      BY <1>2, <1>3, <1>4
    <2> QED BY <2>1, SeqDef
  <1>6. d.created[f] \in Nat
    BY DEF JobState
  <1>7. [key |-> d.created[f], status |-> "open"] \in Ticket
    BY <1>6 DEF Ticket, TicketStatuses
  <1> QED
    <2> HIDE DEF updated
    <2>1. AfterTickets(f, d) = IF d.created[f] = 0 THEN updated
                               ELSE Append(updated, [key |-> d.created[f], status |-> "open"])
      BY DEF AfterTickets, updated
    <2> QED BY <1>5, <1>7, <2>1

\* Publishing a job's writes keeps every row's type.
LEMMA CommitType ==
  ASSUME TypeOK, NEW j \in Jobs, Commit(j)
  PROVE  TypeOK'
  <1> DEFINE d == job[j]
  <1>1. d \in JobState
    BY DEF TypeOK
  <1>2. status' \in [Findings -> RowStatuses]
    BY <1>1 DEF Commit, AfterWrite, TypeOK, JobState, RowStatuses
  <1>3. verdicts' \in [Findings -> Seq(Verdict)]
    <2>1. \A f \in Findings : verdicts[f] \o d.verdict[f] \in Seq(Verdict)
      <3> TAKE f \in Findings
      <3>1. verdicts[f] \in Seq(Verdict) /\ d.verdict[f] \in Seq(Verdict)
        BY <1>1 DEF TypeOK, JobState
      <3> QED BY <3>1, ConcatProperties
    <2>2. verdicts' = [f \in Findings |-> verdicts[f] \o d.verdict[f]]
      BY DEF Commit
    <2> QED BY <2>1, <2>2
  <1>4. approvals' \in [Findings -> Seq(ApprovalStatuses)]
    <2>1. \A f \in Findings : /\ approvals[f] \in Seq(ApprovalStatuses)
                              /\ Append(approvals[f], "pending") \in Seq(ApprovalStatuses)
      BY DEF TypeOK, ApprovalStatuses
    <2> QED BY <2>1 DEF Commit
  <1>5. tickets' \in [Findings -> Seq(Ticket)]
    <2>1. \A f \in Findings : AfterTickets(f, d) \in Seq(Ticket)
      BY <1>1, AfterTicketsType
    <2>2. tickets' = [f \in Findings |-> AfterTickets(f, d)]
      BY DEF Commit
    <2> QED BY <2>1, <2>2
  <1>6. job' \in [Jobs -> JobState]
    BY ClosedType DEF Commit, TypeOK
  <1> QED BY <1>2, <1>3, <1>4, <1>5, <1>6 DEF Commit, TypeOK

\* Abandoning a transaction, and opening one, keep the type of job.
LEMMA AbortType ==
  ASSUME TypeOK, NEW j \in Jobs, Abort(j)
  PROVE  TypeOK'
  BY ClosedType, JobRecordType DEF Abort

LEMMA BeginType ==
  ASSUME TypeOK, NEW j \in Jobs, NEW s \in DOMAIN scans,
         BeginTriage(j, s) \/ BeginRoute(j, s) \/ BeginRecheck(j, s)
  PROVE  TypeOK'
  <1>1. s \in Nat
    BY DEF TypeOK
  <1>2. job \in [Jobs -> JobState] /\ policy \in [Categories -> Policies]
    BY DEF TypeOK
  <1>3. \A kind \in {"triage", "route", "recheck"} : \A T \in SUBSET Findings :
          Fresh(kind, s, T) \in JobState
    BY <1>1, <1>2, OpenedType DEF Fresh
  <1>4. \E d \in JobState : job' = [job EXCEPT ![j] = d]
    <2>1. CASE BeginTriage(j, s)
      <3> DEFINE T == {f \in Findings : scanRun[f] = s /\ status[f] = "new"}
      <3>1. job' = [job EXCEPT ![j] = Fresh("triage", s, T)]
        BY <2>1 DEF BeginTriage
      <3>2. T \in SUBSET Findings OBVIOUS
      <3> HIDE DEF T
      <3> QED BY <1>3, <3>1, <3>2
    <2>2. CASE BeginRoute(j, s)
      <3> DEFINE T == {f \in Findings : scanRun[f] = s /\ status[f] = "triaged"}
      <3>1. job' = [job EXCEPT ![j] = Fresh("route", s, T)]
        BY <2>2 DEF BeginRoute
      <3>2. T \in SUBSET Findings OBVIOUS
      <3> HIDE DEF T
      <3> QED BY <1>3, <3>1, <3>2
    <2>3. CASE BeginRecheck(j, s)
      <3> DEFINE T == {f \in Findings : status[f] = "verification_pending"}
      <3>1. job' = [job EXCEPT ![j] = Fresh("recheck", s, T)]
        BY <2>3 DEF BeginRecheck
      <3>2. T \in SUBSET Findings OBVIOUS
      <3> HIDE DEF T
      <3> QED BY <1>3, <3>1, <3>2
    <2> QED BY <2>1, <2>2, <2>3
  <1>5. job' \in [Jobs -> JobState]
    BY <1>2, <1>4, JobUpdateType
  <1>6. UNCHANGED <<scans, dbVars, filed, policy, edits, closedAt>>
    BY DEF BeginTriage, BeginRoute, BeginRecheck
  <1> QED BY <1>5, <1>6 DEF TypeOK, dbVars

LEMMA DetectType ==
  ASSUME TypeOK, NEW s \in DOMAIN scans, NEW S \in SUBSET Findings, Detect(s, S)
  PROVE  TypeOK'
  <1>1. s \in Nat
    BY DEF TypeOK
  <1>2. status' \in [Findings -> RowStatuses]
    BY DEF Detect, UpsertStatus, TypeOK, RowStatuses, Statuses
  <1>3. scanRun' \in [Findings -> Nat]
    BY <1>1 DEF Detect, TypeOK
  <1>4. firstSeen' \in [Findings -> Nat]
    <2> DEFINE rank == Cardinality(Recorded)
    <2>1. rank \in Nat
      BY RankType
    <2>2. firstSeen' = [f \in Findings |-> IF f \in S /\ status[f] = "absent"
                                              THEN rank ELSE firstSeen[f]]
      BY DEF Detect
    <2> HIDE DEF rank
    <2> QED BY <2>1, <2>2 DEF TypeOK
  <1> QED BY <1>2, <1>3, <1>4 DEF Detect, TypeOK

\* What people and scans do in one step keeps every type.
LEMMA SingleStepType ==
  ASSUME TypeOK,
         \/ Environment
         \/ Operator
         \/ \E O \in SUBSET Findings : Escalate(O)
  PROVE  TypeOK'
  <1>1. CASE Environment
    <2>1. ASSUME NEW result \in ScanResults, RunScan(result)
          PROVE  TypeOK'
      <3>1. result \in ScanResult
        BY ParametersAssumption
      <3>2. scans' \in Seq(ScanResult)
        BY <2>1, <3>1 DEF RunScan, TypeOK
      <3> QED BY <2>1, <3>2 DEF RunScan, TypeOK, dbVars
    <2>2. ASSUME NEW c \in Categories, NEW p \in Policies, EditPolicy(c, p)
          PROVE  TypeOK'
      BY <2>2 DEF EditPolicy, TypeOK, dbVars
    <2> QED BY <1>1, <2>1, <2>2 DEF Environment
  <1>2. CASE Operator
    <2>1. ASSUME NEW f \in Findings, NEW i \in DOMAIN approvals[f],
                 NEW approve \in BOOLEAN, DecideApproval(f, i, approve)
          PROVE  TypeOK'
      <3>1. status' \in [Findings -> RowStatuses]
        BY <2>1 DEF DecideApproval, TypeOK, RowStatuses, Statuses
      <3>2. approvals' \in [Findings -> Seq(ApprovalStatuses)]
        <4> DEFINE a == IF approve THEN "approved" ELSE "rejected"
        <4>1. a \in ApprovalStatuses
          BY DEF ApprovalStatuses
        <4>2. approvals[f] \in Seq(ApprovalStatuses)
          BY DEF TypeOK
        <4>3. [approvals[f] EXCEPT ![i] = a] \in Seq(ApprovalStatuses)
          BY <4>1, <4>2, ExceptSeq
        <4>4. approvals' = [approvals EXCEPT ![f] = [approvals[f] EXCEPT ![i] = a]]
          BY <2>1 DEF DecideApproval
        <4> HIDE DEF a
        <4> QED BY <4>3, <4>4 DEF TypeOK
      <3> QED BY <2>1, <3>1, <3>2 DEF DecideApproval, TypeOK
    <2>2. ASSUME NEW f \in Findings, NEW i \in DOMAIN tickets[f], CloseTicket(f, i)
          PROVE  TypeOK'
      <3>1. status' \in [Findings -> RowStatuses] /\ closedAt' \in [Findings -> Nat]
        BY <2>2 DEF CloseTicket, TypeOK, RowStatuses, Statuses
      <3>2. tickets' \in [Findings -> Seq(Ticket)]
        <4> DEFINE t == [tickets[f][i] EXCEPT !.status = "pending_verification"]
        <4>1. tickets[f] \in Seq(Ticket)
          BY DEF TypeOK
        <4>2. t \in Ticket
          <5>1. tickets[f][i] \in Ticket
            BY <4>1
          <5> QED BY <5>1 DEF Ticket, TicketStatuses
        <4>3. [tickets[f] EXCEPT ![i] = t] \in Seq(Ticket)
          BY <4>1, <4>2, ExceptSeq
        <4>4. tickets' = [tickets EXCEPT ![f] = [tickets[f] EXCEPT ![i] = t]]
          BY <2>2 DEF CloseTicket
        <4> HIDE DEF t
        <4> QED BY <4>3, <4>4 DEF TypeOK
      <3> QED BY <2>2, <3>1, <3>2 DEF CloseTicket, TypeOK
    <2>3. ASSUME NEW f \in Findings, NEW o \in ReviewOutcomes, Review(f, o)
          PROVE  TypeOK'
      BY <2>3, ParametersAssumption DEF Review, TypeOK
    <2> QED BY <1>2, <2>1, <2>2, <2>3 DEF Operator
  <1>3. ASSUME NEW O \in SUBSET Findings, Escalate(O)
        PROVE  TypeOK'
    <2> DEFINE after(f) == [i \in DOMAIN tickets[f] |->
                 IF f \in O /\ tickets[f][i].status = "open"
                   THEN [tickets[f][i] EXCEPT !.status = "escalated"]
                   ELSE tickets[f][i]]
    <2>1. \A f \in Findings : after(f) \in Seq(Ticket)
      <3> TAKE f \in Findings
      <3>1. tickets[f] \in Seq(Ticket)
        BY DEF TypeOK
      <3>2. PICK n \in Nat : DOMAIN tickets[f] = 1..n
        BY <3>1, LenProperties
      <3>3. ASSUME NEW i \in DOMAIN tickets[f]
            PROVE  after(f)[i] \in Ticket
        <4>1. tickets[f][i] \in Ticket
          BY <3>1, <3>3
        <4>2. after(f)[i] \in {tickets[f][i], [tickets[f][i] EXCEPT !.status = "escalated"]}
          BY <3>3
        <4> QED BY <4>1, <4>2 DEF Ticket, TicketStatuses
      <3>4. after(f) = [i \in 1..n |-> after(f)[i]]
        BY <3>2
      <3>5. after(f) \in [1..n -> Ticket]
        <4> HIDE DEF after
        <4> QED BY <3>2, <3>3, <3>4
      <3> QED
        <4> HIDE DEF after
        <4> QED BY <3>2, <3>5, SeqDef
    <2>2. tickets' = [f \in Findings |-> after(f)]
      BY <1>3 DEF Escalate
    <2>3. tickets' \in [Findings -> Seq(Ticket)]
      <3> HIDE DEF after
      <3> QED BY <2>1, <2>2
    <2> QED BY <1>3, <2>3 DEF Escalate, TypeOK
  <1> QED BY <1>1, <1>2, <1>3

\* Every step keeps every type.
LEMMA NextType == TypeOK /\ [Next]_vars => TypeOK'
  <1> SUFFICES ASSUME TypeOK, [Next]_vars PROVE TypeOK'
    OBVIOUS
  <1>1. CASE Environment \/ Operator
    BY <1>1, SingleStepType
  <1>2. CASE Pipeline
    <2>1. ASSUME NEW j \in Jobs, JobStep(j) PROVE TypeOK'
      <3>1. ASSUME NEW f \in Findings, NEW a \in Adjudications, TriageFinding(j, f, a)
            PROVE  TypeOK'
        BY <3>1, TriageFindingType
      <3>2. CASE \/ \E f \in Findings :
                      TriageSkip(j, f) \/ RouteSkip(j, f) \/ RecheckSkip(j, f)
                 \/ TriageCeiling(j)
        BY <3>2, SkipType
      <3>3. CASE MarkStatus(j)
        BY <3>3, MarkStatusType
      <3>4. ASSUME NEW f \in Findings, RouteDraft(j, f) \/ RouteFile(j, f)
            PROVE  TypeOK'
        BY <3>4, RouteDraftType, RouteFileType
      <3>5. ASSUME NEW f \in Findings, NEW i \in DOMAIN tickets[f], RouteReopen(j, f, i)
            PROVE  TypeOK'
        BY <3>5, RouteReopenType
      <3>6. ASSUME NEW f \in Findings, NEW i \in 0..Len(tickets[f]),
                   RecheckFinding(j, f, i)
            PROVE  TypeOK'
        BY <3>6, RecheckFindingType
      <3>7. CASE Commit(j)
        BY <3>7, CommitType
      <3>8. CASE Abort(j)
        BY <3>8, AbortType
      <3> QED BY <2>1, <3>1, <3>2, <3>3, <3>4, <3>5, <3>6, <3>7, <3>8 DEF JobStep
    <2>2. ASSUME NEW s \in DOMAIN scans, NEW S \in SUBSET Findings, Detect(s, S)
          PROVE  TypeOK'
      BY <2>2, DetectType
    <2>3. ASSUME NEW j \in Jobs, NEW s \in DOMAIN scans,
                 BeginTriage(j, s) \/ BeginRoute(j, s) \/ BeginRecheck(j, s)
          PROVE  TypeOK'
      BY <2>3, BeginType
    <2>4. ASSUME NEW O \in SUBSET Findings, Escalate(O) PROVE TypeOK'
      BY <2>4, SingleStepType
    <2> QED BY <1>2, <2>1, <2>2, <2>3, <2>4 DEF Pipeline
  <1>3. CASE UNCHANGED vars
    BY <1>3 DEF vars, dbVars, TypeOK, JobState
  <1> QED BY <1>1, <1>2, <1>3 DEF Next

\* Every state of every execution is well typed: rows, and the buffered writes
\* of every open transaction.
THEOREM TypeCorrect == Spec => []TypeOK
  BY InitType, NextType, PTL DEF Spec

-----------------------------------------------------------------------------
(* What each step of a job does to its record *)

OthersKept(j) == \A k \in Jobs \ {j} : job'[k] = job[k]

\* A job keeps the kind, the scan and the org-context it began with.
SameOrders(j) ==
  /\ job'[j].kind = job[j].kind
  /\ job'[j].scan = job[j].scan
  /\ job'[j].policy = job[j].policy

\* Writing one job's slot leaves the other jobs' records alone.
LEMMA OneRecord ==
  ASSUME TypeOK, NEW j \in Jobs, NEW e, job' = [job EXCEPT ![j] = e]
  PROVE  OthersKept(j) /\ job'[j] = e
  BY DEF TypeOK, OthersKept

LEMMA TriageFindingRecord ==
  ASSUME TypeOK, NEW j \in Jobs, NEW f \in Findings, NEW a \in Adjudications,
         TriageFinding(j, f, a)
  PROVE  /\ OthersKept(j) /\ SameOrders(j)
         /\ job'[j].todo = job[j].todo \ {f}
         /\ job'[j].pending = {f}
         /\ job'[j].target = TriagedStatus(a)
         /\ job'[j].writes = job[j].writes
         /\ job'[j].created = job[j].created
         /\ job'[j].drafts = job[j].drafts
         /\ job'[j].ticketWrites = job[j].ticketWrites
  <1> DEFINE d == job[j]
             e == [d EXCEPT !.todo = d.todo \ {f}, !.pending = {f},
                            !.target = TriagedStatus(a),
                            !.verdict[f] = <<[value |-> a.value, severity |-> a.severity,
                                              basis |-> scanRun[f]]>>]
  <1>1. d \in JobState
    BY DEF TypeOK
  <1>2. /\ e.kind = d.kind /\ e.scan = d.scan /\ e.policy = d.policy
        /\ e.todo = d.todo \ {f} /\ e.pending = {f} /\ e.target = TriagedStatus(a)
        /\ e.writes = d.writes /\ e.created = d.created /\ e.drafts = d.drafts
        /\ e.ticketWrites = d.ticketWrites
    BY <1>1 DEF JobState
  <1>3. job' = [job EXCEPT ![j] = e]
    BY DEF TriageFinding
  <1> HIDE DEF e
  <1>4. OthersKept(j) /\ job'[j] = e
    BY <1>3, OneRecord
  <1> QED BY <1>2, <1>4 DEF SameOrders

\* Passing over a finding, a group, or the rest of the work list, and holding
\* a finding for approval: only the work list and the drafts change.
LEMMA SkipRecord ==
  ASSUME TypeOK, NEW j \in Jobs,
         \/ \E f \in Findings : \/ TriageSkip(j, f) \/ RouteSkip(j, f)
                                \/ RouteDraft(j, f) \/ RecheckSkip(j, f)
         \/ TriageCeiling(j)
  PROVE  /\ OthersKept(j) /\ SameOrders(j)
         /\ job'[j].todo \subseteq job[j].todo
         /\ job'[j].pending = job[j].pending
         /\ job'[j].target = job[j].target
         /\ job'[j].writes = job[j].writes
         /\ job'[j].created = job[j].created
         /\ job'[j].drafts \subseteq job[j].drafts \cup job[j].todo
         /\ job'[j].ticketWrites = job[j].ticketWrites
  <1> DEFINE d == job[j]
             e(T, D) == [d EXCEPT !.todo = T, !.drafts = D]
  <1>1. d \in JobState
    BY DEF TypeOK
  <1>2. \E T \in SUBSET d.todo, D \in SUBSET (d.drafts \cup d.todo) :
          job' = [job EXCEPT ![j] = e(T, D)]
    <2>1. \A T : [d EXCEPT !.todo = T] = e(T, d.drafts)
      BY <1>1 DEF JobState
    <2>2. d.drafts \in SUBSET (d.drafts \cup d.todo)
      OBVIOUS
    <2>3. CASE \E f \in Findings : TriageSkip(j, f) \/ RecheckSkip(j, f)
      <3>1. PICK f \in Findings : job' = [job EXCEPT ![j] = [d EXCEPT !.todo = d.todo \ {f}]]
        BY <2>3 DEF TriageSkip, RecheckSkip
      <3> QED BY <2>1, <2>2, <3>1
    <2>4. CASE \E f \in Findings : RouteSkip(j, f)
      <3>1. PICK f \in Findings :
              job' = [job EXCEPT ![j] = [d EXCEPT !.todo = d.todo \ Cluster(f)]]
        BY <2>4 DEF RouteSkip
      <3> QED BY <2>1, <2>2, <3>1
    <2>5. CASE TriageCeiling(j)
      BY <2>1, <2>2, <2>5 DEF TriageCeiling
    <2>6. CASE \E f \in Findings : RouteDraft(j, f)
      <3>1. PICK f \in d.todo : job' = [job EXCEPT ![j] = e(d.todo \ Cluster(f), d.drafts \cup {f})]
        BY <2>6 DEF RouteDraft, RouteReady, IsPrimary
      <3> QED BY <2>2, <3>1
    <2> QED BY <2>3, <2>4, <2>5, <2>6
  <1>3. PICK T \in SUBSET d.todo, D \in SUBSET (d.drafts \cup d.todo) :
          job' = [job EXCEPT ![j] = e(T, D)]
    BY <1>2
  <1>4. /\ e(T, D).kind = d.kind /\ e(T, D).scan = d.scan /\ e(T, D).policy = d.policy
        /\ e(T, D).todo = T /\ e(T, D).pending = d.pending
        /\ e(T, D).target = d.target /\ e(T, D).writes = d.writes
        /\ e(T, D).created = d.created /\ e(T, D).drafts = D
        /\ e(T, D).ticketWrites = d.ticketWrites
    BY <1>1 DEF JobState
  <1>5. OthersKept(j) /\ job'[j] = e(T, D)
    <2> HIDE DEF e
    <2> QED BY <1>3, OneRecord
  <1> HIDE DEF e
  <1> QED BY <1>4, <1>5 DEF SameOrders

LEMMA RouteFileRecord ==
  ASSUME TypeOK, NEW j \in Jobs, NEW f \in Findings, RouteFile(j, f)
  PROVE  /\ OthersKept(j) /\ SameOrders(j)
         /\ job'[j].todo = job[j].todo \ Cluster(f)
         /\ job'[j].pending = Group(j, f)
         /\ job'[j].target = "routed"
         /\ job'[j].writes = job[j].writes
         /\ job'[j].drafts = job[j].drafts
         /\ job'[j].created = [job[j].created EXCEPT ![f] = filed[f] + 1]
         /\ job'[j].ticketWrites = job[j].ticketWrites
  <1> DEFINE d == job[j]
             n == filed[f] + 1
             e == [d EXCEPT !.todo = d.todo \ Cluster(f), !.pending = Group(j, f),
                            !.target = "routed", !.created[f] = n]
  <1>1. d \in JobState
    BY DEF TypeOK
  <1>2. /\ e.kind = d.kind /\ e.scan = d.scan /\ e.policy = d.policy
        /\ e.todo = d.todo \ Cluster(f) /\ e.pending = Group(j, f)
        /\ e.target = "routed" /\ e.writes = d.writes
        /\ e.created = [d.created EXCEPT ![f] = n] /\ e.drafts = d.drafts
        /\ e.ticketWrites = d.ticketWrites
    <2> HIDE DEF n
    <2> QED BY <1>1 DEF JobState
  <1>3. job' = [job EXCEPT ![j] = e]
    BY DEF RouteFile
  <1> HIDE DEF e
  <1>4. OthersKept(j) /\ job'[j] = e
    BY <1>3, OneRecord
  <1> QED BY <1>2, <1>4 DEF SameOrders

LEMMA RouteReopenRecord ==
  ASSUME TypeOK, NEW j \in Jobs, NEW f \in Findings, NEW i \in DOMAIN tickets[f],
         RouteReopen(j, f, i)
  PROVE  /\ OthersKept(j) /\ SameOrders(j)
         /\ job'[j].todo = job[j].todo \ Cluster(f)
         /\ job'[j].pending = Group(j, f)
         /\ job'[j].target = "routed"
         /\ job'[j].writes = job[j].writes
         /\ job'[j].created = job[j].created
         /\ job'[j].drafts = job[j].drafts
         /\ job'[j].ticketWrites =
              [job[j].ticketWrites EXCEPT ![f] = TicketUpdate(f, i, "open")]
  <1> DEFINE d == job[j]
             w == TicketUpdate(f, i, "open")
             e == [d EXCEPT !.todo = d.todo \ Cluster(f), !.pending = Group(j, f),
                            !.target = "routed", !.ticketWrites[f] = w]
  <1>1. d \in JobState
    BY DEF TypeOK
  <1>2. /\ e.kind = d.kind /\ e.scan = d.scan /\ e.policy = d.policy
        /\ e.todo = d.todo \ Cluster(f) /\ e.pending = Group(j, f)
        /\ e.target = "routed" /\ e.writes = d.writes
        /\ e.created = d.created /\ e.drafts = d.drafts
        /\ e.ticketWrites = [d.ticketWrites EXCEPT ![f] = w]
    <2> HIDE DEF w
    <2> QED BY <1>1 DEF JobState
  <1>3. job' = [job EXCEPT ![j] = e]
    BY DEF RouteReopen
  <1> HIDE DEF e
  <1>4. OthersKept(j) /\ job'[j] = e
    BY <1>3, OneRecord
  <1> QED BY <1>2, <1>4 DEF SameOrders

LEMMA MarkStatusRecord ==
  ASSUME TypeOK, NEW j \in Jobs, MarkStatus(j)
  PROVE  /\ OthersKept(j) /\ SameOrders(j)
         /\ job'[j].todo = job[j].todo
         /\ job'[j].pending = {}
         /\ job'[j].target = job[j].target
         /\ \A f \in Findings :
              job'[j].writes[f] = IF f \in job[j].pending THEN job[j].target
                                                          ELSE job[j].writes[f]
         /\ job'[j].created = job[j].created
         /\ job'[j].drafts = job[j].drafts
         /\ job'[j].ticketWrites = job[j].ticketWrites
  <1> DEFINE d == job[j]
             w == [f \in Findings |-> IF f \in d.pending THEN d.target ELSE d.writes[f]]
             e == [d EXCEPT !.writes = w, !.pending = {}]
  <1>1. d \in JobState
    BY DEF TypeOK
  <1>2. /\ e.kind = d.kind /\ e.scan = d.scan /\ e.policy = d.policy
        /\ e.todo = d.todo /\ e.pending = {} /\ e.target = d.target
        /\ e.writes = w /\ e.created = d.created /\ e.drafts = d.drafts
        /\ e.ticketWrites = d.ticketWrites
    <2> HIDE DEF w
    <2> QED BY <1>1 DEF JobState
  <1>3. job' = [job EXCEPT ![j] = e]
    BY DEF MarkStatus
  <1> HIDE DEF e
  <1>4. OthersKept(j) /\ job'[j] = e
    BY <1>3, OneRecord
  <1> QED BY <1>2, <1>4 DEF SameOrders

\* What the recheck of f that job j is about to do concludes.
RecheckedAs(j, f) == RecheckResult(f, job[j].scan, job[j].policy)

LEMMA RecheckFindingRecord ==
  ASSUME TypeOK, NEW j \in Jobs, NEW f \in Findings, NEW i \in 0..Len(tickets[f]),
         RecheckFinding(j, f, i)
  PROVE  /\ OthersKept(j) /\ SameOrders(j)
         /\ job'[j].todo = job[j].todo \ {f}
         /\ job'[j].pending = job[j].pending
         /\ job'[j].target = job[j].target
         /\ job'[j].writes = [job[j].writes EXCEPT ![f] = RecheckedAs(j, f)]
         /\ job'[j].created = job[j].created
         /\ job'[j].drafts = job[j].drafts
         /\ job'[j].ticketWrites =
              [job[j].ticketWrites EXCEPT
                 ![f] = TicketUpdate(f, i, TicketAfterRecheck(RecheckedAs(j, f)))]
  <1> DEFINE d == job[j]
             result == RecheckedAs(j, f)
             w == TicketUpdate(f, i, TicketAfterRecheck(result))
             e == [d EXCEPT !.todo = d.todo \ {f}, !.writes[f] = result,
                            !.ticketWrites[f] = w]
  <1>1. d \in JobState
    BY DEF TypeOK
  <1>2. /\ e.kind = d.kind /\ e.scan = d.scan /\ e.policy = d.policy
        /\ e.todo = d.todo \ {f} /\ e.pending = d.pending /\ e.target = d.target
        /\ e.writes = [d.writes EXCEPT ![f] = result]
        /\ e.created = d.created /\ e.drafts = d.drafts
        /\ e.ticketWrites = [d.ticketWrites EXCEPT ![f] = w]
    <2> HIDE DEF w, result
    <2> QED BY <1>1 DEF JobState
  <1>3. job' = [job EXCEPT ![j] = e]
    BY DEF RecheckFinding, RecheckedAs
  <1> HIDE DEF e
  <1>4. OthersKept(j) /\ job'[j] = e
    BY <1>3, OneRecord
  <1> QED BY <1>2, <1>4 DEF SameOrders

\* Opening a transaction: its work list is what it read in the status its
\* command looks for.
ReadAs(kind) ==
  CASE kind = "triage" -> "new"
    [] kind = "route" -> "triaged"
    [] OTHER -> "verification_pending"

LEMMA BeginRecord ==
  ASSUME TypeOK, NEW j \in Jobs, NEW s \in DOMAIN scans,
         BeginTriage(j, s) \/ BeginRoute(j, s) \/ BeginRecheck(j, s)
  PROVE  \E kind \in {"triage", "route", "recheck"}, T \in SUBSET Findings :
           /\ OthersKept(j)
           /\ job'[j] = Opened(kind, s, policy, T)
           /\ \A f \in T : status[f] = ReadAs(kind)
  <1>1. \E kind \in {"triage", "route", "recheck"}, T \in SUBSET Findings :
          /\ job' = [job EXCEPT ![j] = Opened(kind, s, policy, T)]
          /\ \A f \in T : status[f] = ReadAs(kind)
    <2>1. CASE BeginTriage(j, s)
      <3> DEFINE T == {f \in Findings : scanRun[f] = s /\ status[f] = "new"}
      <3>1. job' = [job EXCEPT ![j] = Opened("triage", s, policy, T)]
        BY <2>1 DEF BeginTriage, Fresh
      <3>2. \A f \in T : status[f] = ReadAs("triage")
        BY DEF ReadAs
      <3>3. T \in SUBSET Findings OBVIOUS
      <3> HIDE DEF T
      <3> QED BY <3>1, <3>2, <3>3
    <2>2. CASE BeginRoute(j, s)
      <3> DEFINE T == {f \in Findings : scanRun[f] = s /\ status[f] = "triaged"}
      <3>1. job' = [job EXCEPT ![j] = Opened("route", s, policy, T)]
        BY <2>2 DEF BeginRoute, Fresh
      <3>2. \A f \in T : status[f] = ReadAs("route")
        BY DEF ReadAs
      <3>3. T \in SUBSET Findings OBVIOUS
      <3> HIDE DEF T
      <3> QED BY <3>1, <3>2, <3>3
    <2>3. CASE BeginRecheck(j, s)
      <3> DEFINE T == {f \in Findings : status[f] = "verification_pending"}
      <3>1. job' = [job EXCEPT ![j] = Opened("recheck", s, policy, T)]
        BY <2>3 DEF BeginRecheck, Fresh
      <3>2. \A f \in T : status[f] = ReadAs("recheck")
        BY DEF ReadAs
      <3>3. T \in SUBSET Findings OBVIOUS
      <3> HIDE DEF T
      <3> QED BY <3>1, <3>2, <3>3
    <2> QED BY <2>1, <2>2, <2>3
  <1>2. PICK kind \in {"triage", "route", "recheck"}, T \in SUBSET Findings :
          /\ job' = [job EXCEPT ![j] = Opened(kind, s, policy, T)]
          /\ \A f \in T : status[f] = ReadAs(kind)
    BY <1>1
  <1>3. OthersKept(j) /\ job'[j] = Opened(kind, s, policy, T)
    BY <1>2, OneRecord
  <1> QED BY <1>2, <1>3

\* Both ends of a transaction leave the empty record.
LEMMA CloseRecord ==
  ASSUME TypeOK, NEW j \in Jobs, Commit(j) \/ Abort(j)
  PROVE  /\ OthersKept(j) /\ job'[j] = Closed
         /\ job'[j].kind = "idle"
         /\ \A f \in Findings : job'[j].writes[f] = NoWrite
  <1>1. OthersKept(j) /\ job'[j] = Closed
    <2> HIDE DEF Closed
    <2> QED BY OneRecord DEF Commit, Abort
  <1>2. Closed.kind = "idle" /\ \A f \in Findings : Closed.writes[f] = NoWrite
    BY DEF Closed, Opened
  <1> QED BY <1>1, <1>2

LEMMA JobStepOrders ==
  ASSUME TypeOK, NEW j \in Jobs, JobStep(j)
  PROVE  OthersKept(j) /\ (SameOrders(j) \/ job'[j] = Closed)
  <1>1. CASE \E f \in Findings, a \in Adjudications : TriageFinding(j, f, a)
    BY <1>1, TriageFindingRecord
  <1>2. CASE \/ \E f \in Findings : \/ TriageSkip(j, f) \/ RouteSkip(j, f)
                                    \/ RouteDraft(j, f) \/ RecheckSkip(j, f)
             \/ TriageCeiling(j)
    BY <1>2, SkipRecord
  <1>3. CASE \E f \in Findings : RouteFile(j, f)
    BY <1>3, RouteFileRecord
  <1>4. CASE \E f \in Findings : \E i \in DOMAIN tickets[f] : RouteReopen(j, f, i)
    BY <1>4, RouteReopenRecord
  <1>5. CASE MarkStatus(j)
    BY <1>5, MarkStatusRecord
  <1>6. CASE \E f \in Findings : \E i \in 0..Len(tickets[f]) : RecheckFinding(j, f, i)
    BY <1>6, RecheckFindingRecord
  <1>7. CASE Commit(j) \/ Abort(j)
    BY <1>7, CloseRecord
  <1> QED BY <1>1, <1>2, <1>3, <1>4, <1>5, <1>6, <1>7 DEF JobStep

\* A job's record changes only by its own steps.
LEMMA JobEvolves ==
  ASSUME TypeOK, [Next]_vars, NEW j \in Jobs
  PROVE  \/ job'[j] = job[j]
         \/ JobStep(j)
         \/ \E s \in DOMAIN scans :
              BeginTriage(j, s) \/ BeginRoute(j, s) \/ BeginRecheck(j, s)
  <1>1. CASE UNCHANGED vars
    BY <1>1 DEF vars
  <1>2. CASE Environment \/ Operator
    BY <1>2 DEF Environment, RunScan, EditPolicy, Operator, DecideApproval,
                CloseTicket, Review
  <1>3. CASE Pipeline
    <2>1. CASE \E s \in DOMAIN scans, S \in SUBSET Findings : Detect(s, S)
      BY <2>1 DEF Detect
    <2>2. ASSUME NEW k \in Jobs, NEW s \in DOMAIN scans,
                 BeginTriage(k, s) \/ BeginRoute(k, s) \/ BeginRecheck(k, s)
          PROVE  j = k \/ job'[j] = job[j]
      BY <2>2, BeginRecord DEF OthersKept
    <2>3. CASE \E O \in SUBSET Findings : Escalate(O)
      BY <2>3 DEF Escalate
    <2>4. ASSUME NEW k \in Jobs, JobStep(k)
          PROVE  j = k \/ job'[j] = job[j]
      BY <2>4, JobStepOrders DEF OthersKept
    <2> QED BY <1>3, <2>1, <2>2, <2>3, <2>4 DEF Pipeline
  <1> QED BY <1>1, <1>2, <1>3 DEF Next

-----------------------------------------------------------------------------
(* What commit does to Ticket rows *)

\* A commit keeps the keys of a finding's Ticket rows and appends at most one.
LEMMA AfterTicketsKeys ==
  ASSUME TypeOK, NEW f \in Findings, NEW d \in JobState
  PROVE  /\ DOMAIN tickets[f] = 1..Len(tickets[f])
         /\ DOMAIN AfterTickets(f, d) = 1..Len(AfterTickets(f, d))
         /\ Len(tickets[f]) \in Nat
         /\ Len(AfterTickets(f, d)) = IF d.created[f] = 0 THEN Len(tickets[f])
                                      ELSE Len(tickets[f]) + 1
         /\ \A i \in DOMAIN tickets[f] :
              AfterTickets(f, d)[i].key = tickets[f][i].key
         /\ d.created[f] # 0 =>
              AfterTickets(f, d)[Len(tickets[f]) + 1].key = d.created[f]
  <1> DEFINE updated == [i \in DOMAIN tickets[f] |->
        IF d.ticketWrites[f] # NoWrite /\ d.ticketWrites[f].index = i
          THEN [tickets[f][i] EXCEPT !.status = d.ticketWrites[f].status]
          ELSE tickets[f][i]]
             row == [key |-> d.created[f], status |-> "open"]
  <1>1. /\ tickets[f] \in Seq(Ticket)
        /\ DOMAIN tickets[f] = 1..Len(tickets[f])
        /\ Len(tickets[f]) \in Nat
    BY LenProperties DEF TypeOK
  <1>2. AfterTickets(f, d) \in Seq(Ticket)
    BY AfterTicketsType
  <1>3. \A i \in DOMAIN tickets[f] : updated[i].key = tickets[f][i].key
    <2> TAKE i \in DOMAIN tickets[f]
    <2>1. tickets[f][i] \in Ticket
      BY <1>1
    <2>2. updated[i] \in {tickets[f][i],
                          [tickets[f][i] EXCEPT !.status = d.ticketWrites[f].status]}
      OBVIOUS
    <2> QED BY <2>1, <2>2 DEF Ticket
  <1>4. Len(updated) = Len(tickets[f]) /\ updated \in Seq(Ticket)
    <2>1. ASSUME NEW i \in DOMAIN tickets[f]
          PROVE  updated[i] \in Ticket
      <3>1. tickets[f][i] \in Ticket
        BY <1>1, <2>1
      <3>2. d.ticketWrites[f] # NoWrite => d.ticketWrites[f].status \in TicketStatuses
        BY DEF JobState, TicketWrite
      <3> QED BY <3>1, <3>2, <2>1 DEF Ticket
    <2>2. updated = [i \in 1..Len(tickets[f]) |-> updated[i]]
      BY <1>1
    <2> HIDE DEF updated
    <2>3. updated \in [1..Len(tickets[f]) -> Ticket]
      BY <1>1, <2>1, <2>2
    <2>4. updated \in Seq(Ticket)
      BY <1>1, <2>3, SeqDef
    <2> QED BY <1>1, <2>3, <2>4, LenProperties
  <1>5. AfterTickets(f, d) = IF d.created[f] = 0 THEN updated ELSE Append(updated, row)
    BY DEF AfterTickets
  <1>6. row \in Ticket /\ row.key = d.created[f]
    BY DEF Ticket, TicketStatuses, JobState
  <1>7. d.created[f] # 0 =>
          /\ Len(AfterTickets(f, d)) = Len(tickets[f]) + 1
          /\ \A i \in 1..Len(tickets[f]) : AfterTickets(f, d)[i] = updated[i]
          /\ AfterTickets(f, d)[Len(tickets[f]) + 1] = row
    <2> HIDE DEF updated, row
    <2> QED BY <1>1, <1>4, <1>5, <1>6, AppendProperties
  <1>8. DOMAIN AfterTickets(f, d) = 1..Len(AfterTickets(f, d))
    BY <1>2, LenProperties
  <1> HIDE DEF updated, row
  <1> QED BY <1>1, <1>3, <1>4, <1>5, <1>6, <1>7, <1>8

\* A sequence is not empty exactly when its length is positive.
LEMMA NonEmpty ==
  ASSUME NEW T, NEW s \in Seq(T)
  PROVE  (s # <<>>) <=> Len(s) > 0
  BY EmptySeq, LenProperties

\* Until it commits, a job changes no row: it fills its own buffer and calls
\* the tracker.
LEMMA JobStepFrame ==
  ASSUME NEW j \in Jobs, JobStep(j), ~Commit(j)
  PROVE  UNCHANGED <<scans, status, scanRun, firstSeen, verdicts, reviews,
                     approvals, tickets, policy, edits, closedAt>>
  <1>1. CASE \E f \in Findings, a \in Adjudications : TriageFinding(j, f, a)
    BY <1>1 DEF TriageFinding, dbVars
  <1>2. CASE (\E f \in Findings : TriageSkip(j, f)) \/ TriageCeiling(j)
    BY <1>2 DEF TriageSkip, TriageCeiling, dbVars
  <1>3. CASE \E f \in Findings : RouteSkip(j, f) \/ RouteDraft(j, f) \/ RouteFile(j, f)
    BY <1>3 DEF RouteSkip, RouteDraft, RouteFile, dbVars
  <1>4. CASE \E f \in Findings : \E i \in DOMAIN tickets[f] : RouteReopen(j, f, i)
    BY <1>4 DEF RouteReopen, dbVars
  <1>5. CASE MarkStatus(j) \/ Abort(j)
    BY <1>5 DEF MarkStatus, Abort, dbVars
  <1>6. CASE \E f \in Findings : RecheckSkip(j, f)
    BY <1>6 DEF RecheckSkip, dbVars
  <1>7. CASE \E f \in Findings : \E i \in 0..Len(tickets[f]) : RecheckFinding(j, f, i)
    BY <1>7 DEF RecheckFinding, dbVars
  <1> QED BY <1>1, <1>2, <1>3, <1>4, <1>5, <1>6, <1>7 DEF JobStep

\* Scan runs are appended, never altered.
LEMMA ScansGrow ==
  ASSUME TypeOK, [Next]_vars, NEW s \in DOMAIN scans
  PROVE  s \in DOMAIN scans' /\ scans'[s] = scans[s]
  <1>1. CASE UNCHANGED scans
    BY <1>1
  <1>2. ASSUME NEW result \in ScanResults, RunScan(result)
        PROVE  s \in DOMAIN scans' /\ scans'[s] = scans[s]
    <2>1. scans \in Seq(ScanResult) /\ result \in ScanResult
      BY ParametersAssumption DEF TypeOK
    <2>2. scans' = Append(scans, result)
      BY <1>2 DEF RunScan
    <2> QED BY <2>1, <2>2, AppendProperties, LenProperties
  <1>3. UNCHANGED scans \/ \E result \in ScanResults : RunScan(result)
    <2>1. CASE UNCHANGED vars
      BY <2>1 DEF vars
    <2>2. CASE Environment \/ Operator
      BY <2>2 DEF Environment, EditPolicy, Operator, DecideApproval, CloseTicket, Review
    <2>3. CASE Pipeline
      <3>1. CASE \E t \in DOMAIN scans, S \in SUBSET Findings : Detect(t, S)
        BY <3>1 DEF Detect
      <3>2. CASE \E j \in Jobs, t \in DOMAIN scans :
                   BeginTriage(j, t) \/ BeginRoute(j, t) \/ BeginRecheck(j, t)
        BY <3>2 DEF BeginTriage, BeginRoute, BeginRecheck
      <3>3. CASE \E O \in SUBSET Findings : Escalate(O)
        BY <3>3 DEF Escalate
      <3>4. ASSUME NEW j \in Jobs, JobStep(j)
            PROVE  UNCHANGED scans
        BY <3>4, JobStepFrame DEF Commit
      <3> QED BY <2>3, <3>1, <3>2, <3>3, <3>4 DEF Pipeline
    <2> QED BY <2>1, <2>2, <2>3 DEF Next
  <1> QED BY <1>1, <1>2, <1>3

-----------------------------------------------------------------------------
(* One command at a time *)

\* What a job of each kind sets a finding's status to.
Results(kind) ==
  CASE kind = "triage" -> {"triaging", "triaged"}
    [] kind = "route" -> {"routed"}
    [] OTHER -> {"fixed", "regressed"}

CleanIn(s, f) == s \in DOMAIN scans /\ f \in scans[s].seen \ scans[s].reproducing
ReproducedIn(s, f) == s \in DOMAIN scans /\ f \in scans[s].seen \cap scans[s].reproducing

\* The finding's new status is buffered, or waits for the row lock.
AwaitsWrite(d, f) == f \in d.pending \/ d.writes[f] # NoWrite

\* What the route run's org-context says to do with primary p.
FiledFor(d, p) ==
  /\ LatestTruePositive(p)
  /\ DecideAction(d.policy[CategoryOf[p]].level, Latest(p).severity) = "auto_file"

\* A command that runs alone finds every row as it read it: what it has not
\* handled yet, and what it has buffered, still has the status it looked for.
SerialRows(d) ==
  /\ d.kind # "idle"
  /\ d.scan \in DOMAIN scans
  /\ d.kind = "recheck" => d.pending = {}
  /\ d.pending # {} => d.target \in Results(d.kind)
  /\ \A f \in d.drafts : status[f] # "absent"
  /\ \A f \in Findings :
       /\ f \in d.todo \/ AwaitsWrite(d, f) => status[f] = ReadAs(d.kind)
       /\ d.writes[f] \in Results(d.kind) \cup {NoWrite}

\* What it has buffered is what it decided: a recheck on its scan's evidence,
\* a route run on its primary's verdict and the level it read.
SerialGrounds(d) ==
  \A f \in Findings :
    /\ d.writes[f] = "fixed" => CleanIn(d.scan, f)
    /\ d.writes[f] = "regressed" => ReproducedIn(d.scan, f)
    /\ d.kind = "route" /\ AwaitsWrite(d, f) => \E p \in Cluster(f) : FiledFor(d, p)

\* Its ticket writes go with status writes, and agree with them.
SerialTickets(d) ==
  \A f \in Findings :
    /\ d.created[f] # 0 \/ d.ticketWrites[f] # NoWrite => AwaitsWrite(d, f)
    /\ d.created[f] # 0 => d.kind = "route" /\ tickets[f] = <<>>
    /\ d.kind = "recheck" /\ d.writes[f] # NoWrite /\ tickets[f] # <<>> =>
         d.ticketWrites[f] = TicketUpdate(f, 1, TicketAfterRecheck(d.writes[f]))

SerialJob(d) == SerialRows(d) /\ SerialGrounds(d) /\ SerialTickets(d)

\* A finding has one Ticket row at most, and has it only when past triage.
OneTicket ==
  \A f \in Findings : /\ Len(tickets[f]) <= 1
                      /\ tickets[f] # <<>> => status[f] \in PastTriage

\* An Approval row is that of a recorded finding.
DraftsRecorded == \A f \in Findings : approvals[f] # <<>> => status[f] # "absent"

OneAtATime == \A j, k \in Jobs : j # k => Idle(j) \/ Idle(k)

SerialInv ==
  /\ TypeOK
  /\ OneTicket
  /\ TicketTellsState
  /\ DraftsRecorded
  /\ OneAtATime
  /\ \A j \in Jobs : IF Idle(j) THEN job[j] = Closed ELSE SerialJob(job[j])

\* A finding with one Ticket row at most has it at index 1.
LEMMA OnlyTicket ==
  ASSUME TypeOK, OneTicket, NEW f \in Findings, NEW i \in DOMAIN tickets[f]
  PROVE  i = 1 /\ DOMAIN tickets[f] = {1}
  <1>1. /\ tickets[f] \in Seq(Ticket) /\ Len(tickets[f]) \in Nat
        /\ DOMAIN tickets[f] = 1..Len(tickets[f])
    BY LenProperties DEF TypeOK
  <1> QED BY <1>1 DEF OneTicket

\* No step takes a scan away, so what a scan shows it keeps showing.
ScansKept == \A s \in DOMAIN scans : s \in DOMAIN scans' /\ scans'[s] = scans[s]

\* A job that takes no step keeps its promises while no row it relies on moves.
LEMMA SerialUntouched ==
  ASSUME NEW j \in Jobs, SerialJob(job[j]), job'[j] = job[j], ScansKept,
         UNCHANGED <<status, verdicts, tickets>>
  PROVE  SerialJob(job[j])'
  <1>1. SerialRows(job[j])'
    BY DEF SerialJob, SerialRows, AwaitsWrite, ScansKept
  <1>2. SerialGrounds(job[j])'
    BY DEF SerialJob, SerialGrounds, AwaitsWrite, CleanIn, ReproducedIn, ScansKept,
           FiledFor, LatestTruePositive, Latest, Cluster
  <1>3. SerialTickets(job[j])'
    BY DEF SerialJob, SerialTickets, AwaitsWrite, TicketUpdate
  <1> QED BY <1>1, <1>2, <1>3 DEF SerialJob

\* A step of the one open job that moves no row.
LEMMA SerialRecord ==
  ASSUME SerialInv, TypeOK', NEW j \in Jobs, ~Idle(j), OthersKept(j),
         UNCHANGED <<status, approvals, tickets>>,
         \/ job'[j] = Closed
         \/ SerialJob(job[j])'
  PROVE  SerialInv'
  <1>1. OneTicket' /\ TicketTellsState' /\ DraftsRecorded'
    BY DEF SerialInv, OneTicket, TicketTellsState, DraftsRecorded
  <1>2. \A k \in Jobs \ {j} : Idle(k) /\ job[k] = Closed /\ job'[k] = Closed
    BY DEF SerialInv, OneAtATime, OthersKept
  <1>3. Closed.kind = "idle"
    BY DEF Closed, Opened
  <1>4. OneAtATime'
    BY <1>2, <1>3 DEF OneAtATime, Idle
  <1>5. ASSUME NEW k \in Jobs
        PROVE  IF job'[k].kind = "idle" THEN job'[k] = Closed ELSE SerialJob(job[k])'
    <2>1. SerialJob(job[j])' => job'[j].kind # "idle"
      BY DEF SerialJob, SerialRows
    <2> QED BY <1>2, <1>3, <2>1
  <1> QED BY <1>1, <1>4, <1>5 DEF SerialInv, Idle, Closed, Opened

\* Triage buffers results for findings it read as "new".
LEMMA SerialTriage ==
  ASSUME TypeOK, NEW j \in Jobs, SerialJob(job[j]),
         UNCHANGED <<scans, status, verdicts, tickets>>,
         NEW f \in Findings, NEW a \in Adjudications, TriageFinding(j, f, a)
  PROVE  SerialJob(job[j])'
  <1>1. /\ SameOrders(j)
        /\ job'[j].todo = job[j].todo \ {f}
        /\ job'[j].pending = {f}
        /\ job'[j].target = TriagedStatus(a)
        /\ job'[j].writes = job[j].writes
        /\ job'[j].created = job[j].created
        /\ job'[j].drafts = job[j].drafts
        /\ job'[j].ticketWrites = job[j].ticketWrites
    BY TriageFindingRecord
  <1>2. job[j].kind = "triage" /\ job[j].pending = {} /\ f \in job[j].todo
    BY DEF TriageFinding
  <1>3. TriagedStatus(a) \in Results("triage")
    BY DEF TriagedStatus, Results
  <1>4. SerialRows(job[j])'
    BY <1>1, <1>2, <1>3 DEF SerialJob, SerialRows, AwaitsWrite, SameOrders
  <1>5. SerialGrounds(job[j])'
    BY <1>1, <1>2 DEF SerialJob, SerialGrounds, SameOrders, CleanIn, ReproducedIn
  <1>6. SerialTickets(job[j])'
    BY <1>1, <1>2 DEF SerialJob, SerialTickets, AwaitsWrite, SameOrders
  <1> QED BY <1>4, <1>5, <1>6 DEF SerialJob

\* Handling less of the work list changes nothing that was promised.
LEMMA SerialSkip ==
  ASSUME TypeOK, NEW j \in Jobs, SerialJob(job[j]),
         UNCHANGED <<scans, status, verdicts, tickets>>,
         \/ \E f \in Findings : \/ TriageSkip(j, f) \/ RouteSkip(j, f)
                                \/ RouteDraft(j, f) \/ RecheckSkip(j, f)
         \/ TriageCeiling(j)
  PROVE  SerialJob(job[j])'
  <1>1. /\ SameOrders(j)
        /\ job'[j].todo \subseteq job[j].todo
        /\ job'[j].pending = job[j].pending
        /\ job'[j].target = job[j].target
        /\ job'[j].writes = job[j].writes
        /\ job'[j].created = job[j].created
        /\ job'[j].drafts \subseteq job[j].drafts \cup job[j].todo
        /\ job'[j].ticketWrites = job[j].ticketWrites
    BY SkipRecord
  <1>2. SerialRows(job[j])'
    <2>1. \A f \in job'[j].drafts : status'[f] # "absent"
      <3>1. \A f \in job[j].todo : f \in Findings /\ status[f] = ReadAs(job[j].kind)
        BY DEF SerialJob, SerialRows, TypeOK, JobState
      <3> QED BY <1>1, <3>1 DEF SerialJob, SerialRows, ReadAs
    <2> QED BY <1>1, <2>1 DEF SerialJob, SerialRows, AwaitsWrite, SameOrders
  <1>3. SerialGrounds(job[j])'
    BY <1>1 DEF SerialJob, SerialGrounds, AwaitsWrite, SameOrders, CleanIn, ReproducedIn,
                FiledFor, LatestTruePositive, Latest, Cluster
  <1>4. SerialTickets(job[j])'
    BY <1>1 DEF SerialJob, SerialTickets, AwaitsWrite, SameOrders, TicketUpdate
  <1> QED BY <1>2, <1>3, <1>4 DEF SerialJob

\* Route buffers "routed" for the members of a group whose primary its level
\* files for, and touches the primary's ticket only.
LEMMA SerialRoute ==
  ASSUME TypeOK, NEW j \in Jobs, SerialJob(job[j]),
         UNCHANGED <<scans, status, verdicts, tickets>>, NEW f \in Findings,
         RouteFile(j, f) \/ \E i \in DOMAIN tickets[f] : RouteReopen(j, f, i)
  PROVE  SerialJob(job[j])'
  <1>1. /\ job[j].kind = "route" /\ job[j].pending = {} /\ f \in job[j].todo
        /\ FiledFor(job[j], f)
    BY DEF RouteFile, RouteReopen, RouteReady, IsPrimary, RouteAction, FiledFor
  <1>2. job[j] \in JobState
    BY DEF TypeOK
  <1>3. /\ SameOrders(j)
        /\ job'[j].todo = job[j].todo \ Cluster(f)
        /\ job'[j].pending = Group(j, f)
        /\ job'[j].target = "routed"
        /\ job'[j].writes = job[j].writes
        /\ job'[j].drafts = job[j].drafts
    <2>1. CASE RouteFile(j, f)
      BY <2>1, RouteFileRecord
    <2>2. CASE \E i \in DOMAIN tickets[f] : RouteReopen(j, f, i)
      BY <2>2, RouteReopenRecord
    <2> QED BY <2>1, <2>2
  <1>4. f \in Group(j, f) /\ Group(j, f) \subseteq job[j].todo
    BY <1>1 DEF Group, Cluster
  <1>5. \A g \in Group(j, f) : g \in Findings /\ f \in Cluster(g)
    BY DEF Group, Cluster
  <1>6. SerialRows(job[j])'
    BY <1>1, <1>3, <1>4 DEF SerialJob, SerialRows, AwaitsWrite, SameOrders, Results
  <1>7. SerialGrounds(job[j])'
    <2>1. \A p \in Findings : FiledFor(job[j], p) => FiledFor(job[j], p)'
      BY <1>3 DEF SameOrders, FiledFor, LatestTruePositive, Latest
    <2>2. ASSUME NEW g \in Findings, AwaitsWrite(job'[j], g)
          PROVE  \E p \in Cluster(g) : FiledFor(job[j], p)
      <3>1. CASE g \in Group(j, f)
        BY <1>1, <1>5, <3>1
      <3>2. CASE job[j].writes[g] # NoWrite
        BY <1>1, <3>2 DEF SerialJob, SerialGrounds, AwaitsWrite
      <3> QED BY <1>3, <2>2, <3>1, <3>2 DEF AwaitsWrite
    <2>3. ASSUME NEW g \in Findings, AwaitsWrite(job'[j], g)
          PROVE  \E p \in Cluster(g) : FiledFor(job[j], p)'
      BY <2>1, <2>2, <2>3 DEF Cluster
    <2>4. \A g \in Findings : /\ job'[j].writes[g] # "fixed"
                              /\ job'[j].writes[g] # "regressed"
      <3>1. NoWrite \notin {"fixed", "regressed"}
        BY ParametersAssumption DEF RowStatuses, Statuses
      <3> QED BY <1>1, <1>3, <3>1 DEF SerialJob, SerialRows, Results
    <2> QED BY <2>3, <2>4 DEF SerialGrounds, AwaitsWrite, Cluster
  <1>8. SerialTickets(job[j])'
    <2>1. \A g \in Findings \ {f} : /\ job'[j].created[g] = job[j].created[g]
                                    /\ job'[j].ticketWrites[g] = job[j].ticketWrites[g]
      <3>1. DOMAIN job[j].created = Findings /\ DOMAIN job[j].ticketWrites = Findings
        BY <1>2 DEF JobState
      <3>2. CASE RouteFile(j, f)
        <4>1. /\ job'[j].created = [job[j].created EXCEPT ![f] = filed[f] + 1]
              /\ job'[j].ticketWrites = job[j].ticketWrites
          BY <3>2, RouteFileRecord
        <4> QED BY <3>1, <4>1
      <3>3. CASE \E i \in DOMAIN tickets[f] : RouteReopen(j, f, i)
        <4>1. PICK i \in DOMAIN tickets[f] :
                /\ job'[j].created = job[j].created
                /\ job'[j].ticketWrites =
                     [job[j].ticketWrites EXCEPT ![f] = TicketUpdate(f, i, "open")]
          BY <3>3, RouteReopenRecord
        <4> QED BY <3>1, <4>1
      <3> QED BY <3>2, <3>3
    <2>2. job'[j].created[f] # 0 => tickets[f] = <<>>
      <3>1. CASE RouteFile(j, f)
        BY <3>1 DEF RouteFile
      <3>2. CASE \E i \in DOMAIN tickets[f] : RouteReopen(j, f, i)
        BY <3>2, RouteReopenRecord DEF SerialJob, SerialTickets
      <3> QED BY <3>1, <3>2
    <2>3. AwaitsWrite(job'[j], f)
      BY <1>3, <1>4 DEF AwaitsWrite
    <2>4. \A g \in Findings : AwaitsWrite(job[j], g) => AwaitsWrite(job'[j], g)
      BY <1>1, <1>3 DEF AwaitsWrite
    <2>5. job'[j].kind = "route"
      BY <1>1, <1>3 DEF SameOrders
    <2> QED
      BY <2>1, <2>2, <2>3, <2>4, <2>5 DEF SerialJob, SerialTickets, AwaitsWrite
  <1> QED BY <1>6, <1>7, <1>8 DEF SerialJob

\* The row update that was waiting is buffered.
LEMMA SerialMark ==
  ASSUME TypeOK, NEW j \in Jobs, SerialJob(job[j]),
         UNCHANGED <<scans, status, verdicts, tickets>>, MarkStatus(j)
  PROVE  SerialJob(job[j])'
  <1>1. /\ SameOrders(j)
        /\ job'[j].todo = job[j].todo
        /\ job'[j].pending = {}
        /\ job'[j].target = job[j].target
        /\ \A f \in Findings :
             job'[j].writes[f] = IF f \in job[j].pending THEN job[j].target
                                                         ELSE job[j].writes[f]
        /\ job'[j].created = job[j].created
        /\ job'[j].drafts = job[j].drafts
        /\ job'[j].ticketWrites = job[j].ticketWrites
    BY MarkStatusRecord
  <1>2. /\ job[j].pending # {} /\ job[j].target \in Results(job[j].kind)
        /\ job[j].kind # "recheck"
    BY DEF MarkStatus, SerialJob, SerialRows
  <1>3. job[j].target \in Statuses /\ job[j].kind \in {"idle", "triage", "route", "recheck"}
    BY DEF TypeOK, JobState
  <1>4. \A f \in Findings : AwaitsWrite(job'[j], f) <=> AwaitsWrite(job[j], f)
    BY <1>1, <1>3, ParametersAssumption DEF AwaitsWrite, RowStatuses
  <1>5. SerialRows(job[j])'
    <2>1. ASSUME NEW f \in Findings
          PROVE  /\ f \in job'[j].todo \/ AwaitsWrite(job'[j], f) =>
                      status'[f] = ReadAs(job'[j].kind)
                 /\ job'[j].writes[f] \in Results(job'[j].kind) \cup {NoWrite}
      BY <1>1, <1>2, <1>4 DEF SerialJob, SerialRows, SameOrders
    <2> QED BY <1>1, <1>2, <2>1 DEF SerialJob, SerialRows, SameOrders, AwaitsWrite
  <1>6. SerialGrounds(job[j])'
    <2>1. ASSUME NEW f \in Findings, job'[j].writes[f] \in {"fixed", "regressed"}
          PROVE  job'[j].writes[f] = job[j].writes[f]
      <3>1. f \notin job[j].pending
        BY <1>1, <1>2, <1>3, <2>1 DEF SerialJob, SerialRows, Results
      <3> QED BY <1>1, <3>1
    <2>2. \A p \in Findings : FiledFor(job[j], p) => FiledFor(job[j], p)'
      BY <1>1 DEF SameOrders, FiledFor, LatestTruePositive, Latest
    <2> QED BY <1>1, <1>4, <2>1, <2>2 DEF SerialJob, SerialGrounds, AwaitsWrite, SameOrders,
                                           CleanIn, ReproducedIn, Cluster
  <1>7. SerialTickets(job[j])'
    BY <1>1, <1>2, <1>4 DEF SerialJob, SerialTickets, AwaitsWrite, SameOrders
  <1> QED BY <1>5, <1>6, <1>7 DEF SerialJob

\* A recheck buffers what its scan shows of a finding that awaits proof, and
\* the ticket status that goes with it.
LEMMA SerialRecheck ==
  ASSUME TypeOK, OneTicket, NEW j \in Jobs, SerialJob(job[j]),
         UNCHANGED <<scans, status, verdicts, tickets>>, NEW f \in Findings,
         NEW i \in 0..Len(tickets[f]), RecheckFinding(j, f, i)
  PROVE  SerialJob(job[j])'
  <1> DEFINE result == RecheckedAs(j, f)
             w == TicketUpdate(f, i, TicketAfterRecheck(result))
  <1>1. /\ SameOrders(j)
        /\ job'[j].todo = job[j].todo \ {f}
        /\ job'[j].pending = job[j].pending
        /\ job'[j].target = job[j].target
        /\ job'[j].writes = [job[j].writes EXCEPT ![f] = result]
        /\ job'[j].created = job[j].created
        /\ job'[j].drafts = job[j].drafts
        /\ job'[j].ticketWrites = [job[j].ticketWrites EXCEPT ![f] = w]
    BY RecheckFindingRecord
  <1>2. /\ job[j].kind = "recheck" /\ f \in job[j].todo
        /\ f \in scans[job[j].scan].seen
        /\ result \in {"fixed", "regressed"}
        /\ IF tickets[f] = <<>> THEN i = 0 ELSE i \in DOMAIN tickets[f]
    BY DEF RecheckFinding, RecheckedAs
  <1>3. job[j] \in JobState
    BY DEF TypeOK
  <1>4. /\ job'[j].writes[f] = result /\ job'[j].ticketWrites[f] = w
        /\ \A g \in Findings \ {f} :
             /\ job'[j].writes[g] = job[j].writes[g]
             /\ job'[j].ticketWrites[g] = job[j].ticketWrites[g]
    <2> HIDE DEF result, w
    <2> QED BY <1>1, <1>3 DEF JobState
  <1>5. result \in Results("recheck") /\ result # NoWrite
    BY <1>2, ParametersAssumption DEF Results, RowStatuses, Statuses
  <1>6. tickets[f] # <<>> => w = TicketUpdate(f, 1, TicketAfterRecheck(result))
    <2>1. tickets[f] # <<>> => i = 1
      BY <1>2, OnlyTicket
    <2> QED BY <2>1
  <1>7. /\ result = "fixed" => CleanIn(job[j].scan, f)
        /\ result = "regressed" => ReproducedIn(job[j].scan, f)
    <2>1. job[j].scan \in DOMAIN scans
      BY DEF SerialJob, SerialRows
    <2>2. /\ result = "fixed" => f \notin scans[job[j].scan].reproducing
          /\ result = "regressed" => f \in scans[job[j].scan].reproducing
      BY DEF RecheckedAs, RecheckResult
    <2> QED BY <1>2, <2>1, <2>2 DEF CleanIn, ReproducedIn
  <1> HIDE DEF result, w
  <1>8. SerialRows(job[j])'
    <2>1. ASSUME NEW g \in Findings
          PROVE  /\ g \in job'[j].todo \/ AwaitsWrite(job'[j], g) =>
                      status'[g] = ReadAs(job'[j].kind)
                 /\ job'[j].writes[g] \in Results(job'[j].kind) \cup {NoWrite}
      <3>1. CASE g = f
        BY <1>1, <1>2, <1>4, <1>5, <3>1 DEF SerialJob, SerialRows, SameOrders
      <3>2. CASE g # f
        BY <1>1, <1>4, <3>2 DEF SerialJob, SerialRows, AwaitsWrite, SameOrders
      <3> QED BY <3>1, <3>2
    <2> QED BY <1>1, <2>1 DEF SerialJob, SerialRows, SameOrders, AwaitsWrite
  <1>9. SerialGrounds(job[j])'
    <2>1. ASSUME NEW g \in Findings
          PROVE  /\ job'[j].writes[g] = "fixed" => CleanIn(job[j].scan, g)
                 /\ job'[j].writes[g] = "regressed" => ReproducedIn(job[j].scan, g)
      BY <1>4, <1>7 DEF SerialJob, SerialGrounds
    <2> QED BY <1>1, <1>2, <2>1 DEF SerialGrounds, SameOrders, CleanIn, ReproducedIn
  <1>10. SerialTickets(job[j])'
    <2>1. ASSUME NEW g \in Findings
          PROVE  /\ job'[j].created[g] # 0 \/ job'[j].ticketWrites[g] # NoWrite =>
                      AwaitsWrite(job'[j], g)
                 /\ job'[j].created[g] = 0
                 /\ job'[j].writes[g] # NoWrite /\ tickets[g] # <<>> =>
                      job'[j].ticketWrites[g] =
                        TicketUpdate(g, 1, TicketAfterRecheck(job'[j].writes[g]))
      <3>1. job'[j].created[g] = 0
        BY <1>1, <1>2 DEF SerialJob, SerialTickets
      <3>2. CASE g = f
        BY <1>4, <1>5, <1>6, <3>1, <3>2 DEF AwaitsWrite
      <3>3. CASE g # f
        BY <1>1, <1>2, <1>4, <3>1, <3>3 DEF SerialJob, SerialTickets, AwaitsWrite
      <3> QED BY <3>2, <3>3
    <2> QED BY <2>1 DEF SerialTickets, AwaitsWrite, TicketUpdate
  <1> QED BY <1>8, <1>9, <1>10 DEF SerialJob

\* The Ticket row a recheck's commit leaves says what the recheck found.
LEMMA TicketAfterCommit ==
  ASSUME TypeOK, NEW f \in Findings, NEW d \in JobState, d.created[f] = 0,
         1 \in DOMAIN tickets[f]
  PROVE  /\ DOMAIN AfterTickets(f, d) = DOMAIN tickets[f]
         /\ d.ticketWrites[f] = NoWrite => AfterTickets(f, d)[1] = tickets[f][1]
         /\ \A st \in TicketStatuses : d.ticketWrites[f] = TicketUpdate(f, 1, st) =>
              AfterTickets(f, d)[1].status = st
  <1>1. AfterTickets(f, d) = [i \in DOMAIN tickets[f] |->
          IF d.ticketWrites[f] # NoWrite /\ d.ticketWrites[f].index = i
            THEN [tickets[f][i] EXCEPT !.status = d.ticketWrites[f].status]
            ELSE tickets[f][i]]
    BY DEF AfterTickets
  <1>2. tickets[f][1] \in Ticket
    BY DEF TypeOK
  <1>3. ASSUME NEW st \in TicketStatuses, d.ticketWrites[f] = TicketUpdate(f, 1, st)
        PROVE  AfterTickets(f, d)[1].status = st
    <2>1. CASE tickets[f][1].status = st
      <3>1. d.ticketWrites[f] = NoWrite
        BY <1>3, <2>1 DEF TicketUpdate
      <3> QED BY <1>1, <2>1, <3>1
    <2>2. CASE tickets[f][1].status # st
      <3>1. d.ticketWrites[f] = [index |-> 1, status |-> st]
        BY <1>3, <2>2 DEF TicketUpdate
      <3>2. d.ticketWrites[f] # NoWrite
        BY <3>1, ParametersAssumption
      <3>3. AfterTickets(f, d)[1] = [tickets[f][1] EXCEPT !.status = st]
        BY <1>1, <3>1, <3>2
      <3> QED BY <1>2, <3>3 DEF Ticket
    <2> QED BY <2>1, <2>2
  <1> QED BY <1>1, <1>3

\* A finding a command does not touch keeps its Ticket rows.
LEMMA TicketUntouched ==
  ASSUME TypeOK, NEW f \in Findings, NEW d \in JobState,
         d.created[f] = 0, d.ticketWrites[f] = NoWrite
  PROVE  AfterTickets(f, d) = tickets[f]
  <1> DEFINE updated == [i \in DOMAIN tickets[f] |->
        IF d.ticketWrites[f] # NoWrite /\ d.ticketWrites[f].index = i
          THEN [tickets[f][i] EXCEPT !.status = d.ticketWrites[f].status]
          ELSE tickets[f][i]]
  <1>1. AfterTickets(f, d) = updated
    BY DEF AfterTickets
  <1>2. \A i \in DOMAIN tickets[f] : updated[i] = tickets[f][i]
    OBVIOUS
  <1>3. updated = [i \in DOMAIN tickets[f] |-> updated[i]]
    OBVIOUS
  <1>4. tickets[f] = [i \in DOMAIN tickets[f] |-> tickets[f][i]]
    <2>1. tickets[f] \in [1..Len(tickets[f]) -> Ticket]
      BY LenProperties DEF TypeOK
    <2> QED BY <2>1
  <1> HIDE DEF updated
  <1> QED BY <1>1, <1>2, <1>3, <1>4

LEMMA SerialCommit ==
  ASSUME SerialInv, TypeOK', NEW j \in Jobs, Commit(j)
  PROVE  SerialInv'
  <1> DEFINE d == job[j]
  <1>1. /\ TypeOK /\ d \in JobState /\ d.kind # "idle" /\ d.pending = {}
        /\ SerialRows(d) /\ SerialTickets(d) /\ OneTicket /\ TicketTellsState
    BY DEF SerialInv, TypeOK, Commit, Idle, SerialJob
  <1>2. OthersKept(j) /\ job'[j] = Closed
    BY <1>1, CloseRecord
  <1>3. ASSUME NEW f \in Findings
        PROVE  /\ status'[f] = AfterWrite(status[f], d.writes[f])
               /\ tickets'[f] = AfterTickets(f, d)
    BY DEF Commit
  <1>4. ASSUME NEW f \in Findings
        PROVE  /\ Len(tickets'[f]) <= 1
               /\ tickets'[f] # <<>> => status'[f] \in PastTriage
               /\ tickets'[f] # <<>> =>
                    /\ status'[f] = "verification_pending" =>
                         tickets'[f][1].status = "pending_verification"
                    /\ status'[f] = "fixed" => tickets'[f][1].status = "closed"
                    /\ status'[f] = "regressed" =>
                         tickets'[f][1].status \in {"open", "escalated"}
    <2>1. CASE d.writes[f] = NoWrite
      <3>1. ~AwaitsWrite(d, f)
        BY <1>1, <2>1 DEF AwaitsWrite
      <3>2. d.created[f] = 0 /\ d.ticketWrites[f] = NoWrite
        BY <1>1, <3>1 DEF SerialTickets
      <3>3. tickets'[f] = tickets[f] /\ status'[f] = status[f]
        BY <1>1, <1>3, <2>1, <3>2, TicketUntouched DEF AfterWrite
      <3> QED BY <1>1, <3>3 DEF OneTicket, TicketTellsState
    <2>2. CASE d.writes[f] # NoWrite
      <3>1. /\ status[f] = ReadAs(d.kind) /\ status'[f] = d.writes[f]
            /\ d.writes[f] \in Results(d.kind)
        BY <1>1, <1>3, <2>2 DEF SerialRows, AwaitsWrite, AfterWrite
      <3>2. /\ Len(tickets[f]) \in Nat /\ tickets[f] \in Seq(Ticket)
            /\ (tickets[f] # <<>>) <=> Len(tickets[f]) > 0
            /\ Len(tickets'[f]) = IF d.created[f] = 0 THEN Len(tickets[f])
                                                      ELSE Len(tickets[f]) + 1
            /\ tickets'[f] \in Seq(Ticket)
            /\ (tickets'[f] # <<>>) <=> Len(tickets'[f]) > 0
        BY <1>1, <1>3, AfterTicketsKeys, NonEmpty DEF TypeOK
      <3>3. Len(tickets'[f]) <= 1
        BY <1>1, <3>2 DEF SerialTickets, OneTicket
      <3>4. CASE d.kind = "triage"
        <4>1. status[f] \notin PastTriage /\ d.created[f] = 0
          BY <1>1, <3>1, <3>4 DEF ReadAs, PastTriage, SerialTickets
        <4>2. tickets'[f] = <<>>
          BY <1>1, <3>2, <4>1 DEF OneTicket
        <4> QED BY <3>3, <4>2
      <3>5. CASE d.kind = "route"
        <4>1. status'[f] = "routed"
          BY <3>1, <3>5 DEF Results
        <4> QED BY <3>3, <4>1 DEF PastTriage
      <3>6. CASE d.kind = "recheck"
        <4>1. d.created[f] = 0 /\ status'[f] \in {"fixed", "regressed"}
          BY <1>1, <3>1, <3>6 DEF SerialTickets, Results
        <4>2. ASSUME tickets'[f] # <<>>
              PROVE  tickets'[f][1].status = TicketAfterRecheck(status'[f])
          <5>1. tickets[f] # <<>> /\ 1 \in DOMAIN tickets[f]
            BY <3>2, <4>1, <4>2, LenProperties
          <5>2. d.ticketWrites[f] = TicketUpdate(f, 1, TicketAfterRecheck(status'[f]))
            BY <1>1, <2>2, <3>1, <3>6, <5>1 DEF SerialTickets
          <5>3. TicketAfterRecheck(status'[f]) \in TicketStatuses
            BY DEF TicketAfterRecheck, TicketStatuses
          <5> QED BY <1>1, <1>3, <4>1, <5>1, <5>2, <5>3, TicketAfterCommit
        <4> QED BY <3>3, <4>1, <4>2 DEF TicketAfterRecheck, PastTriage
      <3> QED BY <1>1, <3>4, <3>5, <3>6 DEF JobState
    <2> QED BY <2>1, <2>2
  <1>5. OneTicket' /\ TicketTellsState' /\ DraftsRecorded'
    <2>1. ASSUME NEW f \in Findings, approvals'[f] # <<>>
          PROVE  status'[f] # "absent"
      <3>1. approvals[f] # <<>> \/ f \in d.drafts
        BY <2>1 DEF Commit
      <3>2. status[f] # "absent"
        BY <1>1, <3>1 DEF SerialInv, DraftsRecorded, SerialRows
      <3>3. d.writes[f] \in Statuses \cup {NoWrite} /\ "absent" \notin Statuses
        BY <1>1 DEF JobState, Statuses
      <3> QED BY <1>3, <3>2, <3>3 DEF AfterWrite
    <2> QED BY <1>4, <2>1 DEF OneTicket, TicketTellsState, DraftsRecorded
  <1>6. \A k \in Jobs \ {j} : job'[k] = Closed
    <2>1. \A k \in Jobs \ {j} : job[k] = Closed
      BY <1>1 DEF SerialInv, OneAtATime, Idle
    <2> QED BY <1>2, <2>1 DEF OthersKept
  <1>7. Closed.kind = "idle" /\ Closed' = Closed
    BY DEF Closed, Opened
  <1>8. \A k \in Jobs : job'[k] = Closed /\ job'[k].kind = "idle"
    BY <1>2, <1>6, <1>7
  <1> QED
    <2>1. OneAtATime'
      BY <1>8 DEF OneAtATime, Idle
    <2>2. \A k \in Jobs : IF Idle(k)' THEN job'[k] = Closed' ELSE SerialJob(job[k])'
      BY <1>7, <1>8 DEF Idle
    <2> QED BY <1>5, <2>1, <2>2 DEF SerialInv

\* A command that starts alone: what it has not read yet it has not promised.
LEMMA OpenedSerial ==
  ASSUME NEW kind \in {"triage", "route", "recheck"}, NEW s \in DOMAIN scans, NEW p,
         NEW T \in SUBSET Findings, \A f \in T : status[f] = ReadAs(kind)
  PROVE  SerialJob(Opened(kind, s, p, T))
  <1> DEFINE d == Opened(kind, s, p, T)
  <1>1. /\ d.kind = kind /\ d.scan = s /\ d.todo = T /\ d.pending = {} /\ d.drafts = {}
        /\ \A f \in Findings : /\ d.writes[f] = NoWrite /\ d.created[f] = 0
                               /\ d.ticketWrites[f] = NoWrite
    BY DEF Opened
  <1>2. NoWrite \notin {"fixed", "regressed"}
    BY ParametersAssumption DEF RowStatuses, Statuses
  <1> HIDE DEF d
  <1>3. SerialRows(d)
    BY <1>1 DEF SerialRows, AwaitsWrite
  <1>4. SerialGrounds(d)
    BY <1>1, <1>2 DEF SerialGrounds, AwaitsWrite
  <1>5. SerialTickets(d)
    BY <1>1 DEF SerialTickets
  <1> QED BY <1>3, <1>4, <1>5 DEF SerialJob, d

LEMMA SerialInit == Init => SerialInv
  <1> SUFFICES ASSUME Init PROVE SerialInv OBVIOUS
  <1>1. \A j \in Jobs : job[j] = Closed
    BY DEF Init
  <1>2. Closed.kind = "idle"
    BY DEF Closed, Opened
  <1>3. OneTicket /\ TicketTellsState /\ DraftsRecorded
    BY EmptySeq DEF Init, OneTicket, TicketTellsState, DraftsRecorded
  <1>4. OneAtATime
    BY <1>1, <1>2 DEF OneAtATime, Idle
  <1> QED BY <1>1, <1>2, <1>3, <1>4, InitType DEF SerialInv, Idle

\* The one open job takes a step.
LEMMA SerialJobStep ==
  ASSUME SerialInv, TypeOK', NEW j \in Jobs, JobStep(j)
  PROVE  SerialInv'
  <1>1. CASE Commit(j)
    BY <1>1, SerialCommit
  <1>2. CASE Abort(j)
    <2>1. ~Idle(j) /\ UNCHANGED <<status, approvals, tickets>>
      BY <1>2 DEF Abort, dbVars
    <2>2. OthersKept(j) /\ job'[j] = Closed
      BY <1>2, CloseRecord DEF SerialInv
    <2> QED BY <2>1, <2>2, SerialRecord
  <1>3. CASE ~Commit(j) /\ ~Abort(j)
    <2>1. UNCHANGED <<scans, status, approvals, verdicts, tickets>>
      BY <1>3, JobStepFrame
    <2>2. TypeOK /\ OneTicket /\ OthersKept(j)
      BY JobStepOrders DEF SerialInv
    <2>3. Closed.kind = "idle" /\ Closed.pending = {}
      BY DEF Closed, Opened
    <2>4. ~Idle(j)
      <3>1. Idle(j) => job[j].kind = "idle" /\ job[j].pending = {}
        BY <2>3 DEF SerialInv, Idle
      <3> QED BY <1>3, <3>1 DEF JobStep, TriageFinding, TriageSkip, TriageCeiling, RouteSkip,
                   RouteDraft, RouteFile, RouteReopen, RouteReady, MarkStatus, RecheckSkip,
                   RecheckFinding
    <2>5. SerialJob(job[j])
      BY <2>4 DEF SerialInv
    <2>6. SerialJob(job[j])'
      <3>1. CASE \E f \in Findings, a \in Adjudications : TriageFinding(j, f, a)
        BY <2>1, <2>2, <2>5, <3>1, SerialTriage
      <3>2. CASE \/ \E f \in Findings : \/ TriageSkip(j, f) \/ RouteSkip(j, f)
                                        \/ RouteDraft(j, f) \/ RecheckSkip(j, f)
                 \/ TriageCeiling(j)
        BY <2>1, <2>2, <2>5, <3>2, SerialSkip
      <3>3. CASE \E f \in Findings :
                   RouteFile(j, f) \/ \E i \in DOMAIN tickets[f] : RouteReopen(j, f, i)
        BY <2>1, <2>2, <2>5, <3>3, SerialRoute
      <3>4. CASE MarkStatus(j)
        BY <2>1, <2>2, <2>5, <3>4, SerialMark
      <3>5. CASE \E f \in Findings : \E i \in 0..Len(tickets[f]) : RecheckFinding(j, f, i)
        BY <2>1, <2>2, <2>5, <3>5, SerialRecheck
      <3> QED BY <1>3, <3>1, <3>2, <3>3, <3>4, <3>5 DEF JobStep
    <2> QED BY <2>1, <2>2, <2>4, <2>6, SerialRecord
  <1> QED BY <1>1, <1>2, <1>3

\* No command runs, and the step starts none.
LEMMA SerialQuiet ==
  ASSUME SerialInv, TypeOK', \A j \in Jobs : Idle(j), UNCHANGED job,
         OneTicket', TicketTellsState', DraftsRecorded'
  PROVE  SerialInv'
  <1>1. OneAtATime'
    BY DEF OneAtATime, Idle
  <1>2. \A j \in Jobs : job'[j].kind = "idle" /\ job'[j] = Closed
    BY DEF SerialInv, Idle
  <1> QED BY <1>1, <1>2 DEF SerialInv, Idle, Closed, Opened

\* A command that is one step, given while no other runs.
LEMMA SerialDetect ==
  ASSUME SerialInv, TypeOK', Overlap = FALSE,
         NEW s \in DOMAIN scans, NEW S \in SUBSET Findings, Detect(s, S)
  PROVE  SerialInv'
  <1>1. /\ \A j \in Jobs : Idle(j)
        /\ UNCHANGED <<approvals, tickets, job>>
    BY DEF Detect, MayStart
  <1>2. \A f \in Findings : status'[f] = status[f] \/ (status[f] = "absent" /\ status'[f] = "new")
    BY DEF Detect, UpsertStatus
  <1>3. OneTicket'
    BY <1>1, <1>2 DEF SerialInv, OneTicket, PastTriage
  <1>4. TicketTellsState'
    BY <1>1, <1>2 DEF SerialInv, TicketTellsState
  <1>5. DraftsRecorded'
    BY <1>1, <1>2 DEF SerialInv, DraftsRecorded
  <1> QED BY <1>1, <1>3, <1>4, <1>5, SerialQuiet

LEMMA SerialDecide ==
  ASSUME SerialInv, TypeOK', Overlap = FALSE, NEW f \in Findings,
         NEW i \in DOMAIN approvals[f], NEW approve \in BOOLEAN,
         DecideApproval(f, i, approve)
  PROVE  SerialInv'
  <1>1. /\ \A j \in Jobs : Idle(j)
        /\ UNCHANGED <<tickets, job>>
    BY DEF DecideApproval, MayStart
  <1>2. \A g \in Findings : status'[g] = status[g] \/ status'[g] = "routed"
    BY DEF DecideApproval, SerialInv, TypeOK
  <1>3. OneTicket'
    BY <1>1, <1>2 DEF SerialInv, OneTicket, PastTriage
  <1>4. TicketTellsState'
    BY <1>1, <1>2 DEF SerialInv, TicketTellsState
  <1>5. DraftsRecorded'
    <2>1. \A g \in Findings : approvals'[g] # <<>> => approvals[g] # <<>>
      <3>1. approvals[f] \in Seq(ApprovalStatuses)
        BY DEF SerialInv, TypeOK
      <3>2. approvals[f] # <<>>
        BY <3>1
      <3>3. \A g \in Findings \ {f} : approvals'[g] = approvals[g]
        BY DEF DecideApproval, SerialInv, TypeOK
      <3> QED BY <3>2, <3>3
    <2> QED BY <1>2, <2>1 DEF SerialInv, DraftsRecorded
  <1> QED BY <1>1, <1>3, <1>4, <1>5, SerialQuiet

LEMMA SerialClose ==
  ASSUME SerialInv, TypeOK', Overlap = FALSE, NEW f \in Findings,
         NEW i \in DOMAIN tickets[f], CloseTicket(f, i)
  PROVE  SerialInv'
  <1>1. /\ \A j \in Jobs : Idle(j)
        /\ UNCHANGED <<approvals, job>>
        /\ TypeOK
    BY DEF CloseTicket, MayStart, SerialInv
  <1>2. i = 1
    BY <1>1, OnlyTicket DEF SerialInv
  <1>3. \A g \in Findings \ {f} : status'[g] = status[g] /\ tickets'[g] = tickets[g]
    BY <1>1 DEF CloseTicket, TypeOK
  <1>4. status'[f] = "verification_pending"
    BY <1>1 DEF CloseTicket, TypeOK
  <1>5. DOMAIN tickets'[f] = DOMAIN tickets[f] /\ tickets'[f][1].status = "pending_verification"
    <2>1. tickets'[f] = [tickets[f] EXCEPT ![i] =
                           [tickets[f][i] EXCEPT !.status = "pending_verification"]]
      BY <1>1 DEF CloseTicket, TypeOK
    <2>2. tickets[f][i] \in Ticket
      BY <1>1 DEF TypeOK
    <2> QED BY <1>2, <2>1, <2>2 DEF Ticket
  <1>6. Len(tickets'[f]) = Len(tickets[f])
    BY <1>1, <1>5, LenProperties DEF TypeOK
  <1>7. OneTicket'
    BY <1>3, <1>4, <1>6 DEF SerialInv, OneTicket, PastTriage
  <1>8. TicketTellsState'
    BY <1>3, <1>4, <1>5 DEF SerialInv, TicketTellsState
  <1>9. DraftsRecorded'
    BY <1>1, <1>3, <1>4 DEF SerialInv, DraftsRecorded
  <1> QED BY <1>1, <1>7, <1>8, <1>9, SerialQuiet

LEMMA SerialEscalate ==
  ASSUME SerialInv, TypeOK', Overlap = FALSE, NEW O \in SUBSET Findings, Escalate(O)
  PROVE  SerialInv'
  <1>1. /\ \A j \in Jobs : Idle(j)
        /\ UNCHANGED <<status, approvals, job>>
        /\ TypeOK
    BY DEF Escalate, MayStart, SerialInv
  <1>2. ASSUME NEW f \in Findings
        PROVE  /\ Len(tickets'[f]) = Len(tickets[f])
               /\ tickets'[f] # <<>> => tickets[f] # <<>>
               /\ tickets[f] # <<>> =>
                    \/ tickets'[f][1].status = tickets[f][1].status
                    \/ tickets[f][1].status = "open" /\ tickets'[f][1].status = "escalated"
    <2>1. /\ tickets[f] \in Seq(Ticket) /\ tickets'[f] \in Seq(Ticket)
          /\ DOMAIN tickets'[f] = DOMAIN tickets[f]
      BY <1>1 DEF Escalate, TypeOK
    <2>2. /\ Len(tickets'[f]) = Len(tickets[f]) /\ Len(tickets[f]) \in Nat
          /\ DOMAIN tickets[f] = 1..Len(tickets[f])
          /\ (tickets[f] # <<>>) <=> Len(tickets[f]) > 0
          /\ (tickets'[f] # <<>>) <=> Len(tickets'[f]) > 0
      BY <2>1, LenProperties, NonEmpty
    <2>3. ASSUME tickets[f] # <<>>
          PROVE  \/ tickets'[f][1].status = tickets[f][1].status
                 \/ tickets[f][1].status = "open" /\ tickets'[f][1].status = "escalated"
      <3>1. 1 \in DOMAIN tickets[f] /\ tickets[f][1] \in Ticket
        BY <2>1, <2>2, <2>3
      <3>2. \/ tickets'[f][1] = tickets[f][1]
            \/ /\ tickets[f][1].status = "open"
               /\ tickets'[f][1] = [tickets[f][1] EXCEPT !.status = "escalated"]
        BY <3>1 DEF Escalate
      <3> QED BY <3>1, <3>2 DEF Ticket
    <2> QED BY <2>2, <2>3
  <1>3. OneTicket'
    BY <1>1, <1>2 DEF SerialInv, OneTicket
  <1>4. TicketTellsState'
    BY <1>1, <1>2 DEF SerialInv, TicketTellsState
  <1>5. DraftsRecorded'
    BY <1>1 DEF SerialInv, DraftsRecorded
  <1> QED BY <1>1, <1>3, <1>4, <1>5, SerialQuiet

LEMMA SerialBegin ==
  ASSUME SerialInv, TypeOK', Overlap = FALSE, NEW j \in Jobs, NEW s \in DOMAIN scans,
         BeginTriage(j, s) \/ BeginRoute(j, s) \/ BeginRecheck(j, s)
  PROVE  SerialInv'
  <1>1. /\ \A k \in Jobs : Idle(k)
        /\ UNCHANGED <<scans, dbVars, policy>>
        /\ TypeOK
    BY DEF BeginTriage, BeginRoute, BeginRecheck, MayStart, SerialInv
  <1>2. PICK kind \in {"triage", "route", "recheck"}, T \in SUBSET Findings :
          /\ OthersKept(j)
          /\ job'[j] = Opened(kind, s, policy, T)
          /\ \A f \in T : status[f] = ReadAs(kind)
    BY <1>1, BeginRecord
  <1>3. SerialJob(Opened(kind, s, policy, T))
    BY <1>2, OpenedSerial
  <1>4. SerialJob(job[j])'
    BY <1>1, <1>2, <1>3
       DEF SerialJob, SerialRows, SerialGrounds, SerialTickets, AwaitsWrite, CleanIn,
           ReproducedIn, FiledFor, LatestTruePositive, Latest, Cluster, TicketUpdate, dbVars
  <1>5. job'[j].kind # "idle"
    BY <1>2 DEF Opened
  <1>6. \A k \in Jobs \ {j} : job'[k] = Closed /\ job'[k].kind = "idle"
    BY <1>1, <1>2 DEF OthersKept, SerialInv, Idle
  <1>7. OneAtATime'
    BY <1>6 DEF OneAtATime, Idle
  <1>8. OneTicket' /\ TicketTellsState' /\ DraftsRecorded'
    BY <1>1 DEF SerialInv, OneTicket, TicketTellsState, DraftsRecorded, dbVars
  <1>9. \A k \in Jobs : IF Idle(k)' THEN job'[k] = Closed' ELSE SerialJob(job[k])'
    BY <1>4, <1>5, <1>6 DEF Idle, Closed, Opened
  <1> QED BY <1>7, <1>8, <1>9 DEF SerialInv

\* A scan completes, org-context is edited or a review is recorded: possible
\* at any time, and nothing a command relies on moves.
LEMMA SerialOutside ==
  ASSUME SerialInv, TypeOK', [Next]_vars,
         UNCHANGED <<status, approvals, verdicts, tickets, job>>
  PROVE  SerialInv'
  <1>1. TypeOK /\ OneAtATime' /\ OneTicket' /\ TicketTellsState' /\ DraftsRecorded'
    BY DEF SerialInv, OneAtATime, Idle, OneTicket, TicketTellsState, DraftsRecorded
  <1>2. ScansKept
    BY <1>1, ScansGrow DEF ScansKept
  <1>3. ASSUME NEW j \in Jobs, ~Idle(j)
        PROVE  SerialJob(job[j])'
    BY <1>2, <1>3, SerialUntouched DEF SerialInv
  <1> QED BY <1>1, <1>3 DEF SerialInv, Idle, Closed, Opened

LEMMA SerialNext ==
  ASSUME Overlap = FALSE
  PROVE  SerialInv /\ [Next]_vars => SerialInv'
  <1> SUFFICES ASSUME SerialInv, [Next]_vars PROVE SerialInv'
    OBVIOUS
  <1>1. TypeOK /\ TypeOK'
    BY NextType DEF SerialInv
  <1>2. CASE UNCHANGED vars \/ Environment \/ (\E f \in Findings, o \in ReviewOutcomes : Review(f, o))
    <2>1. UNCHANGED <<status, approvals, verdicts, tickets, job>>
      BY <1>2 DEF vars, dbVars, Environment, RunScan, EditPolicy, Review
    <2> QED BY <1>1, <2>1, SerialOutside
  <1>3. ASSUME NEW f \in Findings, NEW i \in DOMAIN approvals[f], NEW approve \in BOOLEAN,
               DecideApproval(f, i, approve)
        PROVE  SerialInv'
    BY <1>1, <1>3, SerialDecide
  <1>4. ASSUME NEW f \in Findings, NEW i \in DOMAIN tickets[f], CloseTicket(f, i)
        PROVE  SerialInv'
    BY <1>1, <1>4, SerialClose
  <1>5. ASSUME NEW s \in DOMAIN scans, NEW S \in SUBSET Findings, Detect(s, S)
        PROVE  SerialInv'
    BY <1>1, <1>5, SerialDetect
  <1>6. ASSUME NEW j \in Jobs, NEW s \in DOMAIN scans,
               BeginTriage(j, s) \/ BeginRoute(j, s) \/ BeginRecheck(j, s)
        PROVE  SerialInv'
    BY <1>1, <1>6, SerialBegin
  <1>7. ASSUME NEW O \in SUBSET Findings, Escalate(O) PROVE SerialInv'
    BY <1>1, <1>7, SerialEscalate
  <1>8. ASSUME NEW j \in Jobs, JobStep(j) PROVE SerialInv'
    BY <1>1, <1>8, SerialJobStep
  <1> QED BY <1>2, <1>3, <1>4, <1>5, <1>6, <1>7, <1>8 DEF Next, Operator, Pipeline

\* One command at a time, for every deployment: whatever scans complete, levels
\* are edited and commands abort in between, a finding has one Ticket row at most,
\* which awaits proof with it, is closed with it and is reopened with it.
THEOREM TicketsMirrorFindings ==
  ASSUME Overlap = FALSE
  PROVE  Spec => []TicketMirrorsFinding
  <1>1. SerialInv => TicketMirrorsFinding
    BY DEF SerialInv, OneTicket, OneTicketRow, TicketMirrorsFinding
  <1>2. SerialInv /\ [Next]_vars => SerialInv'
    BY SerialNext
  <1> QED BY SerialInit, <1>1, <1>2, PTL DEF Spec

-----------------------------------------------------------------------------
(* One command at a time, the commands implement ClosureContract *)

LEMMA PhaseFacts ==
  ASSUME NEW x, x \in RowStatuses
  PROVE  /\ PhaseOf(x) = "unrecorded" <=> x = "absent"
         /\ x \in {"new", "triaging", "triaged"} => PhaseOf(x) = "assessed"
         /\ x = "verification_pending" <=> PhaseOf(x) = "awaiting_proof"
         /\ x \in {"routed", "fixed", "regressed"} => PhaseOf(x) = x
  BY DEF PhaseOf, RowStatuses, Statuses

PhasesNow == [f \in Findings |-> PhaseOf(status[f])]

LEMMA ContractStarts == Init => Contract!ContractInit
  BY DEF Init, PhaseOf, Contract!ContractInit

\* A commit publishes nothing the contract sees (triage), routes what was
\* assessed (route), or proves on its scan (recheck).
LEMMA ContractCommit ==
  ASSUME SerialInv, NEW j \in Jobs, Commit(j)
  PROVE  Contract!ContractNext \/ PhasesNow' = PhasesNow
  <1> DEFINE d == job[j]
             W == {f \in Findings : d.writes[f] # NoWrite}
  <1>1. /\ TypeOK /\ d \in JobState /\ d.kind # "idle"
        /\ SerialRows(d) /\ SerialGrounds(d)
    BY DEF SerialInv, TypeOK, Commit, Idle, SerialJob
  <1>2. UNCHANGED scans
    BY DEF Commit
  <1>3. /\ \A f \in Findings \ W : status'[f] = status[f]
        /\ \A f \in W : /\ status'[f] = d.writes[f] /\ status[f] = ReadAs(d.kind)
                        /\ d.writes[f] \in Results(d.kind)
    BY <1>1 DEF Commit, AfterWrite, SerialRows, AwaitsWrite
  <1>4. \A f \in Findings : status[f] \in RowStatuses
    BY <1>1 DEF TypeOK
  <1>5. CASE d.kind = "triage"
    <2>1. \A f \in Findings : PhaseOf(status'[f]) = PhaseOf(status[f])
      BY <1>3, <1>5 DEF ReadAs, Results, PhaseOf
    <2> QED BY <2>1 DEF PhasesNow
  <1>6. CASE d.kind = "route"
    <2>1. \A f \in W : PhaseOf(status[f]) = "assessed" /\ PhaseOf(status'[f]) = "routed"
      BY <1>3, <1>6 DEF ReadAs, Results, PhaseOf
    <2>2. PhasesNow' = [f \in Findings |-> IF f \in W THEN "routed" ELSE PhaseOf(status[f])]
      BY <1>3, <2>1 DEF PhasesNow
    <2>3. Contract!RouteTo(W)
      BY <1>2, <2>1, <2>2 DEF Contract!RouteTo, Contract!MoveTo, PhasesNow
    <2> QED BY <2>3 DEF Contract!ContractNext
  <1>7. CASE d.kind = "recheck"
    <2> DEFINE F == {f \in Findings : d.writes[f] = "fixed"}
               R == {f \in Findings : d.writes[f] = "regressed"}
    <2>1. NoWrite \notin {"fixed", "regressed"}
      BY ParametersAssumption DEF RowStatuses, Statuses
    <2>2. W = F \cup R
      BY <1>3, <1>7, <2>1 DEF Results
    <2>3. \A f \in F \cup R : PhaseOf(status[f]) = "awaiting_proof"
      BY <1>3, <1>7, <2>2 DEF ReadAs, PhaseOf
    <2>4. /\ d.scan \in DOMAIN scans
          /\ \A f \in F : f \in scans[d.scan].seen \ scans[d.scan].reproducing
          /\ \A f \in R : f \in scans[d.scan].seen \cap scans[d.scan].reproducing
      BY <1>1 DEF SerialRows, SerialGrounds, CleanIn, ReproducedIn
    <2>5. PhasesNow' = [f \in Findings |-> IF f \in F THEN "fixed"
                                           ELSE IF f \in R THEN "regressed"
                                           ELSE PhaseOf(status[f])]
      <3>1. \A f \in Findings : PhaseOf(status'[f]) =
              IF f \in F THEN "fixed" ELSE IF f \in R THEN "regressed" ELSE PhaseOf(status[f])
        <4>1. \A f \in F \cup R : status'[f] = d.writes[f]
          BY <1>3, <2>2
        <4>2. \A f \in Findings \ (F \cup R) : status'[f] = status[f]
          BY <1>3, <2>2
        <4> QED BY <4>1, <4>2 DEF PhaseOf
      <3> QED BY <3>1 DEF PhasesNow
    <2>6. Contract!Prove(d.scan, F, R)
      BY <1>2, <2>3, <2>4, <2>5 DEF Contract!Prove, PhasesNow
    <2> QED BY <2>4, <2>6 DEF Contract!ContractNext
  <1> QED BY <1>1, <1>5, <1>6, <1>7 DEF JobState

LEMMA ContractStep ==
  ASSUME Overlap = FALSE, SerialInv, [Next]_vars
  PROVE  Contract!ContractNext \/ (PhasesNow' = PhasesNow /\ UNCHANGED scans)
  <1>1. TypeOK
    BY DEF SerialInv
  <1>2. \A f \in Findings : status[f] \in RowStatuses
    BY <1>1 DEF TypeOK
  <1>3. UNCHANGED status => PhasesNow' = PhasesNow
    BY DEF PhasesNow
  <1>4. ASSUME NEW result \in ScanResults, RunScan(result)
        PROVE  Contract!ContractNext
    <2>1. PhasesNow' = PhasesNow
      BY <1>3, <1>4 DEF RunScan, dbVars
    <2>2. Contract!Observe(result)
      BY <1>4, <2>1 DEF RunScan, Contract!Observe, PhasesNow
    <2>3. result \in Contract!Observation
      BY ParametersAssumption DEF ScanResult, Contract!Observation
    <2> QED BY <2>2, <2>3 DEF Contract!ContractNext
  <1>5. CASE UNCHANGED <<scans, status>>
    BY <1>3, <1>5
  <1>6. ASSUME NEW s \in DOMAIN scans, NEW S \in SUBSET Findings, Detect(s, S)
        PROVE  Contract!ContractNext
    <2> DEFINE N == {f \in S : status[f] = "absent"}
    <2>1. \A f \in N : f \in Findings /\ PhaseOf(status[f]) = "unrecorded"
      BY DEF PhaseOf
    <2>2. /\ UNCHANGED scans
          /\ \A f \in Findings : PhaseOf(status'[f]) =
               IF f \in N THEN "assessed" ELSE PhaseOf(status[f])
      BY <1>6 DEF Detect, UpsertStatus, PhaseOf
    <2>3. PhasesNow' = [f \in Findings |-> IF f \in N THEN "assessed" ELSE PhaseOf(status[f])]
      BY <2>2 DEF PhasesNow
    <2>4. Contract!Record(N)
      BY <2>1, <2>2, <2>3 DEF Contract!Record, Contract!MoveTo, PhasesNow
    <2>5. N \in SUBSET Findings
      OBVIOUS
    <2> HIDE DEF N
    <2> QED BY <2>4, <2>5 DEF Contract!ContractNext
  <1>7. ASSUME NEW f \in Findings, NEW i \in DOMAIN approvals[f], NEW approve \in BOOLEAN,
               DecideApproval(f, i, approve)
        PROVE  Contract!ContractNext \/ (PhasesNow' = PhasesNow /\ UNCHANGED scans)
    <2>1. UNCHANGED scans
      BY <1>7 DEF DecideApproval
    <2>2. CASE ~approve
      BY <1>3, <1>7, <2>1, <2>2 DEF DecideApproval
    <2>3. CASE approve
      <3>1. approvals[f] # <<>>
        BY <1>1 DEF TypeOK
      <3>2. PhaseOf(status[f]) # "unrecorded"
        BY <1>2, <3>1, PhaseFacts DEF SerialInv, DraftsRecorded
      <3>3. \A g \in Findings : PhaseOf(status'[g]) =
              IF g \in {f} THEN "routed" ELSE PhaseOf(status[g])
        BY <1>1, <1>7, <2>3 DEF DecideApproval, TypeOK, PhaseOf
      <3>4. PhasesNow' = [g \in Findings |-> IF g \in {f} THEN "routed" ELSE PhaseOf(status[g])]
        BY <3>3 DEF PhasesNow
      <3>5. Contract!RouteTo({f})
        BY <2>1, <3>2, <3>4 DEF Contract!RouteTo, Contract!MoveTo, PhasesNow
      <3> QED BY <3>5 DEF Contract!ContractNext
    <2> QED BY <2>2, <2>3
  <1>8. ASSUME NEW f \in Findings, NEW i \in DOMAIN tickets[f], CloseTicket(f, i)
        PROVE  Contract!ContractNext
    <2>1. tickets[f] # <<>>
      BY <1>1 DEF TypeOK
    <2>2. PhaseOf(status[f]) # "unrecorded"
      BY <1>2, <2>1, PhaseFacts DEF SerialInv, OneTicket, PastTriage
    <2>3. /\ UNCHANGED scans
          /\ \A g \in Findings : PhaseOf(status'[g]) =
               IF g \in {f} THEN "awaiting_proof" ELSE PhaseOf(status[g])
      BY <1>1, <1>8 DEF CloseTicket, TypeOK, PhaseOf
    <2>4. PhasesNow' = [g \in Findings |-> IF g \in {f} THEN "awaiting_proof"
                                                        ELSE PhaseOf(status[g])]
      BY <2>3 DEF PhasesNow
    <2>5. Contract!AskForProof(f)
      BY <2>2, <2>3, <2>4 DEF Contract!AskForProof, Contract!MoveTo, PhasesNow
    <2> QED BY <2>5 DEF Contract!ContractNext
  <1>9. ASSUME NEW j \in Jobs, JobStep(j)
        PROVE  Contract!ContractNext \/ (PhasesNow' = PhasesNow /\ UNCHANGED scans)
    <2>1. CASE Commit(j)
      BY <2>1, ContractCommit DEF Commit
    <2>2. CASE ~Commit(j)
      BY <1>3, <1>9, <2>2, JobStepFrame
    <2> QED BY <2>1, <2>2
  <1>10. CASE UNCHANGED vars
    BY <1>5, <1>10 DEF vars, dbVars
  <1>11. CASE Environment
    <2>1. ASSUME NEW c \in Categories, NEW p \in Policies, EditPolicy(c, p)
          PROVE  UNCHANGED <<scans, status>>
      BY <2>1 DEF EditPolicy, dbVars
    <2> QED BY <1>4, <1>5, <1>11, <2>1 DEF Environment
  <1>12. CASE Operator
    <2>1. ASSUME NEW f \in Findings, NEW o \in ReviewOutcomes, Review(f, o)
          PROVE  UNCHANGED <<scans, status>>
      BY <2>1 DEF Review
    <2> QED BY <1>5, <1>7, <1>8, <1>12, <2>1 DEF Operator
  <1>13. CASE Pipeline
    <2>1. CASE \E j \in Jobs, s \in DOMAIN scans :
                 BeginTriage(j, s) \/ BeginRoute(j, s) \/ BeginRecheck(j, s)
      BY <1>5, <2>1 DEF BeginTriage, BeginRoute, BeginRecheck, dbVars
    <2>2. CASE \E O \in SUBSET Findings : Escalate(O)
      BY <1>5, <2>2 DEF Escalate
    <2> QED BY <1>6, <1>9, <1>13, <2>1, <2>2 DEF Pipeline
  <1> QED BY <1>10, <1>11, <1>12, <1>13 DEF Next

\* One command at a time, for every deployment: the commands implement the
\* closure contract.  A finding leaves "verification_pending" for "fixed" only
\* on a scan that saw its asset and did not reproduce it, for "regressed" only
\* on one that did, and both are reached in no other way.
THEOREM ContractKept ==
  ASSUME Overlap = FALSE
  PROVE  Spec => KeepsClosureContract
  <1>1. SerialInv /\ [Next]_vars => SerialInv'
    BY SerialNext
  <1>2. SerialInv /\ [Next]_vars => [Contract!ContractNext]_(Contract!contractVars)
    BY ContractStep DEF Contract!contractVars, PhasesNow
  <1> QED BY SerialInit, ContractStarts, <1>1, <1>2, PTL
          DEF Spec, KeepsClosureContract, Contract!ContractSpec

-----------------------------------------------------------------------------
(* One command at a time, the autonomy level is what lets findings through *)

\* A finding leaves triage by an approval, or by a route run whose primary in
\* the finding's cluster had the verdict and the level that file.
LEMMA EntersHow ==
  ASSUME Overlap = FALSE, SerialInv, [Next]_vars, NEW f \in Findings, Enters(f)
  PROVE  \/ ApprovedNext(f)
         \/ \E j \in Jobs : /\ job[j].kind = "route" /\ job[j].writes[f] = "routed"
                            /\ job[j] \in JobState
                            /\ \E p \in Cluster(f) : FiledFor(job[j], p)
  <1>1. TypeOK /\ status'[f] # status[f]
    BY DEF SerialInv, Enters
  <1>2. ASSUME NEW g \in Findings, NEW i \in DOMAIN approvals[g], NEW approve \in BOOLEAN,
               DecideApproval(g, i, approve)
        PROVE  ApprovedNext(f)
    <2>1. g = f /\ approve
      BY <1>1, <1>2 DEF DecideApproval, TypeOK
    <2>2. approvals'[f] = [approvals[f] EXCEPT ![i] = "approved"]
      BY <1>1, <1>2, <2>1 DEF DecideApproval, TypeOK
    <2>3. i \in DOMAIN approvals'[f] /\ approvals'[f][i] = "approved"
      BY <1>2, <2>1, <2>2
    <2> QED BY <2>3 DEF ApprovedNext
  <1>3. ASSUME NEW g \in Findings, NEW i \in DOMAIN tickets[g], CloseTicket(g, i)
        PROVE  FALSE
    <2>1. g = f
      BY <1>1, <1>3 DEF CloseTicket, TypeOK
    <2>2. tickets[f] # <<>>
      BY <1>1, <1>3, <2>1 DEF TypeOK
    <2> QED BY <2>2 DEF SerialInv, OneTicket, Enters
  <1>4. ASSUME NEW s \in DOMAIN scans, NEW S \in SUBSET Findings, Detect(s, S)
        PROVE  FALSE
    BY <1>1, <1>4 DEF Detect, UpsertStatus, Enters, PastTriage
  <1>5. ASSUME NEW j \in Jobs, JobStep(j)
        PROVE  /\ job[j].kind = "route" /\ job[j].writes[f] = "routed"
               /\ job[j] \in JobState
               /\ \E p \in Cluster(f) : FiledFor(job[j], p)
    <2>1. Commit(j)
      BY <1>1, <1>5, JobStepFrame
    <2>2. /\ job[j] \in JobState /\ job[j].kind # "idle"
          /\ SerialRows(job[j]) /\ SerialGrounds(job[j])
      BY <1>1, <2>1 DEF SerialInv, TypeOK, Commit, Idle, SerialJob
    <2>3. job[j].writes[f] # NoWrite /\ status'[f] = job[j].writes[f]
      BY <1>1, <2>1 DEF Commit, AfterWrite
    <2>4. status[f] = ReadAs(job[j].kind) /\ status'[f] \in Results(job[j].kind)
      BY <2>2, <2>3 DEF SerialRows, AwaitsWrite
    <2>5. job[j].kind = "route"
      BY <2>2, <2>4 DEF JobState, Enters, PastTriage, ReadAs, Results
    <2>6. job[j].writes[f] = "routed"
      BY <2>3, <2>4, <2>5 DEF Results
    <2> QED BY <2>2, <2>3, <2>5, <2>6 DEF SerialGrounds, AwaitsWrite
  <1>6. CASE UNCHANGED vars \/ Environment
    BY <1>1, <1>6 DEF vars, dbVars, Environment, RunScan, EditPolicy
  <1>7. CASE \/ \E g \in Findings, o \in ReviewOutcomes : Review(g, o)
             \/ \E j \in Jobs, s \in DOMAIN scans :
                  BeginTriage(j, s) \/ BeginRoute(j, s) \/ BeginRecheck(j, s)
             \/ \E O \in SUBSET Findings : Escalate(O)
    BY <1>1, <1>7 DEF Review, BeginTriage, BeginRoute, BeginRecheck, Escalate, dbVars
  <1> QED BY <1>2, <1>3, <1>4, <1>5, <1>6, <1>7 DEF Next, Operator, Pipeline

\* What the ladder files without a human.
LEMMA AutoFiles ==
  ASSUME NEW level \in 0..3, NEW severity \in Severities,
         DecideAction(level, severity) = "auto_file"
  PROVE  level \in {2, 3} /\ (severity = "high" => level = 3)
  BY DEF DecideAction, Severities

LEMMA LevelOfFiled ==
  ASSUME TypeOK, NEW d \in JobState, NEW f \in Findings, NEW p \in Cluster(f), FiledFor(d, p)
  PROVE  /\ d.policy[CategoryOf[f]].level \in {2, 3}
         /\ Latest(p).severity = "high" => d.policy[CategoryOf[f]].level = 3
  <1>1. p \in Findings /\ CategoryOf[p] = CategoryOf[f] /\ CategoryOf[f] \in Categories
    BY ClusterAssumption, ParametersAssumption DEF Cluster
  <1>2. d.policy[CategoryOf[f]].level \in 0..3
    BY <1>1, ParametersAssumption DEF JobState, Policy
  <1>3. Latest(p).severity \in Severities
    <2>1. verdicts[p] \in Seq(Verdict) /\ verdicts[p] # <<>>
      BY <1>1 DEF TypeOK, FiledFor, LatestTruePositive
    <2>2. Len(verdicts[p]) \in DOMAIN verdicts[p]
      BY <2>1, NonEmpty, LenProperties
    <2>3. Latest(p) \in Verdict
      BY <2>1, <2>2 DEF Latest
    <2> QED BY <2>3 DEF Verdict
  <1>4. DecideAction(d.policy[CategoryOf[f]].level, Latest(p).severity) = "auto_file"
    BY <1>1 DEF FiledFor
  <1> QED BY <1>2, <1>3, <1>4, AutoFiles

\* One command at a time, for every deployment: without an approval of its own
\* a finding leaves triage only by a route run that read level 2 or 3, whatever
\* the level was edited to meanwhile.
THEOREM ApprovalGateKept ==
  ASSUME Overlap = FALSE
  PROVE  Spec => ApprovalGate
  <1>1. SerialInv /\ [Next]_vars => SerialInv'
    BY SerialNext
  <1>2. SerialInv /\ [Next]_vars =>
          [\A f \in Findings : Enters(f) => ApprovedNext(f) \/ RoutedAt(f, {2, 3})]_vars
    <2> SUFFICES ASSUME SerialInv, [Next]_vars, NEW f \in Findings, Enters(f), ~ApprovedNext(f)
                 PROVE  RoutedAt(f, {2, 3})
      OBVIOUS
    <2>1. PICK j \in Jobs : /\ job[j].kind = "route" /\ job[j].writes[f] = "routed"
                            /\ job[j] \in JobState
                            /\ \E p \in Cluster(f) : FiledFor(job[j], p)
      BY EntersHow
    <2>2. job[j].policy[CategoryOf[f]].level \in {2, 3}
      BY <2>1, LevelOfFiled DEF SerialInv
    <2> QED BY <2>1, <2>2 DEF RoutedAt
  <1> QED BY SerialInit, <1>1, <1>2, PTL DEF Spec, ApprovalGate

\* One command at a time, for every deployment: a finding whose cluster has
\* high or critical latest verdicts only leaves triage by an approval of its
\* own or by a route run that read level 3.
THEOREM HighSeverityIsHeld ==
  ASSUME Overlap = FALSE
  PROVE  Spec => HighSeverityHeld
  <1>1. SerialInv /\ [Next]_vars => SerialInv'
    BY SerialNext
  <1>2. SerialInv /\ [Next]_vars =>
          [\A f \in Findings :
             Enters(f) /\ ClusterIsHigh(f) => ApprovedNext(f) \/ RoutedAt(f, {3})]_vars
    <2> SUFFICES ASSUME SerialInv, [Next]_vars, NEW f \in Findings, Enters(f),
                        ClusterIsHigh(f), ~ApprovedNext(f)
                 PROVE  RoutedAt(f, {3})
      OBVIOUS
    <2>1. PICK j \in Jobs : /\ job[j].kind = "route" /\ job[j].writes[f] = "routed"
                            /\ job[j] \in JobState
                            /\ \E p \in Cluster(f) : FiledFor(job[j], p)
      BY EntersHow
    <2>2. PICK p \in Cluster(f) : FiledFor(job[j], p)
      BY <2>1
    <2>3. Latest(p).severity = "high"
      BY <2>2 DEF ClusterIsHigh, FiledFor, LatestTruePositive
    <2>4. job[j].policy[CategoryOf[f]].level = 3
      BY <2>1, <2>2, <2>3, LevelOfFiled DEF SerialInv
    <2> QED BY <2>1, <2>4 DEF RoutedAt
  <1> QED BY SerialInit, <1>1, <1>2, PTL DEF Spec, HighSeverityHeld

===============================================================================
