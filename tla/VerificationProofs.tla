-------------------------- MODULE VerificationProofs --------------------------
(***************************************************************************)
(* Theorems about Verification for every set of organizations, rows and    *)
(* requests: who is probed and on whose word, that no request goes         *)
(* unanswered, and the pace.                                               *)
(***************************************************************************)
EXTENDS Verification, FiniteSetTheorems, SequenceTheorems, TLAPS

-----------------------------------------------------------------------------
(* What the invariants are made of *)

RunFields ==
  {"phase", "number", "org", "cliActive", "began", "allowed", "lists", "seeds",
   "round", "queue", "done", "deadline", "last"}

Building == {"reading_seeds", "reading_exclusions"}
Working == {"checking", "pacing", "probing"}

SeedRow ==
  [org : Slugs, kind : SeedKinds, value : {f.value : f \in SeedForms},
   action : {f.action : f \in SeedForms}, added : Nat, disabled : Nat]
ExclusionRow ==
  [org : Slugs \cup {NoOrg}, kind : SeedKinds, value : {f.value : f \in ExclusionForms},
   added : Nat]
OrgRow == [slug : Slugs, relationship : Relationships, active : BOOLEAN]

\* Rows are dated by the edits that made them, a slug is one organization's, and
\* no third party may be scanned.
RowsSound ==
  /\ edits \in 0..MaxEdits /\ now \in 0..MaxClock /\ triages \in 0..MaxTriages
  /\ orgs \subseteq OrgRow
  /\ \A o \in orgs : o.relationship = "third_party" => ~o.active
  /\ \A o, q \in orgs : o.slug = q.slug => o = q
  /\ seeds \subseteq SeedRow
  /\ \A s \in seeds : /\ WellFormed(s) /\ s.added \in 1..edits
                      /\ s.disabled \in {NotDisabled} \cup (s.added + 1)..edits
  /\ exclusions \subseteq ExclusionRow
  /\ \A e \in exclusions : WellFormed(e) /\ e.added \in 1..edits

Requests == UNION {Range(requests) : requests \in Asked}

QueueSound ==
  /\ run.queue \in Seq(Requests) /\ Len(run.queue) <= MaxToolCalls
  /\ run.done \in 0..Len(run.queue)
  /\ run.phase \in Working => run.done < Len(run.queue) /\ run.round > 0
  /\ run.phase \in Building \cup {"asking"} => run.done = Len(run.queue)

RunSound ==
  \/ run = Idle
  \/ /\ DOMAIN run = RunFields
     /\ run.phase \in Building \cup Working \cup {"asking", "concluded"}
     /\ run.number = triages /\ triages > 0
     /\ run.org \in Slugs \cup {NoOrg}
     /\ run.began \in 0..edits
     /\ run.round \in 0..MaxRounds
     /\ QueueSound

TypeInv == RowsSound /\ RunSound

-----------------------------------------------------------------------------
(* Type correctness *)

LEMMA Constants ==
  /\ MaxToolCalls \in Nat /\ MaxRounds \in Nat /\ Interval \in Nat /\ Timeout \in Nat
  /\ MaxEdits \in Nat /\ MaxTriages \in Nat /\ MaxClock \in Nat /\ MaxToolCalls > 0
  BY VerificationAssumption

LEMMA MinOfTwo ==
  ASSUME NEW a \in Nat, NEW b \in Nat
  PROVE  Min({a, b}) \in {a, b} /\ Min({a, b}) <= a /\ Min({a, b}) <= b
  BY DEF Min

\* The first requests of a round, no more than the cap.
LEMMA Slice ==
  ASSUME NEW requests \in Asked,
         NEW q, q = SubSeq(requests, 1, Min({MaxToolCalls, Len(requests)}))
  PROVE  q \in Seq(Requests) /\ Len(q) \in 1..MaxToolCalls
  <1>1. requests \in Seq(Requests) /\ requests # <<>>
    <2>1. requests \in Seq(Range(requests)) /\ requests # <<>>
      BY FormsAssumption
    <2>2. Range(requests) \subseteq Requests
      BY DEF Requests
    <2> QED BY <2>1, <2>2, SeqMonotonic, Zenon
  <1>2. Len(requests) \in Nat /\ Len(requests) > 0
    BY <1>1, EmptySeq
  <1> DEFINE n == Min({MaxToolCalls, Len(requests)})
  <1>3. n \in {MaxToolCalls, Len(requests)} /\ n <= MaxToolCalls /\ n <= Len(requests)
    BY <1>2, MinOfTwo, Constants
  <1>5. n \in Nat /\ n > 0 /\ n \in 1..Len(requests)
    BY <1>2, <1>3, Constants
  <1> HIDE DEF n
  <1>4. q \in Seq(Requests) /\ Len(q) = n
    <2>1. \A i \in 1..n : requests[i] \in Requests
      BY <1>1, <1>2, <1>5, ElementOfSeq
    <2>2. SubSeq(requests, 1, n) \in Seq(Requests) /\ Len(SubSeq(requests, 1, n)) = n
      BY <2>1, <1>5, SubSeqProperties
    <2>3. q = SubSeq(requests, 1, n)
      BY DEF n
    <2> QED BY <2>2, <2>3
  <1>6. n \in 1..MaxToolCalls
    BY <1>3, <1>5, Constants
  <1> QED BY <1>4, <1>6

LEMMA Fields ==
  ASSUME RunSound, run.phase # "idle"
  PROVE  /\ DOMAIN run = RunFields
         /\ run.phase \in Building \cup Working \cup {"asking", "concluded"}
         /\ run.number = triages /\ triages > 0
         /\ run.org \in Slugs \cup {NoOrg}
         /\ run.began \in 0..edits
         /\ run.round \in 0..MaxRounds
         /\ QueueSound
  BY DEF RunSound, Idle

\* An edit keeps the rows sound.
LEMMA AdministerTypes ==
  ASSUME RowsSound, Administer
  PROVE  RowsSound' /\ edits' = edits + 1 /\ edits \in Nat
         /\ UNCHANGED <<scope, now, triages, run, history>>
  <1>0. edits \in 0..MaxEdits /\ edits + 1 \in Nat /\ NotDisabled = 0
    BY Constants DEF RowsSound, NotDisabled
  <1>1. ASSUME NEW slug \in Slugs, NEW r \in Relationships, NEW a \in BOOLEAN,
               CreateOrg(slug, r, a)
        PROVE  RowsSound' /\ edits' = edits + 1 /\ UNCHANGED <<scope, now, triages, run, history>>
    <2> DEFINE o == [slug |-> slug, relationship |-> r, active |-> a]
    <2>1. o \in OrgRow /\ o.slug = slug /\ (o.relationship = "third_party" => ~o.active)
      BY <1>1 DEF CreateOrg, OrgRow
    <2>2. orgs' = orgs \cup {o} /\ edits' = edits + 1 /\ edits < MaxEdits
          /\ UNCHANGED <<seeds, exclusions, scope, now, triages, run, history>>
          /\ \A q \in orgs : q.slug # slug
      BY <1>1 DEF CreateOrg, Edit, OnlyRows
    <2> HIDE DEF o
    <2>3. orgs' \subseteq OrgRow /\ (\A p \in orgs' : p.relationship = "third_party" => ~p.active)
          /\ (\A p, q \in orgs' : p.slug = q.slug => p = q)
      BY <2>1, <2>2 DEF RowsSound
    <2>4. edits' \in 0..MaxEdits /\ UNCHANGED <<now, triages, seeds, exclusions>>
      BY <2>2, <1>0, Constants
    <2>5. \A s \in seeds' : /\ WellFormed(s) /\ s.added \in 1..edits'
                            /\ s.disabled \in {NotDisabled} \cup (s.added + 1)..edits'
      BY <2>2, <1>0 DEF RowsSound
    <2>6. \A e \in exclusions' : WellFormed(e) /\ e.added \in 1..edits'
      BY <2>2, <1>0 DEF RowsSound
    <2> QED BY <2>2, <2>3, <2>4, <2>5, <2>6 DEF RowsSound
  <1>2. ASSUME NEW org \in orgs, NEW form \in SeedForms, AddSeed(org, form)
        PROVE  RowsSound' /\ edits' = edits + 1 /\ UNCHANGED <<scope, now, triages, run, history>>
    <2> DEFINE n == [org |-> org.slug, kind |-> form.kind, value |-> form.value,
                     action |-> form.action, added |-> edits', disabled |-> NotDisabled]
    <2>1. seeds' = seeds \cup {n} /\ edits' = edits + 1 /\ edits < MaxEdits
          /\ UNCHANGED <<orgs, exclusions, scope, now, triages, run, history>>
      BY <1>2 DEF AddSeed, Edit, OnlyRows
    <2>2. org.slug \in Slugs /\ WellFormed(form) /\ form.kind \in SeedKinds
      BY FormsAssumption DEF RowsSound, OrgRow, WellFormed
    <2>3. n \in SeedRow /\ n.added = edits + 1 /\ n.disabled = 0 /\ n.kind = form.kind
          /\ n.value = form.value
      BY <2>1, <2>2, <1>0 DEF SeedRow
    <2> HIDE DEF n
    <2>4. WellFormed(n)
      BY <2>2, <2>3 DEF WellFormed
    <2>5. edits' \in 0..MaxEdits /\ UNCHANGED <<now, triages, orgs, exclusions>>
      BY <2>1, <1>0, Constants
    <2>6. \A s \in seeds' : /\ WellFormed(s) /\ s.added \in 1..edits'
                            /\ s.disabled \in {NotDisabled} \cup (s.added + 1)..edits'
      BY <2>1, <2>3, <2>4, <1>0 DEF RowsSound
    <2>7. \A e \in exclusions' : WellFormed(e) /\ e.added \in 1..edits'
      BY <2>1, <1>0 DEF RowsSound
    <2>8. seeds' \subseteq SeedRow
      BY <2>1, <2>3 DEF RowsSound
    <2> QED BY <2>1, <2>5, <2>6, <2>7, <2>8 DEF RowsSound
  <1>3. ASSUME NEW seed \in seeds, seed.disabled = NotDisabled, DisableSeed(seed)
        PROVE  RowsSound' /\ edits' = edits + 1 /\ UNCHANGED <<scope, now, triages, run, history>>
    <2> DEFINE n == [seed EXCEPT !.disabled = edits']
    <2>1. seeds' = (seeds \ {seed}) \cup {n} /\ edits' = edits + 1 /\ edits < MaxEdits
          /\ UNCHANGED <<orgs, exclusions, scope, now, triages, run, history>>
      BY <1>3 DEF DisableSeed, Edit, OnlyRows
    <2>2. seed \in SeedRow /\ WellFormed(seed) /\ seed.added \in 1..edits
      BY DEF RowsSound
    <2>3. n \in SeedRow /\ n.added = seed.added /\ n.disabled = edits + 1 /\ n.kind = seed.kind
          /\ n.value = seed.value
      BY <2>1, <2>2, <1>0 DEF SeedRow
    <2> HIDE DEF n
    <2>4. WellFormed(n)
      BY <2>2, <2>3 DEF WellFormed
    <2>5. edits' \in 0..MaxEdits /\ UNCHANGED <<now, triages, orgs, exclusions>>
      BY <2>1, <1>0, Constants
    <2>6. \A s \in seeds' : /\ WellFormed(s) /\ s.added \in 1..edits'
                            /\ s.disabled \in {NotDisabled} \cup (s.added + 1)..edits'
      BY <2>1, <2>2, <2>3, <2>4, <1>0 DEF RowsSound
    <2>7. \A e \in exclusions' : WellFormed(e) /\ e.added \in 1..edits'
      BY <2>1, <1>0 DEF RowsSound
    <2>8. seeds' \subseteq SeedRow
      BY <2>1, <2>3 DEF RowsSound
    <2> QED BY <2>1, <2>5, <2>6, <2>7, <2>8 DEF RowsSound
  <1>4. ASSUME NEW org \in Slugs \cup {NoOrg}, NEW form \in ExclusionForms, AddExclusion(org, form)
        PROVE  RowsSound' /\ edits' = edits + 1 /\ UNCHANGED <<scope, now, triages, run, history>>
    <2> DEFINE n == [org |-> org, kind |-> form.kind, value |-> form.value, added |-> edits']
    <2>1. exclusions' = exclusions \cup {n} /\ edits' = edits + 1 /\ edits < MaxEdits
          /\ UNCHANGED <<orgs, seeds, scope, now, triages, run, history>>
      BY <1>4 DEF AddExclusion, Edit, OnlyRows
    <2>2. WellFormed(form) /\ form.kind \in SeedKinds
      BY FormsAssumption DEF WellFormed
    <2>3. n \in ExclusionRow /\ n.added = edits + 1 /\ n.kind = form.kind /\ n.value = form.value
      BY <2>1, <2>2, <1>0 DEF ExclusionRow
    <2> HIDE DEF n
    <2>4. WellFormed(n)
      BY <2>2, <2>3 DEF WellFormed
    <2>5. edits' \in 0..MaxEdits /\ UNCHANGED <<now, triages, orgs, seeds>>
      BY <2>1, <1>0, Constants
    <2>6. \A s \in seeds' : /\ WellFormed(s) /\ s.added \in 1..edits'
                            /\ s.disabled \in {NotDisabled} \cup (s.added + 1)..edits'
      BY <2>1, <1>0 DEF RowsSound
    <2>7. \A e \in exclusions' : WellFormed(e) /\ e.added \in 1..edits'
      BY <2>1, <2>3, <2>4, <1>0 DEF RowsSound
    <2>8. exclusions' \subseteq ExclusionRow
      BY <2>1, <2>3 DEF RowsSound
    <2> QED BY <2>1, <2>5, <2>6, <2>7, <2>8 DEF RowsSound
  <1>5. {o.slug : o \in orgs} \subseteq Slugs
    BY DEF RowsSound, OrgRow
  <1> QED BY <1>0, <1>1, <1>2, <1>3, <1>4, <1>5 DEF Administer


\* A step of the run keeps the run sound; between them no row of an
\* administrator changes.
LEMMA SameRows ==
  ASSUME RowsSound, UNCHANGED administered, now' \in 0..MaxClock, triages' \in 0..MaxTriages
  PROVE  RowsSound'
  <1>1. UNCHANGED <<orgs, seeds, exclusions, edits>>
    BY DEF administered
  <1> QED BY <1>1 DEF RowsSound

LEMMA BeginTypes ==
  ASSUME TypeInv, NEW slug, NEW flag \in BOOLEAN, Begin(slug, flag)
  PROVE  TypeInv'
  <1>0. triages \in 0..MaxTriages /\ triages < MaxTriages /\ triages' = triages + 1
        /\ edits \in 0..MaxEdits
    BY DEF TypeInv, RowsSound, Begin
  <1>1. RowsSound' /\ edits' = edits
    <2>1. UNCHANGED administered /\ now' = now
      BY DEF Begin
    <2>2. triages' \in 0..MaxTriages
      BY <1>0, Constants
    <2> QED BY <2>1, <2>2, SameRows DEF TypeInv, RowsSound, administered
  <1>2. ASSUME NEW p \in {"asking", "reading_seeds"}, NEW org, NEW lists, slug \in Slugs \cup {NoOrg},
               run' = Started(slug, flag, p, org, lists)
        PROVE  RunSound'
    <2>0. run' = Started(slug, flag, p, org, lists)
      BY <1>2
    <2>1. DOMAIN run' = RunFields /\ run'.phase = p /\ run'.number = triages + 1
          /\ run'.org = slug /\ run'.began = edits /\ run'.round = 0
      BY <2>0 DEF Started, RunFields
    <2>2. run'.queue = <<>> /\ run'.done = 0
      BY <2>0 DEF Started
    <2>3. run'.queue \in Seq(Requests) /\ Len(run'.queue) = 0
      <3>1. <<>> \in Seq(Requests) /\ Len(<<>>) = 0
        BY EmptySeq
      <3> QED BY <3>1, <2>2, Zenon
    <2>4. p \notin Working /\ p \in Building \cup {"asking"}
      BY <1>2 DEF Working, Building
    <2>5. QueueSound'
      BY <2>1, <2>2, <2>3, <2>4, Constants DEF QueueSound
    <2>6. run'.org \in Slugs \cup {NoOrg} /\ run'.began \in 0..edits'
      BY <2>1, <1>0, <1>1, <1>2
    <2>7. run'.number = triages' /\ triages' > 0 /\ run'.round \in 0..MaxRounds
      BY <2>1, <1>0, Constants
    <2> QED BY <2>1, <2>4, <2>5, <2>6, <2>7 DEF RunSound
  <1>3. CASE slug = NoOrg
    BY <1>1, <1>2, <1>3 DEF Begin, TypeInv
  <1>4. CASE slug # NoOrg
    <2>1. PICK o \in orgs : o.slug = slug /\ run' = Started(slug, flag, "reading_seeds", {o.active}, NoLists)
      BY <1>4 DEF Begin
    <2>2. slug \in Slugs
      BY <2>1 DEF TypeInv, RowsSound, OrgRow
    <2> QED BY <1>1, <1>2, <2>1, <2>2 DEF TypeInv
  <1> QED BY <1>1, <1>3, <1>4 DEF TypeInv

LEMMA ReadTypes ==
  ASSUME TypeInv, ReadSeeds \/ ReadExclusions \/ Conclude
  PROVE  TypeInv'
  <1>1. RowsSound'
    BY DEF TypeInv, RowsSound, ReadSeeds, ReadExclusions, Conclude, OnlyRun, administered, history
  <1>2. run.phase # "idle" /\ UNCHANGED <<triages, edits>>
    BY DEF ReadSeeds, ReadExclusions, Conclude, OnlyRun, administered
  <1>3. /\ DOMAIN run = RunFields /\ run.number = triages /\ triages > 0
        /\ run.org \in Slugs \cup {NoOrg} /\ run.began \in 0..edits /\ run.round \in 0..MaxRounds
        /\ QueueSound
    BY <1>2, Fields DEF TypeInv
  <1>4. /\ DOMAIN run' = RunFields /\ run'.number = run.number /\ run'.org = run.org
        /\ run'.began = run.began /\ run'.round = run.round /\ run'.queue = run.queue
        /\ run'.done = run.done
        /\ run'.phase \in {"reading_exclusions", "asking", "concluded"}
        /\ run'.phase = "asking" => run.phase = "reading_exclusions"
    BY <1>3 DEF ReadSeeds, ReadExclusions, Conclude, RunFields
  <1>5. QueueSound'
    BY <1>3, <1>4, <1>2 DEF QueueSound, Building, Working, ReadExclusions, ReadSeeds, Conclude
  <1> QED BY <1>1, <1>2, <1>3, <1>4, <1>5 DEF RunSound, TypeInv, Building

\* What the requests of a round leave alone.
Steady ==
  /\ DOMAIN run' = RunFields
  /\ run'.number = run.number /\ run'.org = run.org /\ run'.began = run.began
  /\ run'.allowed = run.allowed /\ run'.lists = run.lists /\ run'.cliActive = run.cliActive

LEMMA AskFields ==
  ASSUME TypeInv, NEW requests \in Asked, Ask(requests)
  PROVE  /\ Steady
         /\ run.phase = "asking" /\ run'.phase = "checking" /\ run'.round = run.round + 1
         /\ run'.round \in 1..MaxRounds
         /\ run'.done = 0 /\ run'.last = run.last
         /\ run'.queue \in Seq(Requests) /\ Len(run'.queue) \in 1..MaxToolCalls
  <1>1. run.phase = "asking" /\ run.round < MaxRounds
    BY DEF Ask
  <1>2. DOMAIN run = RunFields /\ run.round \in 0..MaxRounds
    BY <1>1, Fields DEF TypeInv
  <1> DEFINE q == SubSeq(requests, 1, Min({MaxToolCalls, Len(requests)}))
  <1>3. q \in Seq(Requests) /\ Len(q) \in 1..MaxToolCalls
    BY Slice
  <1>4. run' = [run EXCEPT !.phase = "checking", !.round = @ + 1, !.done = 0, !.queue = q]
    BY DEF Ask
  <1> HIDE DEF q
  <1>5. Steady /\ run'.phase = "checking" /\ run'.round = run.round + 1 /\ run'.done = 0
        /\ run'.last = run.last /\ run'.queue = q
    BY <1>2, <1>4 DEF RunFields, Steady
  <1> QED BY <1>1, <1>2, <1>3, <1>5, Constants

LEMMA AdvanceFields ==
  ASSUME TypeInv, run.phase \in Working, Advance
  PROVE  /\ Steady
         /\ run'.phase = NextPhase /\ run'.round = run.round /\ run'.queue = run.queue
         /\ run'.done = run.done + 1 /\ run'.last = run.last
         /\ run'.phase \in {"asking", "checking"}
         /\ run'.done \in 1..Len(run.queue)
         /\ run'.phase = "asking" <=> run'.done = Len(run.queue)
  <1>1. DOMAIN run = RunFields /\ QueueSound
    BY Fields DEF TypeInv, Working
  <1>2. Len(run.queue) \in Nat /\ run.done \in 0..Len(run.queue) /\ run.done < Len(run.queue)
    BY <1>1, LenProperties DEF QueueSound
  <1>3. Steady /\ run'.phase = NextPhase /\ run'.round = run.round /\ run'.queue = run.queue
        /\ run'.done = run.done + 1 /\ run'.last = run.last
    BY <1>1 DEF Advance, RunFields, Steady
  <1> QED BY <1>2, <1>3 DEF NextPhase

LEMMA CheckFields ==
  ASSUME TypeInv, Check
  PROVE  /\ Steady
         /\ run.phase = "checking" /\ run'.round = run.round /\ run'.queue = run.queue
         /\ run'.last = run.last
         /\ \/ /\ Decision = "allow" /\ evidence' = evidence
               /\ run'.phase = "pacing" /\ run'.done = run.done
            \/ /\ Decision # "allow" /\ Advance /\ Record("denied")
  <1>1. DOMAIN run = RunFields /\ run.phase = "checking"
    BY Fields DEF TypeInv, Check
  <1>2. CASE Decision = "allow"
    BY <1>1, <1>2 DEF Check, RunFields, Steady
  <1>3. CASE Decision # "allow"
    BY <1>1, <1>3, AdvanceFields DEF Check, Working
  <1> QED BY <1>2, <1>3

LEMMA SendFields ==
  ASSUME TypeInv, Send
  PROVE  /\ Steady
         /\ run.phase = "pacing" /\ run'.phase = "probing"
         /\ run'.round = run.round /\ run'.queue = run.queue /\ run'.done = run.done
         /\ run'.last = Remembered(Text(Request))
  <1>1. DOMAIN run = RunFields /\ run.phase = "pacing"
    BY Fields DEF TypeInv, Send
  <1> QED BY <1>1 DEF Send, RunFields, Steady

\* Any step of a round keeps the types.
LEMMA RoundTypes ==
  ASSUME TypeInv, run.phase # "idle", UNCHANGED <<administered, now, triages>>, Steady,
         run'.round \in 0..MaxRounds, QueueSound',
         run'.phase \in Working \cup {"asking"}
  PROVE  TypeInv'
  <1>1. RowsSound'
    BY DEF TypeInv, RowsSound, administered
  <1>2. RunSound'
    BY Fields DEF TypeInv, RunSound, administered, Steady
  <1> QED BY <1>1, <1>2 DEF TypeInv

LEMMA RequestTypes ==
  ASSUME TypeInv,
         \/ \E requests \in Asked : Ask(requests)
         \/ Reject \/ Check \/ Send
         \/ \E going \in Goings : Answered(going)
  PROVE  TypeInv'
  <1>0. UNCHANGED <<administered, now, triages>>
    BY DEF Ask, Reject, Check, Send, Answered, OnlyRun
  <1>1. ASSUME NEW requests \in Asked, Ask(requests)
        PROVE  TypeInv'
    <2>1. QueueSound' /\ run'.round \in 0..MaxRounds
      BY <1>1, AskFields DEF QueueSound, Building, Working
    <2> QED BY <2>1, <1>0, <1>1, AskFields, RoundTypes DEF Working
  <1>2. ASSUME run.phase \in Working, Advance
        PROVE  TypeInv'
    <2>1. run.phase # "idle" /\ QueueSound /\ run.round \in 0..MaxRounds
      BY <1>2, Fields DEF TypeInv, Working
    <2>2. QueueSound'
      BY <2>1, <1>2, AdvanceFields, LenProperties DEF QueueSound, Building, Working
    <2> QED BY <2>1, <2>2, <1>0, <1>2, AdvanceFields, RoundTypes DEF Working
  <1>3. CASE Reject
    BY <1>2, <1>3 DEF Reject, Working
  <1>4. CASE Check
    <2>1. run.phase # "idle" /\ QueueSound /\ run.round \in 0..MaxRounds
      BY <1>4, Fields DEF TypeInv, Check
    <2>2. CASE Decision = "allow"
      <3>1. QueueSound' /\ run'.phase = "pacing"
        BY <2>1, <2>2, <1>4, CheckFields DEF QueueSound, Building, Working
      <3> QED BY <3>1, <2>1, <1>0, <1>4, CheckFields, RoundTypes DEF Working
    <2>3. CASE Decision # "allow"
      BY <2>3, <1>2, <1>4, CheckFields DEF Working
    <2> QED BY <2>2, <2>3
  <1>5. CASE Send
    <2>1. run.phase # "idle" /\ QueueSound /\ run.round \in 0..MaxRounds
      BY <1>5, Fields DEF TypeInv, Send
    <2>2. QueueSound'
      BY <2>1, <1>5, SendFields DEF QueueSound, Building, Working
    <2> QED BY <2>1, <2>2, <1>0, <1>5, SendFields, RoundTypes DEF Working
  <1>6. ASSUME NEW going \in Goings, Answered(going)
        PROVE  TypeInv'
    BY <1>2, <1>6 DEF Answered, Working
  <1> QED BY <1>1, <1>3, <1>4, <1>5, <1>6

LEMMA OtherTypes ==
  ASSUME TypeInv, Tick \/ Commit \/ Abort \/ UNCHANGED vars
  PROVE  TypeInv'
  <1>1. RowsSound'
    BY Constants DEF TypeInv, RowsSound, Tick, Commit, Abort, administered, vars
  <1>2. ASSUME Tick \/ UNCHANGED vars PROVE RunSound'
    BY <1>2 DEF TypeInv, RunSound, QueueSound, Tick, administered, vars
  <1>3. ASSUME Commit \/ Abort PROVE RunSound'
    BY <1>3 DEF RunSound, Commit, Abort
  <1> QED BY <1>1, <1>2, <1>3 DEF TypeInv

LEMMA InitTypes == Init => TypeInv
  BY Constants DEF Init, TypeInv, RowsSound, RunSound

LEMMA StepTypes == TypeInv /\ [Next]_vars => TypeInv'
  <1> SUFFICES ASSUME TypeInv, [Next]_vars PROVE TypeInv'
    OBVIOUS
  <1>1. CASE Administer
    <2>1. RowsSound' /\ edits' = edits + 1 /\ edits \in Nat /\ UNCHANGED <<run, triages>>
      BY <1>1, AdministerTypes DEF TypeInv
    <2>2. RunSound'
      BY <2>1 DEF TypeInv, RunSound, QueueSound
    <2> QED BY <2>1, <2>2 DEF TypeInv
  <1>2. ASSUME NEW slug \in Slugs \cup {NoOrg}, NEW flag \in BOOLEAN, Begin(slug, flag)
        PROVE  TypeInv'
    BY <1>2, BeginTypes
  <1>3. CASE ReadSeeds \/ ReadExclusions \/ Conclude
    BY <1>3, ReadTypes
  <1>4. CASE \/ \E requests \in Asked : Ask(requests)
             \/ Reject \/ Check \/ Send
             \/ \E going \in Goings : Answered(going)
    BY <1>4, RequestTypes
  <1>5. CASE Tick \/ Commit \/ Abort \/ UNCHANGED vars
    BY <1>5, OtherTypes
  <1> QED BY <1>1, <1>2, <1>3, <1>4, <1>5 DEF Next

LEMMA TypesHold == TypeInv => TypeOK
  <1> SUFFICES ASSUME TypeInv PROVE TypeOK
    OBVIOUS
  <1>1. CASE run = Idle
    BY <1>1 DEF TypeInv, RowsSound, TypeOK, Idle, OrgRow, SeedRow, ExclusionRow
  <1>2. CASE run # Idle
    <2>1. /\ run.phase \in Building \cup Working \cup {"asking", "concluded"}
          /\ run.round \in 0..MaxRounds
          /\ QueueSound
      BY <1>2 DEF TypeInv, RunSound
    <2>2. run.done \in 0..MaxToolCalls /\ Len(run.queue) <= MaxToolCalls
      BY <2>1, LenProperties, Constants DEF QueueSound
    <2> QED BY <2>1, <2>2 DEF TypeInv, RowsSound, TypeOK, OrgRow, SeedRow, ExclusionRow, Building, Working
  <1> QED BY <1>1, <1>2

THEOREM VerificationInvariant == Spec => []TypeInv
  BY InitTypes, StepTypes, PTL DEF Spec

\* Rows and the run under way are what they are declared to be: a seed is
\* disabled after it was added, a round stays within its calls (verify/executor.py).
THEOREM VerificationTypes == Spec => []TypeOK
  BY VerificationInvariant, TypesHold, PTL

-----------------------------------------------------------------------------
(* Who is probed, and on whose word *)

\* The rows an organization's run must have read, and those it may have.
Standing(org, began) ==
  {s \in seeds : s.org = org /\ s.added <= began /\ s.disabled = NotDisabled}
Lasting(org, began) ==
  {s \in seeds : s.org = org /\ (s.disabled = NotDisabled \/ s.disabled > began)}
Before(org, began) == {e \in exclusions : e.org \in {org, NoOrg} /\ e.added <= began}

\* The kinds whose entries join the guard's names.
VouchedFor == Hostnames \cup {"wildcard", "url"}

SameWords(r, s) == r.kind = s.kind /\ r.value = s.value /\ r.action = s.action
Enforced == SeedKinds \ (Unenforceable \cup {"asn"})

SeedsRead ==
  /\ Standing(run.org, run.began) \subseteq run.seeds
  /\ \A r \in run.seeds : \E s \in Lasting(run.org, run.began) : SameWords(r, s)

\* Each entry of the guard's lists comes from a file or a row, and no exclusion
\* is missing.
ListsSound ==
  /\ \A e \in run.lists.names :
       \/ e \in scope.lists.names
       \/ \E s \in Lasting(run.org, run.began) :
            s.action = "include" /\ s.kind \in VouchedFor /\ e = EntryOf(s)
  /\ \A e \in run.lists.accounts :
       \/ e \in scope.lists.accounts
       \/ \E s \in Lasting(run.org, run.began) :
            s.action = "include" /\ s.kind = "cloud_account" /\ e = s.value
  /\ scope.lists.exclude \subseteq run.lists.exclude
  /\ \A s \in Standing(run.org, run.began) :
       s.action # "include" /\ s.kind \in Enforced => EntryOf(s) \in run.lists.exclude
  /\ run.org # NoOrg =>
       \A e \in Before(run.org, run.began) :
         e.kind \in VouchedFor \cup {"ip", "cidr"} => EntryOf(e) \in run.lists.exclude

\* A target whose host, as the guard reads it, somebody vouched for and nobody
\* excluded.
TargetSound(org, began, target) ==
  LET host == ExtractHost(target) IN
  /\ scope.active /\ scope.attestation
  /\ \/ Names(scope.lists, target)
     \/ \E s \in Lasting(org, began) :
          /\ s.action = "include" /\ s.kind \notin {"ip", "cidr"}
          /\ \/ Speaks(s, host)
             \/ s.kind = "cloud_account" /\ MatchesCloudAccount(target, {s.value})
  /\ ~Excludes(scope.lists, host)
  /\ \A s \in Standing(org, began) : s.action = "exclude" => ~Speaks(s, host)
  /\ org # NoOrg => /\ \A e \in Before(org, began) : ~Speaks(e, host)
                    /\ \E o \in orgs : o.slug = org /\ o.active

GuardSound ==
  /\ scope \in Scopes
  /\ run.phase # "idle" =>
       /\ run.org # NoOrg => \E o \in orgs : o.slug = run.org /\ run.allowed = {o.active}
       /\ run.phase = "reading_exclusions" => SeedsRead
       /\ run.phase \notin Building => ListsSound
       /\ run.phase = "pacing" => TargetSound(run.org, run.began, Target(Request))

ProbesSound ==
  \A p \in probes :
    /\ p.org \in Slugs \cup {NoOrg} /\ p.began \in 0..edits
    /\ TargetSound(p.org, p.began, Target(p.request))

ScopeInv == TypeInv /\ GuardSound /\ ProbesSound

LEMMA SameSpeech ==
  ASSUME NEW r, NEW s, r.kind = s.kind, r.value = s.value
  PROVE  /\ EntryOf(r) = EntryOf(s)
         /\ \A host : Speaks(r, host) <=> Speaks(s, host)
  BY DEF EntryOf, Speaks

\* What is vouched for stays, and what stood is all that counts, whatever is
\* edited later.
LEMMA RowsLast ==
  ASSUME RowsSound, Administer \/ UNCHANGED administered,
         NEW org \in Slugs \cup {NoOrg}, NEW began \in 0..edits
  PROVE  /\ Standing(org, began)' \subseteq Standing(org, began)
         /\ Before(org, began)' \subseteq Before(org, began)
         /\ \A s \in Lasting(org, began) : \E t \in Lasting(org, began)' : SameWords(s, t)
         /\ orgs \subseteq orgs'
  <1>0. edits \in Nat /\ began \in Nat /\ began <= edits /\ NotDisabled = 0
        /\ seeds \subseteq SeedRow
    BY DEF RowsSound, NotDisabled
  <1>1. CASE UNCHANGED administered
    BY <1>1 DEF administered, Standing, Before, Lasting, SameWords
  <1>2. ASSUME NEW slug \in Slugs, NEW r \in Relationships, NEW a \in BOOLEAN,
               CreateOrg(slug, r, a)
        PROVE  /\ UNCHANGED <<seeds, exclusions>> /\ orgs \subseteq orgs'
    BY <1>2 DEF CreateOrg
  <1>3. ASSUME NEW q \in orgs, NEW form \in SeedForms, AddSeed(q, form)
        PROVE  /\ UNCHANGED <<orgs, exclusions>> /\ seeds \subseteq seeds'
               /\ \A s \in seeds' \ seeds : s.added > began
    BY <1>0, <1>3 DEF AddSeed, Edit
  <1>4. ASSUME NEW seed \in seeds, seed.disabled = NotDisabled, DisableSeed(seed)
        PROVE  \E n : /\ seeds' = (seeds \ {seed}) \cup {n}
                      /\ SameWords(seed, n) /\ n.org = seed.org /\ n.disabled > began
                      /\ n.disabled # NotDisabled /\ UNCHANGED <<orgs, exclusions>>
    <2> DEFINE n == [seed EXCEPT !.disabled = edits']
    <2>1. seeds' = (seeds \ {seed}) \cup {n} /\ edits' = edits + 1 /\ UNCHANGED <<orgs, exclusions>>
      BY <1>4 DEF DisableSeed, Edit
    <2>2. seed \in SeedRow
      BY <1>0
    <2>3. n.disabled = edits' /\ n.org = seed.org /\ n.kind = seed.kind /\ n.value = seed.value
          /\ n.action = seed.action
      BY <2>2 DEF SeedRow
    <2> HIDE DEF n
    <2> QED BY <1>0, <2>1, <2>3 DEF SameWords
  <1>5. ASSUME NEW q \in Slugs \cup {NoOrg}, NEW form \in ExclusionForms, AddExclusion(q, form)
        PROVE  /\ UNCHANGED <<orgs, seeds>>
               /\ \A e \in exclusions' \ exclusions : e.added > began
    BY <1>0, <1>5 DEF AddExclusion, Edit
  <1>6. ASSUME UNCHANGED seeds
        PROVE  /\ Standing(org, began)' \subseteq Standing(org, began)
               /\ \A s \in Lasting(org, began) : \E t \in Lasting(org, began)' : SameWords(s, t)
    BY <1>6 DEF Standing, Lasting, SameWords
  <1>7. ASSUME UNCHANGED exclusions
        PROVE  Before(org, began)' \subseteq Before(org, began)
    BY <1>7 DEF Before
  <1>8. ASSUME NEW q \in orgs, NEW form \in SeedForms, AddSeed(q, form)
        PROVE  /\ Standing(org, began)' \subseteq Standing(org, began)
               /\ \A s \in Lasting(org, began) : \E t \in Lasting(org, began)' : SameWords(s, t)
    <2>1. seeds \subseteq seeds' /\ \A s \in seeds' \ seeds : s.added > began
      BY <1>8, <1>3
    <2>2. \A s \in seeds' \ seeds : s.added \in Nat
      BY <1>8, <1>0 DEF AddSeed, Edit
    <2> QED BY <2>1, <2>2, <1>0 DEF Standing, Lasting, SameWords
  <1>9. ASSUME NEW seed \in seeds, seed.disabled = NotDisabled, DisableSeed(seed)
        PROVE  /\ Standing(org, began)' \subseteq Standing(org, began)
               /\ \A s \in Lasting(org, began) : \E t \in Lasting(org, began)' : SameWords(s, t)
    <2>1. PICK n : /\ seeds' = (seeds \ {seed}) \cup {n}
                   /\ SameWords(seed, n) /\ n.org = seed.org /\ n.disabled > began
                   /\ n.disabled # NotDisabled
      BY <1>9, <1>4
    <2> QED BY <2>1, <1>0 DEF Standing, Lasting, SameWords
  <1>10. ASSUME NEW q \in Slugs \cup {NoOrg}, NEW form \in ExclusionForms, AddExclusion(q, form)
         PROVE  Before(org, began)' \subseteq Before(org, began)
    <2>1. \A e \in exclusions' \ exclusions : e.added > began /\ e.added \in Nat
      BY <1>10, <1>0 DEF AddExclusion, Edit
    <2> QED BY <2>1, <1>0 DEF Before
  <1>11. {o.slug : o \in orgs} \subseteq Slugs
    BY DEF RowsSound, OrgRow
  <1>12. CASE Administer
    <2>1. CASE \E slug \in Slugs, r \in Relationships, a \in BOOLEAN : CreateOrg(slug, r, a)
      BY <2>1, <1>2, <1>6, <1>7
    <2>2. CASE \E q \in orgs, form \in SeedForms : AddSeed(q, form)
      BY <2>2, <1>3, <1>7, <1>8
    <2>3. CASE \E seed \in {s \in seeds : s.disabled = NotDisabled} : DisableSeed(seed)
      BY <2>3, <1>4, <1>7, <1>9
    <2>4. CASE \E q \in {o.slug : o \in orgs} \cup {NoOrg}, form \in ExclusionForms :
                 AddExclusion(q, form)
      BY <2>4, <1>5, <1>6, <1>10, <1>11
    <2> QED BY <1>12, <2>1, <2>2, <2>3, <2>4 DEF Administer
  <1> QED BY <1>1, <1>12

LEMMA TargetSoundStays ==
  ASSUME RowsSound, Administer \/ UNCHANGED administered, scope' = scope,
         NEW org \in Slugs \cup {NoOrg}, NEW began \in 0..edits, NEW target,
         TargetSound(org, began, target)
  PROVE  TargetSound(org, began, target)'
  <1> DEFINE host == ExtractHost(target)
  <1>1. /\ Standing(org, began)' \subseteq Standing(org, began)
        /\ Before(org, began)' \subseteq Before(org, began)
        /\ \A s \in Lasting(org, began) : \E t \in Lasting(org, began)' : SameWords(s, t)
        /\ orgs \subseteq orgs'
    BY RowsLast
  <1>2. /\ scope.active /\ scope.attestation /\ ~Excludes(scope.lists, host)
        /\ \A s \in Standing(org, began) : s.action = "exclude" => ~Speaks(s, host)
        /\ org # NoOrg => /\ \A e \in Before(org, began) : ~Speaks(e, host)
                          /\ \E o \in orgs : o.slug = org /\ o.active
    BY DEF TargetSound
  <1>3. \/ Names(scope.lists, target)
        \/ \E s \in Lasting(org, began)' :
             /\ s.action = "include" /\ s.kind \notin {"ip", "cidr"}
             /\ \/ Speaks(s, host)
                \/ s.kind = "cloud_account" /\ MatchesCloudAccount(target, {s.value})
    <2>1. CASE Names(scope.lists, target)
      BY <2>1
    <2>2. ASSUME NEW s \in Lasting(org, began),
                 s.action = "include" /\ s.kind \notin {"ip", "cidr"},
                 \/ Speaks(s, host)
                 \/ s.kind = "cloud_account" /\ MatchesCloudAccount(target, {s.value})
          PROVE  \E t \in Lasting(org, began)' :
                   /\ t.action = "include" /\ t.kind \notin {"ip", "cidr"}
                   /\ \/ Speaks(t, host)
                      \/ t.kind = "cloud_account" /\ MatchesCloudAccount(target, {t.value})
      <3>1. PICK t \in Lasting(org, began)' : SameWords(s, t)
        BY <1>1
      <3>2. t.kind = s.kind /\ t.value = s.value /\ t.action = s.action
        BY <3>1 DEF SameWords
      <3>3. Speaks(s, host) <=> Speaks(t, host)
        BY <3>2, SameSpeech
      <3>4. {t.value} = {s.value}
        BY <3>2
      <3> QED BY <2>2, <3>2, <3>3, <3>4
    <2> QED BY <2>1, <2>2 DEF TargetSound
  <1> QED BY <1>1, <1>2, <1>3 DEF TargetSound

LEMMA SeedsReadStay ==
  ASSUME TypeInv, Administer \/ UNCHANGED administered, UNCHANGED <<scope, run>>,
         run.phase = "reading_exclusions", SeedsRead
  PROVE  SeedsRead'
  <1>1. run.org \in Slugs \cup {NoOrg} /\ run.began \in 0..edits /\ RowsSound
    BY Fields DEF TypeInv
  <1>2. PICK org, began : org = run.org /\ began = run.began
    OBVIOUS
  <1>3. /\ Standing(org, began)' \subseteq Standing(org, began)
        /\ \A s \in Lasting(org, began) : \E t \in Lasting(org, began)' : SameWords(s, t)
    BY <1>1, <1>2, RowsLast
  <1>4. org = run'.org /\ began = run'.began /\ run'.seeds = run.seeds
    BY <1>2
  <1>5. Standing(org, began) \subseteq run.seeds
        /\ \A r \in run.seeds : \E s \in Lasting(org, began) : SameWords(r, s)
    BY <1>2 DEF SeedsRead
  <1>6. \A r \in run.seeds : \E t \in Lasting(org, began)' : SameWords(r, t)
    BY <1>3, <1>5 DEF SameWords
  <1> QED BY <1>3, <1>4, <1>5, <1>6 DEF SeedsRead, Standing, Lasting

\* The lists of a run stay sound while rows are edited, and while the run moves.
LEMMA ListsSoundStay ==
  ASSUME TypeInv, Administer \/ UNCHANGED administered, scope' = scope,
         run.phase # "idle", run'.lists = run.lists, run'.org = run.org, run'.began = run.began,
         ListsSound
  PROVE  ListsSound'
  <1>1. run.org \in Slugs \cup {NoOrg} /\ run.began \in 0..edits /\ RowsSound
    BY Fields DEF TypeInv
  <1>2. PICK org, began : org = run.org /\ began = run.began
    OBVIOUS
  <1>3. /\ Standing(org, began)' \subseteq Standing(org, began)
        /\ Before(org, began)' \subseteq Before(org, began)
        /\ \A s \in Lasting(org, began) : \E t \in Lasting(org, began)' : SameWords(s, t)
    BY <1>1, <1>2, RowsLast
  <1>4. ASSUME NEW e \in run.lists.names
        PROVE  \/ e \in scope.lists.names
               \/ \E s \in Lasting(org, began)' :
                    s.action = "include" /\ s.kind \in VouchedFor /\ e = EntryOf(s)
    <2>1. CASE e \in scope.lists.names
      BY <2>1
    <2>2. ASSUME NEW s \in Lasting(org, began),
                 s.action = "include" /\ s.kind \in VouchedFor /\ e = EntryOf(s)
          PROVE  \E t \in Lasting(org, began)' :
                    t.action = "include" /\ t.kind \in VouchedFor /\ e = EntryOf(t)
      <3>1. PICK t \in Lasting(org, began)' : SameWords(s, t)
        BY <1>3
      <3>2. t.kind = s.kind /\ t.value = s.value /\ t.action = s.action
        BY <3>1 DEF SameWords
      <3>3. EntryOf(t) = EntryOf(s)
        BY <3>2, SameSpeech
      <3> QED BY <2>2, <3>2, <3>3
    <2> QED BY <1>2, <2>1, <2>2 DEF ListsSound
  <1>5. ASSUME NEW e \in run.lists.accounts
        PROVE  \/ e \in scope.lists.accounts
               \/ \E s \in Lasting(org, began)' :
                    s.action = "include" /\ s.kind = "cloud_account" /\ e = s.value
    <2>1. CASE e \in scope.lists.accounts
      BY <2>1
    <2>2. ASSUME NEW s \in Lasting(org, began),
                 s.action = "include" /\ s.kind = "cloud_account" /\ e = s.value
          PROVE  \E t \in Lasting(org, began)' :
                    t.action = "include" /\ t.kind = "cloud_account" /\ e = t.value
      BY <1>3, <2>2 DEF SameWords
    <2> QED BY <1>2, <2>1, <2>2 DEF ListsSound
  <1>6. /\ scope.lists.exclude \subseteq run.lists.exclude
        /\ \A s \in Standing(org, began) :
             s.action # "include" /\ s.kind \in Enforced => EntryOf(s) \in run.lists.exclude
        /\ org # NoOrg =>
             \A e \in Before(org, began) :
               e.kind \in VouchedFor \cup {"ip", "cidr"} => EntryOf(e) \in run.lists.exclude
    BY <1>2 DEF ListsSound
  <1>7. org = run'.org /\ began = run'.began /\ run'.lists = run.lists
    BY <1>2
  <1>8. /\ \A e \in run'.lists.names :
             \/ e \in scope'.lists.names
             \/ \E s \in Lasting(org, began)' :
                  s.action = "include" /\ s.kind \in VouchedFor /\ e = EntryOf(s)
        /\ \A e \in run'.lists.accounts :
             \/ e \in scope'.lists.accounts
             \/ \E s \in Lasting(org, began)' :
                  s.action = "include" /\ s.kind = "cloud_account" /\ e = s.value
    BY <1>4, <1>5, <1>7
  <1>9. /\ scope'.lists.exclude \subseteq run'.lists.exclude
        /\ \A s \in Standing(org, began)' :
             s.action # "include" /\ s.kind \in Enforced => EntryOf(s) \in run'.lists.exclude
        /\ org # NoOrg =>
             \A e \in Before(org, began)' :
               e.kind \in VouchedFor \cup {"ip", "cidr"} => EntryOf(e) \in run'.lists.exclude
    BY <1>3, <1>6, <1>7
  <1> QED BY <1>7, <1>8, <1>9 DEF ListsSound, Standing, Lasting, Before

LEMMA JoinedLists ==
  ASSUME NEW lists, NEW overlay, DOMAIN lists = DOMAIN NoLists,
         NEW joined, joined = Joined(lists, overlay)
  PROVE  /\ joined.names = lists.names \cup overlay.names
         /\ joined.accounts = lists.accounts \cup overlay.accounts
         /\ joined.exclude = lists.exclude \cup overlay.exclude
  BY DEF Joined, NoLists

LEMMA OverlayLists ==
  ASSUME NEW rows, NEW excluded, NEW overlay, overlay = OrgScopeOverlay(rows, excluded)
  PROVE  /\ \A e \in overlay.names :
              \E s \in rows : s.action = "include" /\ s.kind \in VouchedFor /\ e = EntryOf(s)
         /\ \A e \in overlay.accounts :
              \E s \in rows : s.action = "include" /\ s.kind = "cloud_account" /\ e = s.value
         /\ \A s \in rows :
              s.action # "include" /\ s.kind \in Enforced => EntryOf(s) \in overlay.exclude
         /\ \A e \in excluded :
              e.kind \in VouchedFor \cup {"ip", "cidr"} => EntryOf(e) \in overlay.exclude
  <1> DEFINE included == {s \in rows : s.action = "include"}
  <1>1. /\ overlay.names = Entries(included, VouchedFor)
        /\ overlay.accounts = Values(included, "cloud_account")
        /\ overlay.exclude = Entries(rows \ included, Enforced)
                               \cup Entries(excluded, VouchedFor \cup {"ip", "cidr"})
    <2>1. VouchedFor \cup {"ip", "cidr"} = Hostnames \cup {"wildcard", "url", "ip", "cidr"}
      BY DEF VouchedFor
    <2> QED BY <2>1 DEF OrgScopeOverlay, VouchedFor, Enforced
  <1> QED BY <1>1 DEF Entries, Values

\* The lists that ReadExclusions joins.
LEMMA ExclusionsRead ==
  ASSUME TypeInv, GuardSound, ReadExclusions
  PROVE  ListsSound'
  <1>1. run.phase = "reading_exclusions" /\ UNCHANGED <<scope, seeds, exclusions>>
    BY DEF ReadExclusions, OnlyRun, administered
  <1>2. DOMAIN run = RunFields /\ SeedsRead /\ scope \in Scopes
        /\ run.org \in Slugs \cup {NoOrg}
    BY <1>1, Fields DEF GuardSound, TypeInv
  <1>3. DOMAIN scope.lists = DOMAIN NoLists
    BY <1>2, FormsAssumption
  <1> DEFINE overlay == OrgScopeOverlay(run.seeds, ApplicableExclusions(run.org))
             lists == Joined(scope.lists, overlay)
  <1>4. run'.lists = lists /\ run'.org = run.org /\ run'.began = run.began
    BY <1>2 DEF ReadExclusions, RunFields
  <1>5. /\ lists.names = scope.lists.names \cup overlay.names
        /\ lists.accounts = scope.lists.accounts \cup overlay.accounts
        /\ lists.exclude = scope.lists.exclude \cup overlay.exclude
    BY <1>3, JoinedLists
  <1>6. /\ \A e \in overlay.names :
             \E s \in run.seeds : s.action = "include" /\ s.kind \in VouchedFor /\ e = EntryOf(s)
        /\ \A e \in overlay.accounts :
             \E s \in run.seeds : s.action = "include" /\ s.kind = "cloud_account" /\ e = s.value
        /\ \A s \in run.seeds :
             s.action # "include" /\ s.kind \in Enforced => EntryOf(s) \in overlay.exclude
        /\ \A e \in ApplicableExclusions(run.org) :
             e.kind \in VouchedFor \cup {"ip", "cidr"} => EntryOf(e) \in overlay.exclude
    BY OverlayLists
  <1> HIDE DEF overlay, lists
  <1>7. Before(run.org, run.began) \subseteq ApplicableExclusions(run.org)
    BY DEF Before, ApplicableExclusions
  <1>8. /\ Standing(run.org, run.began) \subseteq run.seeds
        /\ \A r \in run.seeds : \E s \in Lasting(run.org, run.began) : SameWords(r, s)
    BY <1>2 DEF SeedsRead
  <1>9. ASSUME NEW r \in run.seeds
        PROVE  \E s \in Lasting(run.org, run.began) :
                 s.kind = r.kind /\ s.value = r.value /\ s.action = r.action
                 /\ EntryOf(s) = EntryOf(r)
    BY <1>8, SameSpeech DEF SameWords
  <1>10. \A e \in lists.names :
           \/ e \in scope.lists.names
           \/ \E s \in Lasting(run.org, run.began) :
                s.action = "include" /\ s.kind \in VouchedFor /\ e = EntryOf(s)
    BY <1>5, <1>6, <1>9
  <1>11. \A e \in lists.accounts :
           \/ e \in scope.lists.accounts
           \/ \E s \in Lasting(run.org, run.began) :
                s.action = "include" /\ s.kind = "cloud_account" /\ e = s.value
    BY <1>5, <1>6, <1>9
  <1>12. /\ scope.lists.exclude \subseteq lists.exclude
         /\ \A s \in Standing(run.org, run.began) :
              s.action # "include" /\ s.kind \in Enforced => EntryOf(s) \in lists.exclude
         /\ \A e \in Before(run.org, run.began) :
              e.kind \in VouchedFor \cup {"ip", "cidr"} => EntryOf(e) \in lists.exclude
    BY <1>5, <1>6, <1>7, <1>8
  <1> QED BY <1>1, <1>4, <1>10, <1>11, <1>12 DEF ListsSound, Standing, Lasting, Before

\* The entry a row makes matches the hosts the row speaks of, and a name it
\* makes matches no other.
LEMMA EntrySpeaks ==
  ASSUME NEW s, WellFormed(s), s.kind \in VouchedFor, NEW host
  PROVE  /\ EntryOf(s) = Exact(host) => Speaks(s, host)
         /\ EntryOf(s).entry = "glob" /\ Globs(EntryOf(s).labels, host) => Speaks(s, host)
  <1>1. CASE s.kind \in Hostnames
    <2>1. EntryOf(s) = Exact(s.value) /\ (Speaks(s, host) <=> host = s.value)
      BY <1>1 DEF EntryOf, Speaks, Hostnames
    <2> QED BY <2>1 DEF Exact
  <1>2. CASE s.kind = "wildcard"
    <2>1. EntryOf(s) = s.value /\ (Speaks(s, host) <=> Globs(s.value.labels, host))
      BY <1>2 DEF EntryOf, Speaks, Hostnames
    <2>2. s.value.entry = "glob"
      BY <1>2 DEF WellFormed
    <2> QED BY <2>1, <2>2 DEF Exact
  <1>3. CASE s.kind = "url"
    <2>1. EntryOf(s) = Exact(ExtractHost(s.value)) /\ (Speaks(s, host) <=> host = Lowered(s.value.host))
      BY <1>3 DEF EntryOf, Speaks, Hostnames
    <2>2. s.value = Url(s.value.scheme, s.value.host)
      BY <1>3 DEF WellFormed
    <2>3. s.value.syntax = "url"
      BY <2>2 DEF Url
    <2>4. ExtractHost(s.value) = Lowered(s.value.host)
      BY <2>3 DEF ExtractHost, Reading
    <2> QED BY <2>1, <2>4 DEF Exact
  <1> QED BY <1>1, <1>2, <1>3 DEF VouchedFor

LEMMA EntryExcludes ==
  ASSUME NEW s, WellFormed(s), NEW host, Speaks(s, host),
         NEW lists, EntryOf(s) \in lists.exclude
  PROVE  Excludes(lists, host)
  <1>1. CASE s.kind \in Hostnames
    <2>1. EntryOf(s) = Exact(s.value) /\ host = s.value
      BY <1>1 DEF EntryOf, Speaks, Hostnames
    <2> QED BY <2>1 DEF Excludes, MatchesHostname
  <1>2. CASE s.kind = "wildcard"
    <2>1. EntryOf(s) = s.value /\ Globs(s.value.labels, host)
      BY <1>2 DEF EntryOf, Speaks, Hostnames
    <2>2. s.value.entry = "glob"
      BY <1>2 DEF WellFormed
    <2> QED BY <2>1, <2>2 DEF Excludes, MatchesHostname
  <1>3. CASE s.kind = "url"
    <2>1. EntryOf(s) = Exact(ExtractHost(s.value)) /\ host = Lowered(s.value.host)
      BY <1>3 DEF EntryOf, Speaks, Hostnames
    <2>2. s.value = Url(s.value.scheme, s.value.host)
      BY <1>3 DEF WellFormed
    <2>3. s.value.syntax = "url"
      BY <2>2 DEF Url
    <2>4. ExtractHost(s.value) = Lowered(s.value.host)
      BY <2>3 DEF ExtractHost, Reading
    <2> QED BY <2>1, <2>4 DEF Excludes, MatchesHostname
  <1>4. CASE s.kind = "ip"
    <2>1. EntryOf(s) = AddressNetwork(s.value) /\ host = s.value
      BY <1>4 DEF EntryOf, Speaks, Hostnames
    <2>2. IsAddress(host)
      BY <1>4, <2>1 DEF WellFormed
    <2>3. InNetwork(host, EntryOf(s))
      <3>1. CASE host.form = "v4"
        <4>1. EntryOf(s) = Network(host.number, AddressBits)
          BY <2>1, <3>1 DEF AddressNetwork
        <4>2. EntryOf(s).entry = "v4_network" /\ EntryOf(s).base = host.number
          BY <4>1 DEF Network
        <4> QED BY <3>1, <4>2 DEF InNetwork
      <3>2. CASE host.form # "v4"
        <4>1. EntryOf(s) = LeadingNetwork(host.leading) /\ host.form = "v6"
          BY <2>1, <2>2, <3>2 DEF AddressNetwork, IsAddress
        <4>2. EntryOf(s).entry = "v6_network" /\ EntryOf(s).leading = host.leading
          BY <4>1 DEF LeadingNetwork
        <4> QED BY <4>1, <4>2 DEF InNetwork
      <3> QED BY <3>1, <3>2
    <2> QED BY <2>2, <2>3 DEF Excludes, MatchesCidr
  <1>5. CASE s.kind = "cidr"
    <2>1. EntryOf(s) = s.value /\ IsAddress(host) /\ InNetwork(host, s.value)
      BY <1>5 DEF EntryOf, Speaks, Hostnames
    <2> QED BY <2>1 DEF Excludes, MatchesCidr
  <1>6. s.kind \in Hostnames \cup {"wildcard", "url", "ip", "cidr"}
    BY DEF Speaks
  <1> QED BY <1>1, <1>2, <1>3, <1>4, <1>5, <1>6

\* A row that speaks of a host is of an enforced kind.
LEMMA SpeakersEnforced ==
  ASSUME NEW s, NEW host, Speaks(s, host), s.kind \in SeedKinds
  PROVE  s.kind \in Enforced /\ s.kind \in VouchedFor \cup {"ip", "cidr"}
  BY DEF Speaks, Enforced, VouchedFor, Hostnames, Unenforceable

\* What the guard allows, somebody vouched for and nobody excluded.
LEMMA AllowedIsSound ==
  ASSUME TypeInv, GuardSound, run.phase = "checking", Valid(Request),
         Decision = "allow"
  PROVE  TargetSound(run.org, run.began, Target(Request))
  <1> DEFINE target == Target(Request)
             host == ExtractHost(target)
  <1>1. /\ RowsSound /\ ListsSound /\ scope \in Scopes /\ run.org \in Slugs \cup {NoOrg}
        /\ run.org # NoOrg => \E o \in orgs : o.slug = run.org /\ run.allowed = {o.active}
    BY Fields DEF TypeInv, GuardSound, Building
  <1>2. ~Excludes(run.lists, host) /\ Names(run.lists, target)
        /\ Authorized(scope, run.cliActive, run.allowed)
    BY DEF Decision, Decide
  <1> HIDE DEF target, host
  <1>6. \/ Names(scope.lists, target)
        \/ \E s \in Lasting(run.org, run.began) :
             /\ s.action = "include" /\ s.kind \notin {"ip", "cidr"}
             /\ \/ Speaks(s, host)
                \/ s.kind = "cloud_account" /\ MatchesCloudAccount(target, {s.value})
    <2>1. ASSUME NEW s \in Lasting(run.org, run.began), s.kind \in VouchedFor
          PROVE  WellFormed(s) /\ s.kind \notin {"ip", "cidr"}
      BY <1>1, <2>1 DEF RowsSound, Lasting, VouchedFor, Hostnames
    <2>2. CASE Exact(host) \in run.lists.names
      <3>1. CASE Exact(host) \in scope.lists.names
        BY <3>1 DEF Names, MatchesHostname, host
      <3>2. ASSUME NEW s \in Lasting(run.org, run.began),
                   s.action = "include" /\ s.kind \in VouchedFor /\ Exact(host) = EntryOf(s)
            PROVE  Speaks(s, host) /\ s.action = "include" /\ s.kind \notin {"ip", "cidr"}
        BY <3>2, <2>1, EntrySpeaks
      <3> QED BY <1>1, <2>2, <3>1, <3>2 DEF ListsSound
    <2>3. ASSUME NEW e \in run.lists.names, e.entry = "glob" /\ Globs(e.labels, host)
          PROVE  \/ Names(scope.lists, target)
                 \/ \E s \in Lasting(run.org, run.began) :
                      s.action = "include" /\ s.kind \notin {"ip", "cidr"} /\ Speaks(s, host)
      <3>1. CASE e \in scope.lists.names
        BY <2>3, <3>1 DEF Names, MatchesHostname, host
      <3>2. ASSUME NEW s \in Lasting(run.org, run.began),
                   s.action = "include" /\ s.kind \in VouchedFor /\ e = EntryOf(s)
            PROVE  Speaks(s, host) /\ s.action = "include" /\ s.kind \notin {"ip", "cidr"}
        BY <2>3, <3>2, <2>1, EntrySpeaks
      <3> QED BY <1>1, <3>1, <3>2 DEF ListsSound
    <2>4. ASSUME MatchesCloudAccount(target, run.lists.accounts)
          PROVE  \/ Names(scope.lists, target)
                 \/ \E s \in Lasting(run.org, run.began) :
                      /\ s.action = "include" /\ s.kind = "cloud_account"
                      /\ MatchesCloudAccount(target, {s.value})
      <3>1. PICK a \in run.lists.accounts : OccursIn(a, target)
        BY <2>4 DEF MatchesCloudAccount
      <3>2. CASE a \in scope.lists.accounts
        BY <3>1, <3>2 DEF Names, MatchesCloudAccount
      <3>3. ASSUME NEW s \in Lasting(run.org, run.began),
                   s.action = "include" /\ s.kind = "cloud_account" /\ a = s.value
            PROVE  MatchesCloudAccount(target, {s.value})
        BY <3>1, <3>3 DEF MatchesCloudAccount
      <3> QED BY <1>1, <3>2, <3>3 DEF ListsSound
    <2>5. \/ Exact(host) \in run.lists.names
          \/ \E e \in run.lists.names : e.entry = "glob" /\ Globs(e.labels, host)
          \/ MatchesCloudAccount(target, run.lists.accounts)
      BY <1>2 DEF Names, MatchesHostname, host
    <2> QED BY <2>2, <2>3, <2>4, <2>5
  <1>7. ~Excludes(scope.lists, host)
    <2>1. scope.lists.exclude \subseteq run.lists.exclude
      BY <1>1 DEF ListsSound
    <2> QED BY <1>2, <2>1 DEF Excludes, MatchesHostname, MatchesCidr
  <1>8. ASSUME NEW s \in Standing(run.org, run.began), s.action = "exclude"
        PROVE  ~Speaks(s, host)
    <2> SUFFICES ASSUME Speaks(s, host) PROVE FALSE
      OBVIOUS
    <2>1. WellFormed(s) /\ s.kind \in SeedKinds
      BY <1>1 DEF RowsSound, Standing, WellFormed
    <2>2. s.kind \in Enforced
      BY <2>1, SpeakersEnforced
    <2>3. EntryOf(s) \in run.lists.exclude
      BY <1>1, <1>8, <2>2 DEF ListsSound
    <2> QED BY <1>2, <2>1, <2>3, EntryExcludes
  <1>9. ASSUME run.org # NoOrg, NEW e \in Before(run.org, run.began)
        PROVE  ~Speaks(e, host)
    <2> SUFFICES ASSUME Speaks(e, host) PROVE FALSE
      OBVIOUS
    <2>1. WellFormed(e) /\ e.kind \in SeedKinds
      BY <1>1 DEF RowsSound, Before, WellFormed
    <2>2. e.kind \in VouchedFor \cup {"ip", "cidr"}
      BY <2>1, SpeakersEnforced
    <2>3. EntryOf(e) \in run.lists.exclude
      BY <1>1, <1>9, <2>2 DEF ListsSound
    <2> QED BY <1>2, <2>1, <2>3, EntryExcludes
  <1>10. run.org # NoOrg => \E o \in orgs : o.slug = run.org /\ o.active
    BY <1>1, <1>2 DEF Authorized
  <1>11. scope.active /\ scope.attestation
    BY <1>2 DEF Authorized
  <1> QED BY <1>6, <1>7, <1>8, <1>9, <1>10, <1>11 DEF TargetSound, target, host

\* What an edit, or a step that reads no row, keeps of the scope's soundness.
LEMMA ScopeStays ==
  ASSUME ScopeInv, TypeInv', Administer \/ UNCHANGED administered, scope' = scope, probes' = probes,
         \/ run' = run
         \/ run' = Idle
         \/ /\ run.phase # "idle" /\ Steady
            /\ run.phase \notin Building /\ run'.phase \notin Building \cup {"pacing"}
  PROVE  ScopeInv'
  <1>0. RowsSound /\ scope \in Scopes /\ edits \in Nat /\ edits' \in Nat /\ edits <= edits'
    BY DEF ScopeInv, TypeInv, GuardSound, RowsSound, Administer, CreateOrg, AddSeed, DisableSeed,
           AddExclusion, Edit, administered
  <1>1. ProbesSound'
    <2> SUFFICES ASSUME NEW p \in probes
                 PROVE  /\ p.org \in Slugs \cup {NoOrg} /\ p.began \in 0..edits'
                        /\ TargetSound(p.org, p.began, Target(p.request))'
      BY DEF ProbesSound
    <2>1. p.org \in Slugs \cup {NoOrg} /\ p.began \in 0..edits /\ TargetSound(p.org, p.began, Target(p.request))
      BY DEF ScopeInv, ProbesSound
    <2>2. TargetSound(p.org, p.began, Target(p.request))'
      BY <1>0, <2>1, TargetSoundStays
    <2> QED BY <1>0, <2>1, <2>2
  <1>2. CASE run' = Idle
    <2>1. run'.phase = "idle"
      BY <1>2 DEF Idle
    <2>2. GuardSound'
      BY <1>0, <2>1 DEF GuardSound
    <2> QED BY <1>1, <2>2 DEF ScopeInv
  <1>3. ASSUME run.phase # "idle", run'.org = run.org, run'.allowed = run.allowed
        PROVE  run'.org # NoOrg => \E o \in orgs' : o.slug = run'.org /\ run'.allowed = {o.active}
    <2>1. run.org \in Slugs \cup {NoOrg} /\ run.began \in 0..edits
      BY <1>3, Fields DEF ScopeInv, TypeInv
    <2>2. orgs \subseteq orgs'
      BY <1>0, <2>1, RowsLast
    <2> QED BY <1>3, <2>2 DEF ScopeInv, GuardSound
  <1>4. CASE run' = run
    <2>1. CASE run.phase = "idle"
      BY <1>0, <1>1, <1>4, <2>1 DEF ScopeInv, GuardSound
    <2>2. CASE run.phase # "idle"
      <3>1. run.org \in Slugs \cup {NoOrg} /\ run.began \in 0..edits
        BY <2>2, Fields DEF ScopeInv, TypeInv
      <3>2. run'.phase = "reading_exclusions" => SeedsRead'
        BY <1>4, <2>2, SeedsReadStay DEF ScopeInv, GuardSound
      <3>3. run'.phase \notin Building => ListsSound'
        BY <1>4, <2>2, ListsSoundStay DEF ScopeInv, GuardSound
      <3>4. run'.phase = "pacing" => TargetSound(run.org, run.began, Target(Request))'
        <4> SUFFICES ASSUME run.phase = "pacing"
                     PROVE  TargetSound(run.org, run.began, Target(Request))'
          BY <1>4
        <4>0. PICK org \in Slugs \cup {NoOrg}, began \in 0..edits :
                org = run.org /\ began = run.began
          BY <3>1
        <4>1. PICK target : org = run.org /\ began = run.began /\ target = Target(Request)
          BY <4>0
        <4>2. TargetSound(org, began, target)
          BY <4>1, <2>2 DEF ScopeInv, GuardSound
        <4>3. TargetSound(org, began, target)'
          BY <1>0, <4>2, TargetSoundStays
        <4>4. org = run'.org /\ began = run'.began /\ target = Target(Request)'
          BY <1>4, <4>1 DEF Target, Text, Port, Request
        <4> QED BY <4>3, <4>4 DEF TargetSound, Lasting, Standing, Before
      <3> QED BY <1>0, <1>1, <1>3, <1>4, <2>2, <3>2, <3>3, <3>4 DEF ScopeInv, GuardSound
    <2> QED BY <2>1, <2>2
  <1>5. CASE /\ run.phase # "idle" /\ Steady
             /\ run.phase \notin Building /\ run'.phase \notin Building \cup {"pacing"}
    <2>1. run'.phase \notin Building => ListsSound'
      BY <1>5, ListsSoundStay DEF Steady, ScopeInv, GuardSound
    <2>2. run'.phase # "reading_exclusions" /\ run'.phase # "pacing"
      BY <1>5 DEF Building
    <2> QED BY <1>0, <1>1, <1>3, <1>5, <2>1, <2>2 DEF ScopeInv, GuardSound, Steady
  <1> QED BY <1>2, <1>4, <1>5

LEMMA InitScope == Init => ScopeInv
  BY InitTypes DEF Init, ScopeInv, GuardSound, ProbesSound, Idle

LEMMA BeginScope ==
  ASSUME ScopeInv, TypeInv', NEW slug \in Slugs \cup {NoOrg}, NEW flag \in BOOLEAN,
         Begin(slug, flag)
  PROVE  ScopeInv'
  <1>0. UNCHANGED <<administered, scope>> /\ probes' = probes /\ RowsSound
    BY DEF Begin, history, ScopeInv, TypeInv
  <1>1. ProbesSound' /\ scope \in Scopes
    <2>1. RowsSound /\ edits' = edits /\ UNCHANGED administered
      BY <1>0 DEF administered
    <2> SUFFICES ASSUME NEW p \in probes
                 PROVE  /\ p.org \in Slugs \cup {NoOrg} /\ p.began \in 0..edits'
                        /\ TargetSound(p.org, p.began, Target(p.request))'
      BY <1>0 DEF ProbesSound, ScopeInv, GuardSound
    <2>2. p.org \in Slugs \cup {NoOrg} /\ p.began \in 0..edits /\ TargetSound(p.org, p.began, Target(p.request))
      BY DEF ScopeInv, ProbesSound
    <2> QED BY <1>0, <2>1, <2>2, TargetSoundStays
  <1>2. CASE slug = NoOrg
    <2> DEFINE lists == Joined(scope.lists, NoLists)
    <2>1. run' = Started(slug, flag, "asking", {}, lists)
      BY <1>2 DEF Begin
    <2>2. DOMAIN scope.lists = DOMAIN NoLists
      BY <1>1, FormsAssumption
    <2>3. /\ lists.names = scope.lists.names \cup NoLists.names
          /\ lists.accounts = scope.lists.accounts \cup NoLists.accounts
          /\ lists.exclude = scope.lists.exclude \cup NoLists.exclude
      BY <2>2, JoinedLists
    <2> HIDE DEF lists
    <2>4. run'.org = NoOrg /\ run'.phase = "asking" /\ run'.lists = lists
      BY <2>1, <1>2 DEF Started
    <2>5. NoLists.names = {} /\ NoLists.accounts = {}
      BY DEF NoLists
    <2>6. \A s \in seeds' : s.org # NoOrg
      <3>1. \A s \in seeds' : s.org \in Slugs
        BY DEF TypeInv, RowsSound, SeedRow
      <3> QED BY <3>1, VerificationAssumption
    <2>7. ListsSound'
      BY <1>0, <2>3, <2>4, <2>5, <2>6 DEF ListsSound, Standing
    <2>8. "asking" \notin Building
      BY DEF Building
    <2> QED BY <1>0, <1>1, <2>4, <2>7, <2>8 DEF ScopeInv, GuardSound
  <1>3. CASE slug # NoOrg
    <2>1. PICK o \in orgs : /\ o.slug = slug
                            /\ run' = Started(slug, flag, "reading_seeds", {o.active}, NoLists)
      BY <1>3 DEF Begin
    <2>2. run'.org = slug /\ run'.phase = "reading_seeds" /\ run'.allowed = {o.active}
      BY <2>1 DEF Started
    <2>3. orgs' = orgs
      BY <1>0 DEF administered
    <2> QED BY <1>0, <1>1, <2>1, <2>2, <2>3 DEF ScopeInv, GuardSound, Building
  <1> QED BY <1>2, <1>3

LEMMA ReadScope ==
  ASSUME ScopeInv, TypeInv', ReadSeeds \/ ReadExclusions
  PROVE  ScopeInv'
  <1>0. /\ UNCHANGED <<administered, scope>> /\ probes' = probes /\ RowsSound
        /\ run.phase # "idle" /\ scope \in Scopes
        /\ UNCHANGED <<orgs, seeds, exclusions, edits>>
    BY DEF ReadSeeds, ReadExclusions, OnlyRun, administered, history, ScopeInv, TypeInv, GuardSound
  <1>1. DOMAIN run = RunFields
    BY <1>0, Fields DEF ScopeInv, TypeInv
  <1>2. run'.org = run.org /\ run'.allowed = run.allowed /\ run'.began = run.began
    BY <1>1 DEF ReadSeeds, ReadExclusions, RunFields
  <1>3. ProbesSound'
    <2> SUFFICES ASSUME NEW p \in probes
                 PROVE  /\ p.org \in Slugs \cup {NoOrg} /\ p.began \in 0..edits'
                        /\ TargetSound(p.org, p.began, Target(p.request))'
      BY <1>0 DEF ProbesSound
    <2>2. p.org \in Slugs \cup {NoOrg} /\ p.began \in 0..edits /\ TargetSound(p.org, p.began, Target(p.request))
      BY DEF ScopeInv, ProbesSound
    <2> QED BY <1>0, <2>2, TargetSoundStays
  <1>4. run'.org # NoOrg => \E o \in orgs' : o.slug = run'.org /\ run'.allowed = {o.active}
    BY <1>0, <1>2 DEF ScopeInv, GuardSound
  <1>5. CASE ReadSeeds
    <2>1. run'.phase = "reading_exclusions" /\ run'.seeds = EnabledSeeds(run.org)
      BY <1>1, <1>5 DEF ReadSeeds, RunFields
    <2>2. SeedsRead'
      BY <1>0, <1>2, <2>1 DEF SeedsRead, EnabledSeeds, Standing, Lasting, SameWords
    <2> QED BY <1>0, <1>3, <1>4, <2>1, <2>2 DEF ScopeInv, GuardSound, Building
  <1>6. CASE ReadExclusions
    <2>1. run'.phase = "asking"
      BY <1>1, <1>6 DEF ReadExclusions, RunFields
    <2>2. ListsSound'
      BY <1>6, ExclusionsRead DEF ScopeInv
    <2> QED BY <1>0, <1>3, <1>4, <2>1, <2>2 DEF ScopeInv, GuardSound, Building
  <1> QED BY <1>5, <1>6

\* A host that is allowed is waited for, and then probed.
LEMMA CheckScope ==
  ASSUME ScopeInv, TypeInv', Check
  PROVE  ScopeInv'
  <1>0. /\ UNCHANGED <<administered, scope>> /\ probes' = probes
        /\ Steady /\ run.phase = "checking"
    BY CheckFields DEF Check, ScopeInv
  <1>1. CASE Decision # "allow"
    <2>1. run'.phase \in {"asking", "checking"}
      BY <1>0, <1>1, CheckFields, AdvanceFields DEF ScopeInv, Working
    <2>2. run'.phase \notin Building \cup {"pacing"} /\ run.phase \notin Building /\ run.phase # "idle"
      BY <1>0, <2>1 DEF Building
    <2> QED BY <1>0, <2>2, ScopeStays
  <1>2. CASE Decision = "allow"
    <2>1. run'.phase = "pacing" /\ run'.queue = run.queue /\ run'.done = run.done
      BY <1>2, CheckFields DEF ScopeInv
    <2>2. TargetSound(run.org, run.began, Target(Request))
      BY <1>0, <1>2, AllowedIsSound DEF ScopeInv, Check
    <2>3. run.org \in Slugs \cup {NoOrg} /\ run.began \in 0..edits /\ RowsSound
          /\ scope \in Scopes /\ UNCHANGED <<orgs, seeds, exclusions, edits>>
      BY <1>0, Fields DEF ScopeInv, TypeInv, GuardSound, administered
    <2>4. run'.org = run.org /\ run'.began = run.began /\ run'.lists = run.lists
          /\ run'.allowed = run.allowed
      BY <1>0 DEF Steady
    <2>5. TargetSound(run.org, run.began, Target(Request))'
      <3>1. Request' = Request
        BY <2>1 DEF Request
      <3>2. Target(Request)' = Target(Request)
        BY <3>1 DEF Target, Text, Port
      <3>3. PICK org, began, target :
              org = run.org /\ began = run.began /\ target = Target(Request)
        OBVIOUS
      <3>4. TargetSound(org, began, target)
        BY <2>2, <3>3
      <3>5. TargetSound(org, began, target)'
        BY <1>0, <2>3, <3>3, <3>4, TargetSoundStays
      <3>6. org = run'.org /\ began = run'.began /\ target = Target(Request)'
        BY <2>4, <3>2, <3>3
      <3> QED BY <3>5, <3>6 DEF TargetSound, Lasting, Standing, Before
    <2>6. ListsSound'
      BY <1>0, <2>4, ListsSoundStay DEF ScopeInv, GuardSound, Building
    <2>7. ProbesSound'
      <3> SUFFICES ASSUME NEW p \in probes
                   PROVE  /\ p.org \in Slugs \cup {NoOrg} /\ p.began \in 0..edits'
                          /\ TargetSound(p.org, p.began, Target(p.request))'
        BY <1>0 DEF ProbesSound
      <3>1. p.org \in Slugs \cup {NoOrg} /\ p.began \in 0..edits /\ TargetSound(p.org, p.began, Target(p.request))
        BY DEF ScopeInv, ProbesSound
      <3> QED BY <1>0, <2>3, <3>1, TargetSoundStays
    <2>8. run'.org # NoOrg => \E o \in orgs' : o.slug = run'.org /\ run'.allowed = {o.active}
      BY <1>0, <2>3, <2>4 DEF ScopeInv, GuardSound
    <2> QED BY <1>0, <2>1, <2>3, <2>5, <2>6, <2>7, <2>8 DEF ScopeInv, GuardSound
  <1> QED BY <1>1, <1>2

LEMMA SendScope ==
  ASSUME ScopeInv, TypeInv', Send
  PROVE  ScopeInv'
  <1>0. /\ UNCHANGED <<administered, scope>>
        /\ Steady /\ run.phase = "pacing" /\ run'.phase = "probing"
    BY SendFields DEF Send, ScopeInv
  <1>1. /\ run.org \in Slugs \cup {NoOrg} /\ run.began \in 0..edits /\ RowsSound
        /\ scope \in Scopes /\ UNCHANGED <<orgs, seeds, exclusions, edits>>
    BY <1>0, Fields DEF ScopeInv, TypeInv, GuardSound, administered
  <1>2. run'.org = run.org /\ run'.began = run.began /\ run'.lists = run.lists
        /\ run'.allowed = run.allowed
    BY <1>0 DEF Steady
  <1>3. TargetSound(run.org, run.began, Target(Request))
    BY <1>0 DEF ScopeInv, GuardSound
  <1> DEFINE n == [key |-> Key, request |-> Request, at |-> now, org |-> run.org,
                   began |-> run.began]
  <1>4. probes' = probes \cup {n}
    BY DEF Send
  <1>5. n.org = run.org /\ n.began = run.began /\ n.request = Request
    OBVIOUS
  <1> HIDE DEF n
  <1>6. \A p \in probes' : /\ p.org \in Slugs \cup {NoOrg} /\ p.began \in 0..edits
                           /\ TargetSound(p.org, p.began, Target(p.request))
    BY <1>1, <1>3, <1>4, <1>5 DEF ScopeInv, ProbesSound
  <1>7. ProbesSound'
    <2> SUFFICES ASSUME NEW p \in probes'
                 PROVE  /\ p.org \in Slugs \cup {NoOrg} /\ p.began \in 0..edits'
                        /\ TargetSound(p.org, p.began, Target(p.request))'
      BY DEF ProbesSound
    <2>0. PICK org \in Slugs \cup {NoOrg}, began \in 0..edits :
            org = p.org /\ began = p.began
      BY <1>6
    <2>1. PICK target : org = p.org /\ began = p.began /\ target = Target(p.request)
      BY <2>0
    <2>2. TargetSound(org, began, target)'
      BY <1>0, <1>1, <1>6, <2>1, TargetSoundStays
    <2> QED BY <1>1, <1>6, <2>1, <2>2
  <1>8. ListsSound'
    BY <1>0, <1>2, ListsSoundStay DEF ScopeInv, GuardSound, Building
  <1>9. run'.org # NoOrg => \E o \in orgs' : o.slug = run'.org /\ run'.allowed = {o.active}
    BY <1>0, <1>1, <1>2 DEF ScopeInv, GuardSound
  <1> QED BY <1>0, <1>1, <1>7, <1>8, <1>9 DEF ScopeInv, GuardSound

LEMMA StepScope == ScopeInv /\ [Next]_vars => ScopeInv'
  <1> SUFFICES ASSUME ScopeInv, [Next]_vars PROVE ScopeInv'
    OBVIOUS
  <1>0. TypeInv'
    BY StepTypes DEF ScopeInv
  <1>1. CASE Administer
    <2>1. UNCHANGED <<scope, run, probes>>
      BY <1>1, AdministerTypes DEF ScopeInv, TypeInv, history
    <2> QED BY <1>0, <1>1, <2>1, ScopeStays
  <1>2. ASSUME NEW slug \in Slugs \cup {NoOrg}, NEW flag \in BOOLEAN, Begin(slug, flag)
        PROVE  ScopeInv'
    BY <1>0, <1>2, BeginScope
  <1>3. CASE ReadSeeds \/ ReadExclusions
    BY <1>0, <1>3, ReadScope
  <1>4. CASE Conclude
    <2>1. run.phase = "asking" /\ UNCHANGED <<administered, scope>> /\ probes' = probes
      BY <1>4 DEF Conclude, OnlyRun, history
    <2>2. DOMAIN run = RunFields
      BY <2>1, Fields DEF ScopeInv, TypeInv
    <2>3. Steady /\ run'.phase = "concluded"
      BY <1>4, <2>2 DEF Conclude, RunFields, Steady
    <2> QED BY <1>0, <2>1, <2>3, ScopeStays DEF Building
  <1>5. ASSUME NEW requests \in Asked, Ask(requests)
        PROVE  ScopeInv'
    <2>1. UNCHANGED <<administered, scope>> /\ probes' = probes
      BY <1>5 DEF Ask, OnlyRun, history
    <2>2. Steady /\ run.phase = "asking" /\ run'.phase = "checking"
      BY <1>5, AskFields DEF ScopeInv
    <2> QED BY <1>0, <2>1, <2>2, ScopeStays DEF Building
  <1>6. ASSUME run.phase \in Working, Advance, UNCHANGED <<administered, scope>>, probes' = probes
        PROVE  ScopeInv'
    <2>1. Steady /\ run'.phase \in {"asking", "checking"}
      BY <1>6, AdvanceFields DEF ScopeInv
    <2>2. run'.phase \notin Building \cup {"pacing"} /\ run.phase \notin Building /\ run.phase # "idle"
      BY <1>6, <2>1 DEF Building, Working
    <2> QED BY <1>0, <1>6, <2>1, <2>2, ScopeStays
  <1>7. CASE Reject
    BY <1>6, <1>7 DEF Reject, Working
  <1>8. CASE Check
    BY <1>0, <1>8, CheckScope
  <1>9. CASE Send
    BY <1>0, <1>9, SendScope
  <1>10. ASSUME NEW going \in Goings, Answered(going)
         PROVE  ScopeInv'
    BY <1>6, <1>10 DEF Answered, Working
  <1>11. CASE Tick \/ UNCHANGED vars
    <2>1. UNCHANGED <<administered, scope, run>> /\ probes' = probes
      BY <1>11 DEF Tick, vars, history
    <2> QED BY <1>0, <2>1, ScopeStays
  <1>12. CASE Commit \/ Abort
    <2>1. UNCHANGED <<administered, scope>> /\ probes' = probes /\ run' = Idle
      BY <1>12 DEF Commit, Abort, history
    <2> QED BY <1>0, <2>1, ScopeStays
  <1> QED BY <1>1, <1>2, <1>3, <1>4, <1>5, <1>7, <1>8, <1>9, <1>10, <1>11, <1>12 DEF Next

\* Of a plain text, the guard reads the host that the tool turns to.
LEMMA PlainReading ==
  ASSUME NEW request, Plain(request)
  PROVE  Contacts(request) = {ExtractHost(Target(request))}
  <1> DEFINE text == Text(request)
  <1>1. text.syntax = "bare" /\ Lowered(text.host) = text.host
        /\ (text.host.form = "v6" => request.tool \notin WithPort)
    BY DEF Plain
  <1> HIDE DEF text
  <1>2. ExtractHost(Target(request)) = text.host
    <2>1. CASE request.tool \in WithPort
      <3>1. Target(request) = AtPort(text, Port(request))
        BY <2>1 DEF Target, text
      <3>2. Target(request).syntax = "at_port" /\ Target(request).text = text
        BY <3>1 DEF AtPort
      <3> QED BY <1>1, <2>1, <3>2 DEF ExtractHost, Reading
    <2>2. CASE request.tool \notin WithPort
      BY <1>1, <2>2 DEF Target, text, ExtractHost, Reading
    <2> QED BY <2>1, <2>2
  <1>3. Unported(text) = text
    BY <1>1 DEF Unported
  <1>4. HttpProbeContacts(text) = {text.host} /\ NucleiSingleContacts(text) = {text.host}
        /\ SocketContacts(text) = {text.host}
    BY <1>1, <1>3 DEF HttpProbeContacts, NucleiSingleContacts, SocketContacts
  <1> QED BY <1>2, <1>4 DEF Contacts, text

LEMMA SoundProbesInScope == ScopeInv => ProbesInScope
  <1> SUFFICES ASSUME ScopeInv, NEW p \in probes,
                      NEW target, target = Target(p.request),
                      NEW host, host = ExtractHost(target)
               PROVE  LET own == {s \in seeds : s.org = p.org}
                          standing == {s \in own : s.added <= p.began /\ s.disabled = NotDisabled}
                          before == {e \in exclusions : e.org \in {p.org, NoOrg} /\ e.added <= p.began}
                      IN /\ scope.active /\ scope.attestation
                         /\ \/ Names(scope.lists, target)
                            \/ \E s \in own : /\ s.action = "include"
                                              /\ s.disabled = NotDisabled \/ s.disabled > p.began
                                              /\ s.kind \notin {"ip", "cidr"}
                                              /\ \/ Speaks(s, host)
                                                 \/ s.kind = "cloud_account"
                                                    /\ MatchesCloudAccount(target, {s.value})
                         /\ ~Excludes(scope.lists, host)
                         /\ \A s \in standing : s.action = "exclude" => ~Speaks(s, host)
                         /\ p.org # NoOrg =>
                              /\ \A e \in before : ~Speaks(e, host)
                              /\ \A o \in orgs :
                                   o.slug = p.org => o.active /\ o.relationship # "third_party"
                         /\ Plain(p.request) => Contacts(p.request) = {host}
    BY DEF ProbesInScope
  <1>1. TargetSound(p.org, p.began, target) /\ RowsSound
    BY DEF ScopeInv, ProbesSound, TypeInv
  <1>2. \A o \in orgs : o.slug = p.org /\ p.org # NoOrg => o.active /\ o.relationship # "third_party"
    BY <1>1 DEF TargetSound, RowsSound
  <1>3. Plain(p.request) => Contacts(p.request) = {host}
    BY PlainReading
  <1> QED BY <1>1, <1>2, <1>3 DEF TargetSound, Lasting, Standing, Before

THEOREM ScopeInvariant == Spec => []ScopeInv
  BY InitScope, StepScope, PTL DEF Spec

\* Whatever is edited while a triage reads its rows, and whatever text a model
\* asks with, what the guard reads in it is a host that the file or an included
\* seed names, that nothing excludes which stood when the run began, and of no
\* third party; of a plain text it is the host contacted (recon/scope.py, cli.py's
\* _resolve_org_scope).
THEOREM EveryProbeInScope == Spec => []ProbesInScope
  BY ScopeInvariant, SoundProbesInScope, PTL

-----------------------------------------------------------------------------
(* Every request is answered *)

RequestKeys == [run : 1..triages, round : 1..MaxRounds, index : 1..MaxToolCalls]

\* Rows of the run under way are of earlier rounds, or of this one's requests
\* that are done; the audit is at most one ahead.
Dealt(k, done) == k.run = run.number => k.round < run.round \/ (k.round = run.round /\ k.index <= done)
Logged == IF run.phase \in {"pacing", "probing"} THEN run.done + 1 ELSE run.done

RowsKeyed ==
  /\ IsFiniteSet(evidence)
  /\ evidence \subseteq [key : RequestKeys,
                         status : {"rejected", "denied", "executed", "failed"}]
  /\ audit \subseteq [key : RequestKeys, decision : {"allow", "deny", "requires_confirm"}]
  /\ \A e, f \in evidence : e.key = f.key => e = f
  /\ \A k \in Keys(evidence) : k.index > 1 => [k EXCEPT !.index = @ - 1] \in Keys(evidence)

OutcomesSound ==
  /\ WithStatus({"rejected"}) \cap Keys(audit) = {}
  /\ WithStatus({"denied"}) = Keys({a \in audit : a.decision # "allow"})
  /\ WithStatus({"executed", "failed"}) \subseteq
       Keys({a \in audit : a.decision = "allow"}) \cap Keys(probes)

RoundSound ==
  run.phase # "idle" =>
    /\ \A k \in Keys(evidence) : Dealt(k, run.done)
    /\ \A k \in Keys(audit) : Dealt(k, Logged)
    /\ \A i \in 1..run.done :
         [run |-> run.number, round |-> run.round, index |-> i] \in Keys(evidence)
    /\ run.phase \in {"pacing", "probing"} =>
         Key \in Keys({a \in audit : a.decision = "allow"})
    /\ run.phase = "probing" => Key \in Keys(probes)

AnswerInv == TypeInv /\ RowsKeyed /\ OutcomesSound /\ RoundSound

Statuses == {"rejected", "denied", "executed", "failed"}

\* The key of the request at hand is new among the rows it is about to join.
LEMMA KeyIsNew ==
  ASSUME AnswerInv, run.phase \in Working
  PROVE  /\ Key \in RequestKeys /\ Key \notin Keys(evidence)
         /\ run.phase = "checking" => Key \notin Keys(audit)
         /\ Key.run = run.number /\ Key.round = run.round /\ Key.index = run.done + 1
         /\ run.done \in Nat /\ run.round \in Nat /\ run.number = triages
  <1>1. /\ run.number = triages /\ triages > 0 /\ run.round \in 0..MaxRounds /\ run.round > 0
        /\ run.done \in 0..Len(run.queue) /\ run.done < Len(run.queue)
        /\ Len(run.queue) \in Nat /\ Len(run.queue) <= MaxToolCalls /\ triages \in 0..MaxTriages
    BY Fields, LenProperties DEF AnswerInv, TypeInv, QueueSound, RowsSound, Working
  <1>2. Key.run = run.number /\ Key.round = run.round /\ Key.index = run.done + 1
    BY DEF Key
  <1>3. Key \in RequestKeys
    BY <1>1, Constants DEF Key, RequestKeys
  <1>4. run.phase # "idle" /\ (\A k \in Keys(evidence) : Dealt(k, run.done))
        /\ (\A k \in Keys(audit) : Dealt(k, Logged))
    BY DEF AnswerInv, RoundSound, Working
  <1>5. ~Dealt(Key, run.done)
    BY <1>1, <1>2, Constants DEF Dealt
  <1>6. run.phase = "checking" => Logged = run.done
    BY DEF Logged
  <1> QED BY <1>1, <1>2, <1>3, <1>4, <1>5, <1>6, Constants

LEMMA KeysOf ==
  ASSUME NEW rows, NEW r
  PROVE  Keys(rows \cup {r}) = Keys(rows) \cup {r.key}
  BY DEF Keys

\* One more row of evidence, for the request that is thereby done.
LEMMA RecordAdvances ==
  ASSUME AnswerInv, TypeInv', run.phase \in Working, NEW status \in Statuses, Record(status), Advance
  PROVE  /\ IsFiniteSet(evidence')
         /\ evidence' \subseteq [key : RequestKeys', status : Statuses]
         /\ \A e, f \in evidence' : e.key = f.key => e = f
         /\ Keys(evidence)' = Keys(evidence) \cup {Key}
         /\ \A k \in Keys(evidence)' : k.index > 1 => [k EXCEPT !.index = @ - 1] \in Keys(evidence)'
         /\ \A k \in Keys(evidence)' : Dealt(k, run.done)'
         /\ \A i \in 1..run'.done :
              [run |-> run'.number, round |-> run'.round, index |-> i] \in Keys(evidence)'
  <1> DEFINE e0 == [key |-> Key, status |-> status]
  <1>1. evidence' = evidence \cup {e0}
    BY DEF Record
  <1>2. e0.key = Key /\ e0.status = status
    OBVIOUS
  <1>3. /\ Key \in RequestKeys /\ Key \notin Keys(evidence)
        /\ Key.run = run.number /\ Key.round = run.round /\ Key.index = run.done + 1
        /\ run.done \in Nat /\ run.round \in Nat
    BY KeyIsNew
  <1>4. /\ run'.number = run.number /\ run'.round = run.round /\ run'.done = run.done + 1
        /\ triages' = triages
    <2>1. run'.number = run.number /\ run'.round = run.round /\ run'.done = run.done + 1
      BY AdvanceFields DEF AnswerInv, Steady
    <2>2. run.number = triages /\ run'.phase \in {"asking", "checking"}
      BY KeyIsNew, AdvanceFields DEF AnswerInv
    <2>3. run'.number = triages'
      BY <2>2 DEF TypeInv, RunSound, Idle
    <2> QED BY <2>1, <2>2, <2>3
  <1>5. e0 \in [key : RequestKeys', status : Statuses] /\ RequestKeys' = RequestKeys
    BY <1>3, <1>4 DEF RequestKeys
  <1>6. /\ IsFiniteSet(evidence)
        /\ evidence \subseteq [key : RequestKeys, status : Statuses]
        /\ \A e, f \in evidence : e.key = f.key => e = f
        /\ \A k \in Keys(evidence) : k.index > 1 => [k EXCEPT !.index = @ - 1] \in Keys(evidence)
        /\ \A k \in Keys(evidence) : Dealt(k, run.done)
        /\ \A i \in 1..run.done :
             [run |-> run.number, round |-> run.round, index |-> i] \in Keys(evidence)
    BY DEF AnswerInv, RowsKeyed, RoundSound, Working, Statuses
  <1> HIDE DEF e0
  <1>7. IsFiniteSet(evidence')
    BY <1>1, <1>6, FS_AddElement
  <1>8. Keys(evidence)' = Keys(evidence) \cup {Key}
    BY <1>1, <1>2, KeysOf DEF Keys
  <1>9. \A e, f \in evidence' : e.key = f.key => e = f
    BY <1>1, <1>2, <1>3, <1>6 DEF Keys
  <1>10. \A k \in Keys(evidence)' : k.index > 1 => [k EXCEPT !.index = @ - 1] \in Keys(evidence)'
    <2>1. ASSUME Key.index > 1 PROVE [Key EXCEPT !.index = @ - 1] \in Keys(evidence)
      <3>1. [Key EXCEPT !.index = @ - 1]
              = [run |-> run.number, round |-> run.round, index |-> run.done]
        BY <1>3 DEF Key
      <3>2. run.done \in 1..run.done
        BY <1>3, <2>1
      <3> QED BY <1>6, <3>1, <3>2
    <2> QED BY <1>6, <1>8, <2>1
  <1>11. \A k \in Keys(evidence)' : Dealt(k, run.done)'
    <2>1. \A k \in Keys(evidence) : k.round \in Nat /\ k.index \in Nat
      BY <1>6 DEF Keys, RequestKeys
    <2> QED BY <1>3, <1>4, <1>6, <1>8, <2>1 DEF Dealt
  <1>12. ASSUME NEW i \in 1..run'.done
         PROVE  [run |-> run'.number, round |-> run'.round, index |-> i] \in Keys(evidence)'
    <2>1. CASE i \in 1..run.done
      BY <1>4, <1>6, <1>8, <2>1
    <2>2. CASE i = run.done + 1
      BY <1>4, <1>8, <2>2 DEF Key
    <2> QED BY <1>3, <1>4, <2>1, <2>2
  <1> QED BY <1>1, <1>5, <1>6, <1>7, <1>8, <1>9, <1>10, <1>11, <1>12

LEMMA StatusOf ==
  ASSUME NEW statuses, NEW e0, evidence' = evidence \cup {e0}
  PROVE  WithStatus(statuses)'
           = WithStatus(statuses) \cup (IF e0.status \in statuses THEN {e0.key} ELSE {})
  BY DEF WithStatus, Keys

LEMMA DenialAdds ==
  ASSUME NEW e0, evidence' = evidence \cup {e0}, e0.status = "denied"
  PROVE  /\ WithStatus({"rejected"})' = WithStatus({"rejected"})
         /\ WithStatus({"denied"})' = WithStatus({"denied"}) \cup {e0.key}
         /\ WithStatus({"executed", "failed"})' = WithStatus({"executed", "failed"})
  <1>1. WithStatus({"rejected"})' = WithStatus({"rejected"})
    BY DEF WithStatus, Keys
  <1>2. WithStatus({"denied"})' = WithStatus({"denied"}) \cup {e0.key}
    BY DEF WithStatus, Keys
  <1>3. WithStatus({"executed", "failed"})' = WithStatus({"executed", "failed"})
    BY DEF WithStatus, Keys
  <1> QED BY <1>1, <1>2, <1>3

LEMMA OutcomeAdds ==
  ASSUME NEW e0, evidence' = evidence \cup {e0}, e0.status \in {"executed", "failed"}
  PROVE  /\ WithStatus({"rejected"})' = WithStatus({"rejected"})
         /\ WithStatus({"denied"})' = WithStatus({"denied"})
         /\ WithStatus({"executed", "failed"})'
              = WithStatus({"executed", "failed"}) \cup {e0.key}
  <1>1. WithStatus({"rejected"})' = WithStatus({"rejected"})
    BY DEF WithStatus, Keys
  <1>2. WithStatus({"denied"})' = WithStatus({"denied"})
    BY DEF WithStatus, Keys
  <1>3. WithStatus({"executed", "failed"})' = WithStatus({"executed", "failed"}) \cup {e0.key}
    BY DEF WithStatus, Keys
  <1> QED BY <1>1, <1>2, <1>3

LEMMA DecisionOf ==
  ASSUME NEW a0, audit' = audit \cup {a0}
  PROVE  /\ Keys(audit)' = Keys(audit) \cup {a0.key}
         /\ Keys({a \in audit : a.decision = "allow"})'
              = Keys({a \in audit : a.decision = "allow"})
                  \cup (IF a0.decision = "allow" THEN {a0.key} ELSE {})
         /\ Keys({a \in audit : a.decision # "allow"})'
              = Keys({a \in audit : a.decision # "allow"})
                  \cup (IF a0.decision # "allow" THEN {a0.key} ELSE {})
  BY DEF Keys

\* Steps that add no row and move no request.
LEMMA AnswersStay ==
  ASSUME AnswerInv, TypeInv', UNCHANGED history, triages' >= triages,
         \/ run' = Idle
         \/ run' = run
         \/ run.phase = "idle" /\ run'.done = 0 /\ run'.phase \notin Working
            /\ run'.number = triages + 1
         \/ /\ run.phase \notin Working \cup {"idle"} /\ run'.phase \notin Working
            /\ run'.number = run.number /\ run'.round = run.round /\ run'.done = run.done
         \/ /\ run.phase \notin Working \cup {"idle"} /\ run'.phase = "checking"
            /\ run'.number = run.number /\ run'.round = run.round + 1 /\ run'.done = 0
  PROVE  AnswerInv'
  <1>0. evidence' = evidence /\ audit' = audit /\ probes' = probes
    BY DEF history
  <1>1. triages \in Nat /\ triages' \in Nat /\ RequestKeys \subseteq RequestKeys'
    BY DEF AnswerInv, TypeInv, RowsSound, RequestKeys
  <1>2. RowsKeyed'
    BY <1>0, <1>1 DEF AnswerInv, RowsKeyed, Keys
  <1>3. OutcomesSound'
    BY <1>0 DEF AnswerInv, OutcomesSound, WithStatus, Keys
  <1>4. \A k \in Keys(evidence) \cup Keys(audit) :
          k.run \in Nat /\ k.run <= triages /\ k.round \in Nat /\ k.index \in Nat
    BY <1>1 DEF AnswerInv, RowsKeyed, Keys, RequestKeys
  <1>5. RoundSound'
    <2>1. CASE run' = Idle
      BY <2>1 DEF RoundSound, Idle
    <2>2. CASE run' = run
      BY <1>0, <2>2 DEF AnswerInv, RoundSound, Dealt, Logged, Keys, Key
    <2>3. CASE run.phase = "idle" /\ run'.done = 0 /\ run'.phase \notin Working
               /\ run'.number = triages + 1
      BY <1>0, <1>1, <1>4, <2>3 DEF RoundSound, Dealt, Keys, Working
    <2>4. CASE /\ run.phase \notin Working \cup {"idle"} /\ run'.phase \notin Working
               /\ run'.number = run.number /\ run'.round = run.round /\ run'.done = run.done
      BY <1>0, <2>4 DEF AnswerInv, RoundSound, Dealt, Logged, Keys, Working
    <2>5. CASE /\ run.phase \notin Working \cup {"idle"} /\ run'.phase = "checking"
               /\ run'.number = run.number /\ run'.round = run.round + 1 /\ run'.done = 0
      <3>1. run.round \in Nat
        BY <2>5, Fields DEF AnswerInv, TypeInv
      <3>2. \A k \in Keys(evidence) \cup Keys(audit) : k.run = run.number => k.round <= run.round
        BY <1>4, <2>5, <3>1 DEF AnswerInv, RoundSound, Dealt, Logged, Working
      <3> QED BY <1>0, <1>4, <2>5, <3>1, <3>2 DEF RoundSound, Dealt, Logged, Keys
    <2> QED BY <2>1, <2>2, <2>3, <2>4, <2>5
  <1> QED BY <1>2, <1>3, <1>5 DEF AnswerInv


LEMMA DecisionKinds ==
  Decision \in {"allow", "deny", "requires_confirm"}
  BY DEF Decision, Decide

\* One more row of audit, for the request at hand.
LEMMA LogAdds ==
  ASSUME AnswerInv, run.phase = "checking", Log(Decision), triages' = triages,
         run'.number = run.number, run'.round = run.round
  PROVE  /\ audit' \subseteq [key : RequestKeys', decision : {"allow", "deny", "requires_confirm"}]
         /\ Keys(audit)' = Keys(audit) \cup {Key}
         /\ Keys({a \in audit : a.decision = "allow"})'
              = Keys({a \in audit : a.decision = "allow"})
                  \cup (IF Decision = "allow" THEN {Key} ELSE {})
         /\ Keys({a \in audit : a.decision # "allow"})'
              = Keys({a \in audit : a.decision # "allow"})
                  \cup (IF Decision # "allow" THEN {Key} ELSE {})
         /\ \A k \in Keys(audit)' :
              k.run = run'.number => \/ k.round < run'.round
                                     \/ k.round = run'.round /\ k.index <= run.done + 1
  <1> DEFINE a0 == [key |-> Key, decision |-> Decision]
  <1>1. audit' = audit \cup {a0}
    BY DEF Log
  <1>2. a0.key = Key /\ a0.decision = Decision
    OBVIOUS
  <1>3. /\ Key \in RequestKeys /\ Key.run = run.number /\ Key.round = run.round
        /\ Key.index = run.done + 1 /\ run.done \in Nat
    BY KeyIsNew DEF Working
  <1>4. a0 \in [key : RequestKeys', decision : {"allow", "deny", "requires_confirm"}]
        /\ RequestKeys' = RequestKeys
    BY <1>3, DecisionKinds DEF RequestKeys
  <1> HIDE DEF a0
  <1>5. audit' \subseteq [key : RequestKeys', decision : {"allow", "deny", "requires_confirm"}]
    BY <1>1, <1>4 DEF AnswerInv, RowsKeyed
  <1>6. /\ Keys(audit)' = Keys(audit) \cup {Key}
        /\ Keys({a \in audit : a.decision = "allow"})'
             = Keys({a \in audit : a.decision = "allow"})
                 \cup (IF Decision = "allow" THEN {Key} ELSE {})
        /\ Keys({a \in audit : a.decision # "allow"})'
             = Keys({a \in audit : a.decision # "allow"})
                 \cup (IF Decision # "allow" THEN {Key} ELSE {})
    BY <1>1, <1>2, DecisionOf
  <1>7. ASSUME NEW k \in Keys(audit)', k.run = run'.number
        PROVE  k.round < run'.round \/ (k.round = run'.round /\ k.index <= run.done + 1)
    <2>1. CASE k = Key
      BY <1>3, <2>1
    <2>2. CASE k \in Keys(audit)
      <3>1. Dealt(k, run.done) /\ k.index \in Nat
        BY <2>2 DEF AnswerInv, RoundSound, RowsKeyed, Logged, Keys, RequestKeys
      <3> QED BY <1>3, <1>7, <3>1 DEF Dealt
    <2> QED BY <1>6, <2>1, <2>2
  <1> QED BY <1>5, <1>6, <1>7

LEMMA RejectAnswers ==
  ASSUME AnswerInv, TypeInv', Reject
  PROVE  AnswerInv'
  <1>0. /\ run.phase = "checking" /\ Record("rejected") /\ Advance
        /\ audit' = audit /\ probes' = probes /\ triages' = triages
    BY DEF Reject
  <1>1. /\ Key \notin Keys(evidence) /\ Key \notin Keys(audit) /\ run.done \in Nat
    BY <1>0, KeyIsNew DEF Working
  <1>2. /\ IsFiniteSet(evidence')
        /\ evidence' \subseteq [key : RequestKeys', status : Statuses]
        /\ \A e, f \in evidence' : e.key = f.key => e = f
        /\ \A k \in Keys(evidence)' : k.index > 1 => [k EXCEPT !.index = @ - 1] \in Keys(evidence)'
        /\ \A k \in Keys(evidence)' : Dealt(k, run.done)'
        /\ \A i \in 1..run'.done :
             [run |-> run'.number, round |-> run'.round, index |-> i] \in Keys(evidence)'
    BY <1>0, RecordAdvances DEF Working, Statuses
  <1>3. /\ run'.phase \in {"asking", "checking"} /\ run'.number = run.number
        /\ run'.round = run.round /\ run'.done = run.done + 1
    BY <1>0, AdvanceFields DEF AnswerInv, Steady, Working
  <1>4. RowsKeyed'
    <2>1. RequestKeys' = RequestKeys
      BY <1>0 DEF RequestKeys
    <2> QED BY <1>0, <1>2, <2>1 DEF AnswerInv, RowsKeyed, Statuses
  <1>5. OutcomesSound'
    <2> DEFINE e0 == [key |-> Key, status |-> "rejected"]
    <2>1. evidence' = evidence \cup {e0} /\ e0.key = Key /\ e0.status = "rejected"
      BY <1>0 DEF Record
    <2> HIDE DEF e0
    <2>2. /\ WithStatus({"rejected"})' = WithStatus({"rejected"}) \cup {Key}
          /\ WithStatus({"denied"})' = WithStatus({"denied"})
          /\ WithStatus({"executed", "failed"})' = WithStatus({"executed", "failed"})
      BY <2>1, StatusOf
    <2>3. /\ Keys(audit)' = Keys(audit) /\ Keys(probes)' = Keys(probes)
          /\ Keys({a \in audit : a.decision = "allow"})' = Keys({a \in audit : a.decision = "allow"})
          /\ Keys({a \in audit : a.decision # "allow"})' = Keys({a \in audit : a.decision # "allow"})
      BY <1>0
    <2> QED BY <1>1, <2>2, <2>3 DEF AnswerInv, OutcomesSound
  <1>6. \A k \in Keys(audit)' : Dealt(k, Logged)'
    <2>1. \A k \in Keys(audit) : Dealt(k, run.done) /\ k.index \in Nat
      BY <1>0 DEF AnswerInv, RoundSound, RowsKeyed, Logged, Keys, RequestKeys
    <2> QED BY <1>0, <1>1, <1>3, <2>1 DEF Dealt, Logged, Keys
  <1>7. RoundSound'
    BY <1>2, <1>3, <1>6 DEF RoundSound
  <1> QED BY <1>4, <1>5, <1>7 DEF AnswerInv

LEMMA CheckAnswers ==
  ASSUME AnswerInv, TypeInv', Check
  PROVE  AnswerInv'
  <1>0. /\ run.phase = "checking" /\ Log(Decision)
        /\ probes' = probes /\ triages' = triages
        /\ run'.number = run.number /\ run'.round = run.round
    BY CheckFields DEF Check, AnswerInv, Steady
  <1>1. /\ Key \notin Keys(evidence) /\ Key \notin Keys(audit) /\ run.done \in Nat
    BY <1>0, KeyIsNew DEF Working
  <1>2. /\ audit' \subseteq [key : RequestKeys', decision : {"allow", "deny", "requires_confirm"}]
        /\ Keys(audit)' = Keys(audit) \cup {Key}
        /\ Keys({a \in audit : a.decision = "allow"})'
             = Keys({a \in audit : a.decision = "allow"})
                 \cup (IF Decision = "allow" THEN {Key} ELSE {})
        /\ Keys({a \in audit : a.decision # "allow"})'
             = Keys({a \in audit : a.decision # "allow"})
                 \cup (IF Decision # "allow" THEN {Key} ELSE {})
        /\ \A k \in Keys(audit)' :
             k.run = run'.number => \/ k.round < run'.round
                                    \/ k.round = run'.round /\ k.index <= run.done + 1
    BY <1>0, LogAdds
  <1>3. RequestKeys' = RequestKeys /\ Keys(probes)' = Keys(probes)
    BY <1>0 DEF RequestKeys
  <1>4. CASE Decision = "allow"
    <2>1. evidence' = evidence /\ run'.phase = "pacing" /\ run'.done = run.done
          /\ run'.queue = run.queue
      BY <1>4, CheckFields DEF AnswerInv
    <2>2. RowsKeyed'
      BY <1>2, <1>3, <2>1 DEF AnswerInv, RowsKeyed, Keys
    <2>3. WithStatus({"rejected"})' = WithStatus({"rejected"})
          /\ WithStatus({"denied"})' = WithStatus({"denied"})
          /\ WithStatus({"executed", "failed"})' = WithStatus({"executed", "failed"})
          /\ Keys(evidence)' = Keys(evidence)
      BY <2>1 DEF WithStatus, Keys
    <2>4. WithStatus({"rejected"}) \subseteq Keys(evidence)
      BY DEF WithStatus, Keys
    <2>5. OutcomesSound'
      BY <1>1, <1>2, <1>3, <1>4, <2>3, <2>4 DEF AnswerInv, OutcomesSound
    <2>6. Key' = Key
      BY <1>0, <2>1 DEF Key
    <2>7. \A k \in Keys(audit)' : Dealt(k, Logged)'
      BY <1>2, <2>1 DEF Dealt, Logged
    <2>8. \A k \in Keys(evidence)' : Dealt(k, run.done)'
      BY <1>0, <2>1, <2>3 DEF AnswerInv, RoundSound, Dealt
    <2>9. \A i \in 1..run'.done :
            [run |-> run'.number, round |-> run'.round, index |-> i] \in Keys(evidence)'
      BY <1>0, <2>1, <2>3 DEF AnswerInv, RoundSound
    <2>10. Key' \in Keys({a \in audit : a.decision = "allow"})'
      BY <1>2, <1>4, <2>6
    <2>11. RoundSound'
      BY <2>1, <2>7, <2>8, <2>9, <2>10 DEF RoundSound
    <2> QED BY <2>2, <2>5, <2>11 DEF AnswerInv
  <1>5. CASE Decision # "allow"
    <2>0. Record("denied") /\ Advance
      BY <1>5, CheckFields DEF AnswerInv
    <2>1. /\ IsFiniteSet(evidence')
          /\ evidence' \subseteq [key : RequestKeys', status : Statuses]
          /\ \A e, f \in evidence' : e.key = f.key => e = f
          /\ \A k \in Keys(evidence)' : k.index > 1 => [k EXCEPT !.index = @ - 1] \in Keys(evidence)'
          /\ \A k \in Keys(evidence)' : Dealt(k, run.done)'
          /\ \A i \in 1..run'.done :
               [run |-> run'.number, round |-> run'.round, index |-> i] \in Keys(evidence)'
      BY <1>0, <2>0, RecordAdvances DEF Working, Statuses
    <2>2. run'.phase \in {"asking", "checking"} /\ run'.done = run.done + 1
      BY <1>0, <2>0, AdvanceFields DEF AnswerInv, Working
    <2>3. RowsKeyed'
      BY <1>2, <2>1 DEF RowsKeyed, Statuses
    <2>4. OutcomesSound'
      <3> DEFINE e0 == [key |-> Key, status |-> "denied"]
      <3>1. evidence' = evidence \cup {e0} /\ e0.key = Key /\ e0.status = "denied"
        BY <2>0 DEF Record
      <3> HIDE DEF e0
      <3>2. /\ WithStatus({"rejected"})' = WithStatus({"rejected"})
            /\ WithStatus({"denied"})' = WithStatus({"denied"}) \cup {Key}
            /\ WithStatus({"executed", "failed"})' = WithStatus({"executed", "failed"})
        BY <3>1, DenialAdds
      <3>3. WithStatus({"rejected"}) \subseteq Keys(evidence)
        BY DEF WithStatus, Keys
      <3> QED BY <1>1, <1>2, <1>3, <1>5, <3>2, <3>3 DEF AnswerInv, OutcomesSound
    <2>5. \A k \in Keys(audit)' : Dealt(k, Logged)'
      BY <1>2, <2>2 DEF Dealt, Logged
    <2>6. RoundSound'
      BY <2>1, <2>2, <2>5 DEF RoundSound
    <2> QED BY <2>3, <2>4, <2>6 DEF AnswerInv
  <1> QED BY <1>4, <1>5

LEMMA SendAnswers ==
  ASSUME AnswerInv, TypeInv', Send
  PROVE  AnswerInv'
  <1>0. /\ run.phase = "pacing" /\ run'.phase = "probing" /\ evidence' = evidence
        /\ audit' = audit /\ triages' = triages /\ run'.number = run.number
        /\ run'.round = run.round /\ run'.done = run.done
    BY SendFields DEF Send, AnswerInv, Steady
  <1>1. Keys(probes)' = Keys(probes) \cup {Key} /\ Key' = Key
    <2> DEFINE p0 == [key |-> Key, request |-> Request, at |-> now,
                      org |-> run.org, began |-> run.began]
    <2>1. probes' = probes \cup {p0} /\ p0.key = Key
      BY DEF Send
    <2> HIDE DEF p0
    <2>2. Keys(probes)' = Keys(probes) \cup {Key}
      BY <2>1 DEF Keys
    <2>3. Key' = Key
      BY <1>0 DEF Key
    <2> QED BY <2>2, <2>3
  <1>2. RequestKeys' = RequestKeys /\ Keys(evidence)' = Keys(evidence) /\ Keys(audit)' = Keys(audit)
        /\ Keys({a \in audit : a.decision = "allow"})' = Keys({a \in audit : a.decision = "allow"})
    BY <1>0 DEF RequestKeys, Keys
  <1>3. RowsKeyed'
    BY <1>0, <1>2 DEF AnswerInv, RowsKeyed
  <1>4. OutcomesSound'
    BY <1>0, <1>1 DEF AnswerInv, OutcomesSound, WithStatus, Keys
  <1>5. RoundSound'
    BY <1>0, <1>1, <1>2 DEF AnswerInv, RoundSound, Dealt, Logged
  <1> QED BY <1>3, <1>4, <1>5 DEF AnswerInv

LEMMA AnsweredAnswers ==
  ASSUME AnswerInv, TypeInv', NEW going \in Goings, Answered(going)
  PROVE  AnswerInv'
  <1>0. /\ run.phase = "probing" /\ Advance
        /\ audit' = audit /\ probes' = probes /\ triages' = triages
    BY DEF Answered
  <1>1. PICK status \in {"executed", "failed"} : Record(status)
    BY DEF Answered
  <1>2. /\ Key \notin Keys(evidence) /\ run.done \in Nat
        /\ Key \in Keys({a \in audit : a.decision = "allow"}) /\ Key \in Keys(probes)
    BY <1>0, KeyIsNew DEF Working, AnswerInv, RoundSound
  <1>3. /\ IsFiniteSet(evidence')
        /\ evidence' \subseteq [key : RequestKeys', status : Statuses]
        /\ \A e, f \in evidence' : e.key = f.key => e = f
        /\ \A k \in Keys(evidence)' : k.index > 1 => [k EXCEPT !.index = @ - 1] \in Keys(evidence)'
        /\ \A k \in Keys(evidence)' : Dealt(k, run.done)'
        /\ \A i \in 1..run'.done :
             [run |-> run'.number, round |-> run'.round, index |-> i] \in Keys(evidence)'
    BY <1>0, <1>1, RecordAdvances DEF Working, Statuses
  <1>4. /\ run'.phase \in {"asking", "checking"} /\ run'.number = run.number
        /\ run'.round = run.round /\ run'.done = run.done + 1
    BY <1>0, AdvanceFields DEF AnswerInv, Steady, Working
  <1>5. RowsKeyed'
    <2>1. RequestKeys' = RequestKeys
      BY <1>0 DEF RequestKeys
    <2> QED BY <1>0, <1>3, <2>1 DEF AnswerInv, RowsKeyed, Statuses
  <1>6. OutcomesSound'
    <2> DEFINE e0 == [key |-> Key, status |-> status]
    <2>1. evidence' = evidence \cup {e0} /\ e0.key = Key /\ e0.status = status
      BY <1>1 DEF Record
    <2> HIDE DEF e0
    <2>2. /\ WithStatus({"rejected"})' = WithStatus({"rejected"})
          /\ WithStatus({"denied"})' = WithStatus({"denied"})
          /\ WithStatus({"executed", "failed"})' = WithStatus({"executed", "failed"}) \cup {Key}
      BY <1>1, <2>1, OutcomeAdds
    <2>3. /\ Keys(audit)' = Keys(audit) /\ Keys(probes)' = Keys(probes)
          /\ Keys({a \in audit : a.decision = "allow"})' = Keys({a \in audit : a.decision = "allow"})
          /\ Keys({a \in audit : a.decision # "allow"})' = Keys({a \in audit : a.decision # "allow"})
      BY <1>0
    <2> QED BY <1>2, <2>2, <2>3 DEF AnswerInv, OutcomesSound
  <1>7. \A k \in Keys(audit)' : Dealt(k, Logged)'
    <2>1. \A k \in Keys(audit) : Dealt(k, run.done + 1) /\ k.index \in Nat
      BY <1>0 DEF AnswerInv, RoundSound, RowsKeyed, Logged, Keys, RequestKeys
    <2> QED BY <1>0, <1>2, <1>4, <2>1 DEF Dealt, Logged, Keys
  <1>8. RoundSound'
    BY <1>3, <1>4, <1>7 DEF RoundSound
  <1> QED BY <1>5, <1>6, <1>8 DEF AnswerInv

\* Undoing a run undoes all that it wrote and nothing else.
LEMMA AbortAnswers ==
  ASSUME AnswerInv, TypeInv', Abort
  PROVE  AnswerInv'
  <1>0. /\ run' = Idle /\ probes' = probes /\ triages' = triages
        /\ evidence' = Kept(evidence) /\ audit' = Kept(audit)
    BY DEF Abort
  <1>1. evidence' \subseteq evidence /\ audit' \subseteq audit /\ RequestKeys' = RequestKeys
    BY <1>0 DEF Kept, RequestKeys
  <1>2. IsFiniteSet(evidence')
    BY <1>1, FS_Subset DEF AnswerInv, RowsKeyed
  <1>3. \A k \in Keys(evidence)' : k.index > 1 => [k EXCEPT !.index = @ - 1] \in Keys(evidence)'
    <2> SUFFICES ASSUME NEW k \in Keys(evidence)', k.index > 1
                 PROVE  [k EXCEPT !.index = @ - 1] \in Keys(evidence)'
      OBVIOUS
    <2>1. k \in Keys(evidence) /\ k.run # run.number /\ k \in RequestKeys
      BY <1>0 DEF Keys, Kept, AnswerInv, RowsKeyed
    <2>2. [k EXCEPT !.index = @ - 1] \in Keys(evidence)
      BY <2>1 DEF AnswerInv, RowsKeyed
    <2>3. [k EXCEPT !.index = @ - 1].run = k.run
      BY <2>1 DEF RequestKeys
    <2> QED BY <1>0, <2>1, <2>2, <2>3 DEF Keys, Kept
  <1>4. RowsKeyed'
    BY <1>1, <1>2, <1>3 DEF AnswerInv, RowsKeyed
  <1>5. OutcomesSound'
    <2>1. /\ \A s \in SUBSET Statuses :
               WithStatus(s)' = {k \in WithStatus(s) : k.run # run.number}
          /\ Keys({a \in audit : a.decision = "allow"})'
               = {k \in Keys({a \in audit : a.decision = "allow"}) : k.run # run.number}
          /\ Keys({a \in audit : a.decision # "allow"})'
               = {k \in Keys({a \in audit : a.decision # "allow"}) : k.run # run.number}
          /\ Keys(audit)' \subseteq Keys(audit) /\ Keys(probes)' = Keys(probes)
      BY <1>0 DEF WithStatus, Keys, Kept
    <2>2. {"rejected"} \in SUBSET Statuses /\ {"denied"} \in SUBSET Statuses
          /\ {"executed", "failed"} \in SUBSET Statuses
      BY DEF Statuses
    <2> QED BY <2>1, <2>2 DEF AnswerInv, OutcomesSound
  <1>6. RoundSound'
    BY <1>0 DEF RoundSound, Idle
  <1> QED BY <1>4, <1>5, <1>6 DEF AnswerInv

LEMMA InitAnswers == Init => AnswerInv
  <1> SUFFICES ASSUME Init PROVE AnswerInv
    OBVIOUS
  <1>1. evidence = {} /\ audit = {} /\ probes = {} /\ run.phase = "idle" /\ TypeInv
    BY InitTypes DEF Init, Idle
  <1>2. RowsKeyed /\ OutcomesSound
    BY <1>1, FS_EmptySet DEF RowsKeyed, OutcomesSound, WithStatus, Keys
  <1> QED BY <1>1, <1>2 DEF AnswerInv, RoundSound

LEMMA BeginAnswers ==
  ASSUME AnswerInv, TypeInv', NEW slug, NEW flag, Begin(slug, flag)
  PROVE  AnswerInv'
  <1>1. run.phase = "idle" /\ triages' = triages + 1 /\ UNCHANGED history /\ triages \in Nat
    BY DEF Begin, AnswerInv, TypeInv, RowsSound
  <1>2. ASSUME NEW phase \in {"asking", "reading_seeds"}, NEW org, NEW lists,
               run' = Started(slug, flag, phase, org, lists)
        PROVE  run'.done = 0 /\ run'.phase \notin Working /\ run'.number = triages + 1
    BY <1>2 DEF Started, Working
  <1>3. run'.done = 0 /\ run'.phase \notin Working /\ run'.number = triages + 1
    BY <1>2 DEF Begin
  <1> QED BY <1>1, <1>3, AnswersStay

LEMMA StepAnswers == AnswerInv /\ [Next]_vars => AnswerInv'
  <1> SUFFICES ASSUME AnswerInv, [Next]_vars PROVE AnswerInv'
    OBVIOUS
  <1>0. TypeInv' /\ triages \in Nat
    BY StepTypes DEF AnswerInv, TypeInv, RowsSound
  <1>1. ASSUME UNCHANGED history, triages' = triages, run' = Idle \/ run' = run
        PROVE  AnswerInv'
    BY <1>0, <1>1, AnswersStay
  <1>2. CASE Administer
    BY <1>1, <1>2, AdministerTypes DEF AnswerInv, TypeInv
  <1>3. ASSUME NEW slug \in Slugs \cup {NoOrg}, NEW flag \in BOOLEAN, Begin(slug, flag)
        PROVE  AnswerInv'
    BY <1>0, <1>3, BeginAnswers
  <1>4. CASE ReadSeeds \/ ReadExclusions \/ Conclude
    <2>1. /\ UNCHANGED history /\ triages' = triages
          /\ run.phase \in Building \cup {"asking"} /\ run.phase \notin Working \cup {"idle"}
      BY <1>4 DEF ReadSeeds, ReadExclusions, Conclude, OnlyRun, Building, Working
    <2>2. DOMAIN run = RunFields
      BY <2>1, Fields DEF AnswerInv, TypeInv
    <2>3. /\ run'.number = run.number /\ run'.round = run.round /\ run'.done = run.done
          /\ run'.phase \notin Working
      BY <1>4, <2>2 DEF ReadSeeds, ReadExclusions, Conclude, RunFields, Working
    <2> QED BY <1>0, <2>1, <2>3, AnswersStay
  <1>5. ASSUME NEW requests \in Asked, Ask(requests)
        PROVE  AnswerInv'
    <2>1. UNCHANGED history /\ triages' = triages
      BY <1>5 DEF Ask, OnlyRun
    <2>2. /\ run.phase = "asking" /\ run'.phase = "checking"
          /\ run'.number = run.number /\ run'.round = run.round + 1 /\ run'.done = 0
      BY <1>5, AskFields DEF AnswerInv, Steady
    <2>3. run.phase \notin Working \cup {"idle"}
      BY <2>2 DEF Working
    <2> QED BY <1>0, <2>1, <2>2, <2>3, AnswersStay
  <1>6. CASE Reject
    BY <1>0, <1>6, RejectAnswers
  <1>7. CASE Check
    BY <1>0, <1>7, CheckAnswers
  <1>8. CASE Send
    BY <1>0, <1>8, SendAnswers
  <1>9. ASSUME NEW going \in Goings, Answered(going)
        PROVE  AnswerInv'
    BY <1>0, <1>9, AnsweredAnswers
  <1>10. CASE Tick \/ Commit \/ UNCHANGED vars
    BY <1>1, <1>10 DEF Tick, Commit, vars
  <1>11. CASE Abort
    BY <1>0, <1>11, AbortAnswers
  <1> QED BY <1>2, <1>3, <1>4, <1>5, <1>6, <1>7, <1>8, <1>9, <1>10, <1>11 DEF Next

\* Rows that differ in their keys are as many as their keys.
LEMMA AsManyKeys ==
  ASSUME NEW rows, IsFiniteSet(rows), \A e, f \in rows : e.key = f.key => e = f
  PROVE  Cardinality(rows) = Cardinality(Keys(rows))
  <1> DEFINE keyOf == [e \in rows |-> e.key]
  <1>1. keyOf \in Bijection(rows, Keys(rows))
    BY DEF Bijection, Injection, IsInjective, Surjection, Keys
  <1> QED BY <1>1, FS_Bijection DEF ExistsBijection

LEMMA AnswersGiven == AnswerInv => EveryRequestAnswered
  <1> SUFFICES ASSUME AnswerInv PROVE EveryRequestAnswered
    OBVIOUS
  <1>1. Cardinality(evidence) = Cardinality(Keys(evidence))
    BY AsManyKeys DEF AnswerInv, RowsKeyed
  <1>2. \A k \in Keys(evidence) : k.index \in 1..MaxToolCalls /\ k.round \in 1..MaxRounds
    BY DEF AnswerInv, RowsKeyed, RequestKeys, Keys
  <1>3. ASSUME run.phase = "asking"
        PROVE  DOMAIN run.queue = 1..run.done
               /\ \A i \in 1..run.done :
                    [run |-> run.number, round |-> run.round, index |-> i] \in Keys(evidence)
    <2>1. QueueSound
      BY <1>3, Fields DEF AnswerInv, TypeInv
    <2>2. DOMAIN run.queue = 1..run.done
      BY <1>3, <2>1, LenProperties DEF QueueSound
    <2> QED BY <1>3, <2>2 DEF AnswerInv, RoundSound
  <1> QED BY <1>1, <1>2, <1>3 DEF AnswerInv, RowsKeyed, OutcomesSound, EveryRequestAnswered

\* Between any two of the run's steps, for any requests a model may make: every
\* request of a finished round has left one evidence row behind, of the status
\* that its audit row and its probe say (execute_verifications).
THEOREM EveryRequestIsAnswered == Spec => []EveryRequestAnswered
  <1>1. Spec => []AnswerInv
    BY InitAnswers, StepAnswers, PTL DEF Spec
  <1> QED BY <1>1, AnswersGiven, PTL

-----------------------------------------------------------------------------
(* The pace *)

\* The limiter remembers the last probe of the run to a host, or a later one.
PaceSound ==
  /\ \A p \in probes : p.at \in 0..now /\ p.key.run \in 1..triages
  /\ run.phase # "idle" =>
       /\ \A h \in DOMAIN run.last : run.last[h] \in 0..now
       /\ \A p \in probes :
            p.key.run = run.number =>
              RateKey(Text(p.request)) \in DOMAIN run.last /\ p.at <= run.last[RateKey(Text(p.request))]

PaceInv == TypeInv /\ PaceSound /\ Paced

\* Steps that send nothing: the memory of the limiter lasts the run, and a new
\* run begins with none and has no probes.
LEMMA PaceStays ==
  ASSUME PaceInv, TypeInv', probes' = probes, now' >= now, triages' >= triages,
         \/ run' = Idle
         \/ run' = run
         \/ run.phase # "idle" /\ run'.number = run.number /\ run'.last = run.last
         \/ run'.number = triages + 1 /\ run'.last = <<>>
  PROVE  PaceInv'
  <1>0. now \in Nat /\ now' \in Nat /\ triages \in Nat /\ triages' \in Nat
    BY Constants DEF PaceInv, TypeInv, RowsSound
  <1>1. \A p \in probes' : p.at \in 0..now' /\ p.key.run \in 1..triages'
    BY <1>0 DEF PaceInv, PaceSound
  <1>2. Paced'
    BY DEF PaceInv, Paced
  <1>3. ASSUME run' = Idle
        PROVE  PaceSound'
    BY <1>1, <1>3 DEF PaceSound, Idle
  <1>4. ASSUME run.phase # "idle" /\ run'.number = run.number /\ run'.last = run.last
        PROVE  PaceSound'
    BY <1>0, <1>1, <1>4 DEF PaceInv, PaceSound
  <1>5. ASSUME run' = run
        PROVE  PaceSound'
    BY <1>0, <1>1, <1>5 DEF PaceInv, PaceSound
  <1>6. ASSUME run'.number = triages + 1 /\ run'.last = <<>>
        PROVE  PaceSound'
    <2>1. DOMAIN run'.last = {}
      BY <1>6
    <2>2. \A p \in probes' : p.key.run # run'.number
      BY <1>0, <1>6 DEF PaceInv, PaceSound
    <2> QED BY <1>1, <2>1, <2>2 DEF PaceSound
  <1> QED BY <1>2, <1>3, <1>4, <1>5, <1>6 DEF PaceInv

\* The limiter remembers the host that was sent to, as of now, and the others as
\* it did.
LEMMA LimiterRemembers ==
  ASSUME NEW text
  PROVE  /\ DOMAIN Remembered(text) = DOMAIN run.last \cup {RateKey(text)}
         /\ Remembered(text)[RateKey(text)] = now
         /\ \A h \in DOMAIN run.last : h # RateKey(text) => Remembered(text)[h] = run.last[h]
  BY DEF Remembered

LEMMA SendPace ==
  ASSUME PaceInv, TypeInv', Send
  PROVE  PaceInv'
  <1> DEFINE p0 == [key |-> Key, request |-> Request, at |-> now,
                    org |-> run.org, began |-> run.began]
             rateKey == RateKey(Text(Request))
  <1>1. /\ run.phase = "pacing" /\ now' = now /\ triages' = triages
        /\ probes' = probes \cup {p0}
        /\ rateKey \in DOMAIN run.last => now >= run.last[rateKey] + Interval
    BY DEF Send
  <1>2. p0.key.run = run.number /\ RateKey(Text(p0.request)) = rateKey /\ p0.at = now
    BY DEF Key
  <1>3. /\ run.number = triages /\ triages > 0 /\ triages \in Nat /\ now \in Nat
        /\ run'.number = run.number /\ run'.last = Remembered(Text(Request)) /\ run'.phase = "probing"
    BY <1>1, Fields, SendFields, Constants DEF PaceInv, TypeInv, RowsSound, Steady
  <1>4. /\ DOMAIN run'.last = DOMAIN run.last \cup {rateKey} /\ run'.last[rateKey] = now
        /\ \A h \in DOMAIN run.last : h # rateKey => run'.last[h] = run.last[h]
    BY <1>3, LimiterRemembers
  <1>5. /\ \A p \in probes : p.at \in 0..now /\ p.key.run \in 1..triages
        /\ \A h \in DOMAIN run.last : run.last[h] \in 0..now
        /\ \A p \in probes :
             p.key.run = run.number =>
               RateKey(Text(p.request)) \in DOMAIN run.last /\ p.at <= run.last[RateKey(Text(p.request))]
    BY <1>1 DEF PaceInv, PaceSound
  <1>6. ASSUME NEW p \in probes, p.key.run = p0.key.run,
               Unported(Text(p.request)) = Unported(Text(p0.request))
        PROVE  p0.at >= p.at + Interval
    <2>1. RateKey(Text(p.request)) = rateKey
      BY <1>2, <1>6 DEF RateKey
    <2>2. rateKey \in DOMAIN run.last /\ p.at <= run.last[rateKey] /\ run.last[rateKey] \in 0..now
      BY <1>2, <1>5, <1>6, <2>1
    <2> QED BY <1>1, <1>2, <1>3, <1>5, <2>2, Constants
  <1> HIDE DEF p0, rateKey
  <1>7. Paced'
    BY <1>1, <1>6 DEF PaceInv, Paced
  <1>8. PaceSound'
    <2>1. \A p \in probes' : p.at \in 0..now' /\ p.key.run \in 1..triages'
      BY <1>1, <1>2, <1>3, <1>5
    <2>2. \A h \in DOMAIN run'.last : run'.last[h] \in 0..now'
      BY <1>1, <1>3, <1>4, <1>5
    <2>3. ASSUME NEW p \in probes', p.key.run = run'.number
          PROVE  RateKey(Text(p.request)) \in DOMAIN run'.last /\ p.at <= run'.last[RateKey(Text(p.request))]
      <3>1. CASE p = p0
        BY <1>2, <1>3, <1>4, <3>1
      <3>2. CASE p \in probes
        BY <1>3, <1>4, <1>5, <2>3, <3>2
      <3> QED BY <1>1, <2>3, <3>1, <3>2
    <2> QED BY <2>1, <2>2, <2>3 DEF PaceSound
  <1> QED BY <1>7, <1>8 DEF PaceInv

LEMMA InitPace == Init => PaceInv
  BY InitTypes DEF Init, PaceInv, PaceSound, Paced, Idle

LEMMA StepPace == PaceInv /\ [Next]_vars => PaceInv'
  <1> SUFFICES ASSUME PaceInv, [Next]_vars PROVE PaceInv'
    OBVIOUS
  <1>0. TypeInv' /\ triages \in Nat /\ now \in Nat
    BY StepTypes, Constants DEF PaceInv, TypeInv, RowsSound
  <1>1. ASSUME probes' = probes, now' \in {now, now + 1}, triages' = triages,
               run' = Idle \/ run' = run
        PROVE  PaceInv'
    BY <1>0, <1>1, PaceStays
  <1>2. ASSUME probes' = probes, now' = now, triages' = triages,
               run.phase # "idle", run'.number = run.number, run'.last = run.last
        PROVE  PaceInv'
    BY <1>0, <1>2, PaceStays
  <1>3. CASE Administer
    BY <1>1, <1>3, AdministerTypes DEF PaceInv, TypeInv, history
  <1>4. ASSUME NEW slug \in Slugs \cup {NoOrg}, NEW flag \in BOOLEAN, Begin(slug, flag)
        PROVE  PaceInv'
    <2>1. probes' = probes /\ now' = now /\ triages' = triages + 1
      BY <1>4 DEF Begin, history
    <2>2. run'.number = triages + 1 /\ run'.last = <<>>
      BY <1>4 DEF Begin, Started
    <2> QED BY <1>0, <2>1, <2>2, PaceStays
  <1>5. CASE ReadSeeds \/ ReadExclusions \/ Conclude
    <2>1. /\ probes' = probes /\ now' = now /\ triages' = triages
          /\ run.phase \in Building \cup {"asking"} /\ run.phase # "idle"
      BY <1>5 DEF ReadSeeds, ReadExclusions, Conclude, OnlyRun, history, Building
    <2>2. DOMAIN run = RunFields
      BY <2>1, Fields DEF PaceInv, TypeInv
    <2>3. run'.number = run.number /\ run'.last = run.last
      BY <1>5, <2>2 DEF ReadSeeds, ReadExclusions, Conclude, RunFields
    <2> QED BY <1>2, <2>1, <2>3
  <1>6. ASSUME NEW requests \in Asked, Ask(requests)
        PROVE  PaceInv'
    <2>1. probes' = probes /\ now' = now /\ triages' = triages
      BY <1>6 DEF Ask, OnlyRun, history
    <2>2. run.phase = "asking" /\ run'.number = run.number /\ run'.last = run.last
      BY <1>6, AskFields DEF PaceInv, Steady
    <2> QED BY <1>2, <2>1, <2>2
  <1>7. ASSUME run.phase \in Working, Advance, probes' = probes, now' = now, triages' = triages
        PROVE  PaceInv'
    <2>1. run'.number = run.number /\ run'.last = run.last /\ run.phase # "idle"
      BY <1>7, AdvanceFields DEF PaceInv, Steady, Working
    <2> QED BY <1>2, <1>7, <2>1
  <1>8. CASE Reject
    BY <1>7, <1>8 DEF Reject, Working
  <1>9. CASE Check
    <2>1. probes' = probes /\ now' = now /\ triages' = triages
      BY <1>9 DEF Check
    <2>2. run.phase = "checking" /\ run'.number = run.number /\ run'.last = run.last
      BY <1>9, CheckFields DEF PaceInv, Steady
    <2> QED BY <1>2, <2>1, <2>2
  <1>10. CASE Send
    BY <1>0, <1>10, SendPace
  <1>11. ASSUME NEW going \in Goings, Answered(going)
         PROVE  PaceInv'
    BY <1>7, <1>11 DEF Answered, Working
  <1>12. CASE Tick \/ Commit \/ Abort \/ UNCHANGED vars
    BY <1>1, <1>12 DEF Tick, Commit, Abort, vars, history
  <1> QED BY <1>3, <1>4, <1>5, <1>6, <1>8, <1>9, <1>10, <1>11, <1>12 DEF Next

\* For any interval and any requests, two probes of a run whose texts name a host
\* alike keep the interval between them: ports, tools and rounds share the limiter's memory of
\* a host (HostRateLimiter.acquire).
THEOREM ProbesArePaced == Spec => []Paced
  <1>1. Spec => []PaceInv
    BY InitPace, StepPace, PTL DEF Spec
  <1> QED BY <1>1, PTL DEF PaceInv

===============================================================================
