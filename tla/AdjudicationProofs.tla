-------------------------- MODULE AdjudicationProofs --------------------------
(***************************************************************************)
(* Theorems about Adjudication for every set of findings, answers, models, *)
(* pins and runs: what a triage run may store, what it may send, and what  *)
(* all of them may spend.                                                  *)
(***************************************************************************)
EXTENDS Adjudication, FiniteSetTheorems, WellFoundedInduction, TLAPS

\* What a stored row owes to the checks, and what a round's result owes to them
\* while nothing has forced a human decision yet.
RowSound(row) ==
  row.value # "needs_human" =>
    /\ row.value = row.answer.value
    /\ row.answer \in row.heard
    /\ \A a \in row.heard : ~Flagged(row.finding, a)
    /\ ~row.answer.wantsMore
Cleared(f, result) ==
  /\ result.answer \in result.heard
  /\ \A a \in result.heard : ~Flagged(f, a)

\* A bulk answer is in hand from the moment it is accepted.
Answered(d) ==
  d.phase \in {"escalate", "settle"} \/ (d.phase = "call" /\ d.pass = "escalation")

RunSound(d) ==
  /\ d.finding = NoFinding => d.phase \in {"idle", "choose", "finish"}
  /\ \A row \in d.wrote : RowSound(row)
  /\ Answered(d) /\ ~d.result.forced => Cleared(d.finding, d.result)
  /\ d.phase = "call" => ~RedactionRefuses(d.finding, d.model)

IInv ==
  /\ TypeOK
  /\ \A row \in rows : RowSound(row)
  /\ \A r \in Runs : RunSound(run[r])
  /\ LocalOnlyStaysLocal

-----------------------------------------------------------------------------
(* Lemmas *)

LEMMA NoResultType == NoResult \in Result
  <1>1. Synthetic \in Answer
    BY DEF Synthetic, Answer, Values
  <1>2. DefaultSelection \in Selection
    BY ParametersAssumption
  <1>3. DefaultSelection.model \in Models
    BY <1>2 DEF Selection
  <1> HIDE DEF Synthetic
  <1> QED BY <1>1, <1>2, <1>3 DEF NoResult, Result

LEMMA ClosedSound == Closed \in RunState /\ RunSound(Closed)
  <1>1. Closed \in RunState
    <2> HIDE DEF NoResult
    <2> QED BY NoResultType, ParametersAssumption
        DEF Closed, RunState, Phases, Passes, MaxRounds
  <1> QED BY <1>1 DEF Closed, RunSound, Answered

LEMMA PriceType == \A s : PriceOf(s) \in Nat
  BY ParametersAssumption DEF PriceOf

LEMMA ModelForType ==
  ASSUME TypeOK, NEW f \in Findings, NEW role \in {"bulk", "escalation"}
  PROVE  ModelFor(role, f) \in Selection
  BY ParametersAssumption DEF TypeOK, ModelFor

LEMMA FallbackType ==
  /\ FallbackSelection \in Selection
  /\ IsLocal(FallbackSelection)
  <1>1. DefaultSelection.model \in Models
    BY ParametersAssumption DEF Selection
  <1>2. "ollama" \in Providers
    BY ParametersAssumption
  <1>3. FallbackSelection.provider = "ollama"
    BY DEF FallbackSelection
  <1>4. FallbackSelection \in Selection
    BY <1>1, <1>2 DEF FallbackSelection, Selection
  <1>5. IsLocal(FallbackSelection)
    BY <1>3, ParametersAssumption DEF IsLocal
  <1> QED BY <1>4, <1>5

\* Giving one run a sound record, and sending nothing it must not send, keeps
\* the invariant.
LEMMA StepSound ==
  ASSUME IInv, NEW r \in Runs, NEW d \in RunState, RunSound(d), Step(r, d),
         paid' \in Nat, sent' \subseteq [finding : Findings, local : BOOLEAN],
         LocalOnlyStaysLocal'
  PROVE  IInv'
  <1>1. run' \in [Runs -> RunState] /\ \A q \in Runs : RunSound(run'[q])
    BY DEF IInv, TypeOK, Step
  <1>2. \A q \in Runs :
          run'[q].finding = NoFinding => run'[q].phase \in {"idle", "choose", "finish"}
    BY <1>1 DEF RunSound
  <1>3. TypeOK'
    BY <1>1, <1>2 DEF IInv, TypeOK, Step
  <1>4. (\A row \in rows : RowSound(row))'
    BY DEF IInv, Step, RowSound
  <1>5. (\A q \in Runs : RunSound(run[q]))'
    BY <1>1
  <1> QED BY <1>3, <1>4, <1>5 DEF IInv

LEMMA QuietSound ==
  ASSUME IInv, NEW r \in Runs, NEW d \in RunState, RunSound(d), Step(r, d), Quietly
  PROVE  IInv'
  <1>1. paid' \in Nat /\ sent' \subseteq [finding : Findings, local : BOOLEAN]
    BY DEF IInv, TypeOK, Quietly
  <1>2. LocalOnlyStaysLocal'
    BY DEF IInv, LocalOnlyStaysLocal, Quietly
  <1> QED BY <1>1, <1>2, StepSound

\* What a call under way sends is what its bundle was allowed to hold.
LEMMA TransmitSound ==
  ASSUME IInv, NEW r \in Runs, run[r].phase = "call", Transmit(r)
  PROVE  /\ sent' \subseteq [finding : Findings, local : BOOLEAN]
         /\ LocalOnlyStaysLocal'
  <1> DEFINE s == [finding |-> run[r].finding, local |-> IsLocal(run[r].model)]
  <1>1. run[r].finding \in Findings
    BY DEF IInv, TypeOK, RunState
  <1>2. Traits[run[r].finding].localOnly => IsLocal(run[r].model)
    BY DEF IInv, RunSound, RedactionRefuses
  <1>3. sent' = sent \cup {s}
    BY DEF Transmit
  <1>4. IsLocal(run[r].model) \in BOOLEAN
    BY DEF IsLocal
  <1>5. sent' \subseteq [finding : Findings, local : BOOLEAN]
    BY <1>1, <1>3, <1>4 DEF IInv, TypeOK
  <1>6. LocalOnlyStaysLocal'
    BY <1>2, <1>3 DEF IInv, LocalOnlyStaysLocal
  <1> QED BY <1>5, <1>6

LEMMA ChargeSound ==
  ASSUME IInv, NEW r \in Runs, NEW d \in RunState, RunSound(d),
         run[r].phase = "call", Step(r, d), Charge(r)
  PROVE  IInv'
  <1>1. paid' \in Nat
    BY PriceType DEF IInv, TypeOK, Charge
  <1>2. Transmit(r)
    BY DEF Charge
  <1> QED BY <1>1, <1>2, TransmitSound, StepSound
-----------------------------------------------------------------------------
(* Steps *)

LEMMA LoopSound ==
  ASSUME IInv, NEW r \in Runs, NEW f \in Findings, Choose(r, f) \/ Skip(r, f)
  PROVE  IInv'
  <1> DEFINE d == run[r]
             e1 == [d EXCEPT !.phase = "lookup", !.finding = f, !.rounds = 0,
                             !.todo = d.todo \ {f}]
             e2 == [d EXCEPT !.todo = d.todo \ {f}]
  <1>1. d \in RunState /\ RunSound(d)
    BY DEF IInv, TypeOK
  <1>2. CASE Choose(r, f)
    <2>1. e1 \in RunState
      <3>1. 0 \in 0..MaxRounds
        BY DEF MaxRounds
      <3>2. d.todo \ {f} \in SUBSET Findings
        BY <1>1 DEF RunState
      <3> QED BY <1>1, <3>1, <3>2 DEF RunState, Phases
    <2>2. RunSound(e1)
      BY <1>1, <2>1, ParametersAssumption DEF RunState, RunSound, Answered
    <2>3. Step(r, e1) /\ Quietly
      BY <1>2 DEF Choose
    <2> HIDE DEF e1
    <2> QED BY <2>1, <2>2, <2>3, QuietSound
  <1>3. CASE Skip(r, f)
    <2>1. e2 \in RunState
      BY <1>1 DEF RunState
    <2>2. RunSound(e2)
      BY <1>1, <1>3 DEF RunState, RunSound, Answered, Skip
    <2>3. Step(r, e2) /\ Quietly
      BY <1>3 DEF Skip
    <2> HIDE DEF e2
    <2> QED BY <2>1, <2>2, <2>3, QuietSound
  <1> QED BY <1>2, <1>3

\* A step that only moves to another phase, one that expects no answer or one
\* that keeps the answer in hand.
LEMMA MoveSound ==
  ASSUME IInv, NEW r \in Runs, NEW p \in Phases \ {"idle", "call", "lookup"},
         run[r].phase \in {"lookup", "escalate"},
         p \in {"escalate", "settle"} => Answered(run[r]),
         Step(r, [run[r] EXCEPT !.phase = p]), Quietly
  PROVE  IInv'
  <1> DEFINE d == run[r]  e == [d EXCEPT !.phase = p]
  <1>1. d \in RunState /\ RunSound(d)
    BY DEF IInv, TypeOK
  <1>2. e \in RunState
    BY <1>1 DEF RunState
  <1>3. RunSound(e)
    BY <1>1 DEF RunState, RunSound, Answered, Phases
  <1>4. Step(r, e)
    OBVIOUS
  <1> HIDE DEF e
  <1> QED BY <1>2, <1>3, <1>4, QuietSound

LEMMA ResetSound ==
  ASSUME IInv, NEW r \in Runs, RedactionTrips(r) \/ DeadlockVictim(r) \/ Abort(r)
  PROVE  IInv'
  BY ClosedSound, QuietSound DEF RedactionTrips, DeadlockVictim, Abort

LEMMA CallBulkSound ==
  ASSUME IInv, NEW r \in Runs, CallBulk(r)
  PROVE  IInv'
  <1> DEFINE d == run[r]
             s == ModelFor("bulk", d.finding)
             n == [NoResult EXCEPT !.key = s.model, !.model = s]
             e == [d EXCEPT !.phase = "call", !.pass = "bulk", !.model = s,
                            !.retried = FALSE, !.result = n]
  <1>1. d \in RunState /\ RunSound(d) /\ d.phase = "lookup"
    BY DEF IInv, TypeOK, CallBulk
  <1>2. d.finding \in Findings
    BY <1>1 DEF RunState, RunSound
  <1>3. s \in Selection
    BY <1>2, ModelForType DEF IInv
  <1>4. n \in Result
    <2>1. s.model \in Models
      BY <1>3 DEF Selection
    <2> HIDE DEF s
    <2> QED BY <1>3, <2>1, NoResultType DEF Result
  <1>5. ~RedactionRefuses(d.finding, s) /\ Step(r, e) /\ Quietly
    BY DEF CallBulk
  <1>6. e \in RunState
    <2> HIDE DEF s, n
    <2> QED BY <1>1, <1>3, <1>4 DEF RunState, Phases, Passes
  <1>7. RunSound(e)
    <2> HIDE DEF s, n
    <2> QED BY <1>1, <1>2, <1>5, ParametersAssumption DEF RunState, RunSound, Answered
  <1> HIDE DEF e
  <1> QED BY <1>5, <1>6, <1>7, QuietSound

LEMMA CallEscalationSound ==
  ASSUME IInv, NEW r \in Runs, CallEscalation(r)
  PROVE  IInv'
  <1> DEFINE d == run[r]
             s == ModelFor("escalation", d.finding)
             e == [d EXCEPT !.phase = "call", !.pass = "escalation", !.model = s,
                            !.retried = FALSE]
  <1>1. d \in RunState /\ RunSound(d) /\ d.phase = "escalate"
    BY DEF IInv, TypeOK, CallEscalation
  <1>2. d.finding \in Findings
    BY <1>1 DEF RunState, RunSound
  <1>3. s \in Selection
    BY <1>2, ModelForType DEF IInv
  <1>4. ~RedactionRefuses(d.finding, s) /\ Step(r, e) /\ Quietly
    BY DEF CallEscalation
  <1>5. e \in RunState
    <2> HIDE DEF s
    <2> QED BY <1>1, <1>3 DEF RunState, Phases, Passes
  <1>6. RunSound(e)
    <2> HIDE DEF s
    <2> QED BY <1>1, <1>2, <1>4, ParametersAssumption DEF RunState, RunSound, Answered
  <1> HIDE DEF e
  <1> QED BY <1>4, <1>5, <1>6, QuietSound
\* The members of a record set with one field replaced.
LEMMA ResultWith ==
  ASSUME NEW result \in Result, NEW s \in Selection
  PROVE  /\ [result EXCEPT !.model = s] \in Result
         /\ [result EXCEPT !.forced = TRUE] \in Result
  BY DEF Result

LEMMA RetrySound ==
  ASSUME IInv, NEW r \in Runs, Retry(r)
  PROVE  IInv'
  <1> DEFINE d == run[r]  e == [d EXCEPT !.retried = TRUE]
  <1>1. d \in RunState /\ RunSound(d) /\ d.phase = "call"
    BY DEF IInv, TypeOK, Retry
  <1>2. e \in RunState
    BY <1>1 DEF RunState
  <1>3. RunSound(e)
    BY <1>1 DEF RunState, RunSound, Answered
  <1>4. Step(r, e) /\ Charge(r)
    BY DEF Retry
  <1> HIDE DEF e
  <1> QED BY <1>1, <1>2, <1>3, <1>4, ChargeSound

LEMMA ProviderFailsSound ==
  ASSUME IInv, NEW r \in Runs, ProviderFails(r)
  PROVE  IInv'
  <1> DEFINE d == run[r]  e == [d EXCEPT !.phase = "choose"]
  <1>1. d \in RunState /\ RunSound(d) /\ d.phase = "call"
    BY DEF IInv, TypeOK, ProviderFails
  <1>2. e \in RunState
    BY <1>1 DEF RunState, Phases
  <1>3. RunSound(e)
    BY <1>1 DEF RunState, RunSound, Answered
  <1>4. Step(r, e) /\ Transmit(r) /\ paid' \in Nat
    BY DEF ProviderFails, IInv, TypeOK
  <1> HIDE DEF e
  <1> QED BY <1>1, <1>2, <1>3, <1>4, TransmitSound, StepSound

LEMMA NoAnswerSound ==
  ASSUME IInv, NEW r \in Runs, NoAnswer(r)
  PROVE  IInv'
  <1> DEFINE d == run[r]
             n1 == [d.result EXCEPT !.model = FallbackSelection]
             n2 == [d.result EXCEPT !.forced = TRUE]
             c == LoggedCost(r)
             e1 == [d EXCEPT !.pass = "fallback", !.model = FallbackSelection,
                             !.retried = FALSE, !.cost = c, !.result = n1]
             e2 == [d EXCEPT !.phase = "settle", !.cost = c, !.result = n2]
  <1>1. d \in RunState /\ RunSound(d) /\ d.phase = "call"
    BY DEF IInv, TypeOK, NoAnswer
  <1>2. d.result \in Result /\ d.cost \in Nat
    BY <1>1 DEF RunState
  <1>3. n1 \in Result /\ n2 \in Result /\ n2.forced
    BY <1>2, ResultWith, FallbackType DEF Result
  <1>4. c \in Nat
    BY <1>2, PriceType DEF LoggedCost
  <1>5. Charge(r)
    BY DEF NoAnswer
  <1>6. CASE Step(r, e1)
    <2>1. e1 \in RunState
      <3> HIDE DEF n1, c
      <3> QED BY <1>1, <1>3, <1>4, FallbackType DEF RunState, Passes
    <2>2. RunSound(e1)
      <3>1. ~RedactionRefuses(d.finding, FallbackSelection)
        BY FallbackType DEF RedactionRefuses
      <3> HIDE DEF n1, c
      <3> QED BY <1>1, <3>1 DEF RunState, RunSound, Answered
    <2> HIDE DEF e1
    <2> QED BY <1>1, <1>5, <1>6, <2>1, <2>2, ChargeSound
  <1>7. CASE Step(r, e2)
    <2>1. e2 \in RunState
      <3> HIDE DEF n2, c
      <3> QED BY <1>1, <1>3, <1>4 DEF RunState, Phases
    <2>2. RunSound(e2)
      <3> HIDE DEF n2, c
      <3> QED BY <1>1, <1>3 DEF RunState, RunSound
    <2> HIDE DEF e2
    <2> QED BY <1>1, <1>5, <1>7, <2>1, <2>2, ChargeSound
  <1> QED BY <1>6, <1>7 DEF NoAnswer

LEMMA AcceptBulkSound ==
  ASSUME IInv, NEW r \in Runs, NEW a \in Answers, AcceptBulk(r, a)
  PROVE  IInv'
  <1> DEFINE d == run[r]
             f == d.finding
             p == IF ~a.wantsMore /\ WantsEscalation(f, a) THEN "escalate" ELSE "settle"
             b == CrossCheckForces(f, a) \/ a.hallucinated
             n == [d.result EXCEPT !.answer = a, !.heard = {a}, !.forced = b]
             c == LoggedCost(r)
             e == [d EXCEPT !.phase = p, !.cost = c, !.result = n]
  <1>1. d \in RunState /\ RunSound(d) /\ d.phase = "call"
    BY DEF IInv, TypeOK, AcceptBulk
  <1>2. d.result \in Result /\ d.cost \in Nat
    BY <1>1 DEF RunState
  <1>3. a \in Answer
    BY ParametersAssumption
  <1>4. b = Flagged(f, a) /\ b \in BOOLEAN
    BY <1>3 DEF CrossCheckForces, Flagged, Answer
  <1>5. n \in Result
    <2> HIDE DEF b
    <2> QED BY <1>2, <1>3, <1>4 DEF Result
  <1>6. ~n.forced => Cleared(f, n)
    <2> HIDE DEF b
    <2> QED BY <1>2, <1>4 DEF Result, Cleared
  <1>7. c \in Nat
    BY <1>2, PriceType DEF LoggedCost
  <1>8. p \in {"escalate", "settle"}
    OBVIOUS
  <1>9. e \in RunState
    <2> HIDE DEF n, c, p
    <2> QED BY <1>1, <1>5, <1>7, <1>8 DEF RunState, Phases
  <1>10. RunSound(e)
    <2> HIDE DEF n, c, p
    <2> QED BY <1>1, <1>6, <1>8 DEF RunState, RunSound
  <1>11. Step(r, e) /\ Charge(r)
    BY DEF AcceptBulk
  <1> HIDE DEF e
  <1> QED BY <1>1, <1>9, <1>10, <1>11, ChargeSound
LEMMA AcceptEscalationSound ==
  ASSUME IInv, NEW r \in Runs, NEW a \in Answers, AcceptEscalation(r, a)
  PROVE  IInv'
  <1> DEFINE d == run[r]
             f == d.finding
             before == d.result
             b == StillForced(before.forced, f, a)
             n == [before EXCEPT !.answer = a, !.heard = before.heard \cup {a},
                                 !.by = "escalation", !.model = d.model,
                                 !.forced = b]
             c == LoggedCost(r)
             e == [d EXCEPT !.phase = "settle", !.cost = c, !.result = n]
  <1>1. d \in RunState /\ RunSound(d) /\ d.phase = "call" /\ d.pass = "escalation"
    BY DEF IInv, TypeOK, AcceptEscalation
  <1>2. before \in Result /\ d.cost \in Nat /\ d.model \in Selection
    BY <1>1 DEF RunState
  <1>3. a \in Answer
    BY ParametersAssumption
  <1>4. b = (before.forced \/ Flagged(f, a))
    BY DEF StillForced, CrossCheckForces, Flagged
  <1>5. b \in BOOLEAN
    BY <1>2, <1>3, <1>4 DEF Result, Flagged, Answer
  <1>6. before.heard \cup {a} \in SUBSET Answer
    BY <1>2, <1>3 DEF Result
  <1>7. n \in Result
    <2> HIDE DEF b
    <2> QED BY <1>2, <1>3, <1>5, <1>6 DEF Result
  <1>8. ~n.forced => Cleared(f, n)
    <2>1. n.forced = b /\ n.answer = a /\ n.heard = before.heard \cup {a}
      <3> HIDE DEF b
      <3> QED BY <1>2 DEF Result
    <2>2. ~before.forced => Cleared(f, before)
      BY <1>1 DEF RunSound, Answered
    <2> HIDE DEF n, b
    <2> QED BY <1>4, <2>1, <2>2 DEF Cleared
  <1>9. c \in Nat
    BY <1>2, PriceType DEF LoggedCost
  <1>10. e \in RunState
    <2> HIDE DEF n, c
    <2> QED BY <1>1, <1>7, <1>9 DEF RunState, Phases
  <1>11. RunSound(e)
    <2> HIDE DEF n, c
    <2> QED BY <1>1, <1>8 DEF RunState, RunSound
  <1>12. Step(r, e) /\ Charge(r)
    BY DEF AcceptEscalation
  <1> HIDE DEF e
  <1> QED BY <1>1, <1>10, <1>11, <1>12, ChargeSound

LEMMA VerifySound ==
  ASSUME IInv, NEW r \in Runs, Verify(r)
  PROVE  IInv'
  <1> DEFINE d == run[r]
             n == RoundsAfter(d.rounds)
             e == [d EXCEPT !.phase = "lookup", !.rounds = n]
  <1>1. d \in RunState /\ RunSound(d) /\ d.phase = "settle"
    BY DEF IInv, TypeOK, Verify
  <1>2. n \in 0..MaxRounds
    BY <1>1 DEF RunState, Verify, AsksAgain, RoundsAfter, MaxRounds
  <1>3. e \in RunState
    <2> HIDE DEF n
    <2> QED BY <1>1, <1>2 DEF RunState, Phases
  <1>4. RunSound(e)
    <2> HIDE DEF n
    <2> QED BY <1>1 DEF RunState, RunSound, Answered
  <1>5. Step(r, e) /\ Quietly
    BY DEF Verify
  <1> HIDE DEF e
  <1> QED BY <1>3, <1>4, <1>5, QuietSound

\* The row a run stores is sound: a value other than needs_human is the value of
\* the last answer, which no check held back.
LEMMA StoreVerdictSound ==
  ASSUME IInv, NEW r \in Runs, StoreVerdict(r)
  PROVE  IInv'
  <1> DEFINE d == run[r]
             res == d.result
             v == StoredValue(res)
             row == [finding |-> d.finding, value |-> v, answer |-> res.answer,
                     heard |-> res.heard, rounds |-> d.rounds, key |-> res.key,
                     by |-> res.by, model |-> res.model]
             w == d.wrote \cup {row}
             e == [d EXCEPT !.phase = "choose", !.wrote = w]
  <1>1. d \in RunState /\ RunSound(d) /\ d.phase = "settle"
    BY DEF IInv, TypeOK, StoreVerdict, Storing
  <1>2. d.finding \in Findings /\ res \in Result /\ d.rounds \in 0..MaxRounds
    BY <1>1 DEF RunState, RunSound
  <1>3. v \in Values
    BY <1>2 DEF StoredValue, Values, Result, Answer
  <1>4. row \in Row
    <2> HIDE DEF v, d
    <2> QED BY <1>2, <1>3 DEF Row, Result
  <1>5. RowSound(row)
    <2>1. v # "needs_human" => v = res.answer.value /\ ~res.forced /\ ~res.answer.wantsMore
      BY DEF StoredValue
    <2>2. ~res.forced => Cleared(d.finding, res)
      BY <1>1 DEF RunSound, Answered
    <2>3. /\ row.value = v /\ row.answer = res.answer
          /\ row.heard = res.heard /\ row.finding = d.finding
      OBVIOUS
    <2> HIDE DEF row, v, res
    <2> QED BY <2>1, <2>2, <2>3 DEF RowSound, Cleared
  <1> HIDE DEF row
  <1>6. e \in RunState
    <2>1. w \in SUBSET Row
      BY <1>1, <1>4 DEF RunState
    <2> HIDE DEF w
    <2> QED BY <1>1, <2>1 DEF RunState, Phases
  <1>7. RunSound(e)
    <2>1. \A x \in w : RowSound(x)
      BY <1>1, <1>5 DEF RunSound
    <2> HIDE DEF w
    <2> QED BY <1>1, <2>1 DEF RunState, RunSound, Answered
  <1>8. Step(r, e) /\ Quietly
    BY DEF StoreVerdict, row
  <1> HIDE DEF e
  <1> QED BY <1>6, <1>7, <1>8, QuietSound

LEMMA FinishSound ==
  ASSUME IInv, NEW r \in Runs, Finish(r)
  PROVE  IInv'
  <1>1. run[r] \in RunState /\ RunSound(run[r])
    BY DEF IInv, TypeOK
  <1>2. \A row \in rows' : RowSound(row)
    BY <1>1 DEF IInv, RunSound, Finish
  <1>3. run' \in [Runs -> RunState] /\ \A q \in Runs : RunSound(run'[q])
    BY ClosedSound DEF IInv, TypeOK, Finish
  <1>4. rows' \subseteq Row /\ logged' \in Nat
    BY <1>1 DEF IInv, TypeOK, RunState, Finish
  <1>5. status' \in [Findings -> {"new", "triaging", "triaged"}]
    BY DEF IInv, TypeOK, Finish
  <1>6. UNCHANGED <<pins, paid, sent, starts, repins>>
    BY DEF Finish
  <1>7. \A q \in Runs :
          run'[q].finding = NoFinding => run'[q].phase \in {"idle", "choose", "finish"}
    BY <1>3 DEF RunSound
  <1>8. TypeOK'
    BY <1>3, <1>4, <1>5, <1>6, <1>7 DEF IInv, TypeOK
  <1>9. LocalOnlyStaysLocal'
    BY <1>6 DEF IInv, LocalOnlyStaysLocal
  <1> QED BY <1>2, <1>3, <1>8, <1>9 DEF IInv

LEMMA StartSound ==
  ASSUME IInv, NEW r \in Runs, Start(r)
  PROVE  IInv'
  <1> DEFINE t == {f \in Findings : status[f] = "new"}
             e == [Closed EXCEPT !.phase = "choose", !.todo = t]
  <1>1. t \in SUBSET Findings
    OBVIOUS
  <1>2. e \in RunState
    <2> HIDE DEF t
    <2> QED BY <1>1, ClosedSound DEF RunState, Phases
  <1>3. RunSound(e)
    <2> HIDE DEF t
    <2> QED BY ClosedSound DEF RunState, RunSound, Answered
  <1>4. /\ run' = [run EXCEPT ![r] = e] /\ starts' = starts + 1
        /\ UNCHANGED <<status, rows, logged, pins, paid, sent, repins>>
    BY DEF Start
  <1> HIDE DEF e
  <1>5. run' \in [Runs -> RunState] /\ \A q \in Runs : RunSound(run'[q])
    BY <1>2, <1>3, <1>4 DEF IInv, TypeOK
  <1>6. \A q \in Runs :
          run'[q].finding = NoFinding => run'[q].phase \in {"idle", "choose", "finish"}
    BY <1>5 DEF RunSound
  <1>7. TypeOK'
    BY <1>4, <1>5, <1>6 DEF IInv, TypeOK
  <1>8. LocalOnlyStaysLocal' /\ \A row \in rows' : RowSound(row)
    BY <1>4 DEF IInv, LocalOnlyStaysLocal
  <1> QED BY <1>5, <1>7, <1>8 DEF IInv

\* A step that leaves rows, open runs and what was sent alone.
LEMMA FrameSound ==
  ASSUME IInv, TypeOK', UNCHANGED <<rows, run, sent>>
  PROVE  IInv'
  <1>1. LocalOnlyStaysLocal' /\ \A row \in rows' : RowSound(row)
    BY DEF IInv, LocalOnlyStaysLocal
  <1>2. \A q \in Runs : RunSound(run'[q])
    BY DEF IInv
  <1> QED BY <1>1, <1>2 DEF IInv

-----------------------------------------------------------------------------
(* Theorems *)

LEMMA InitSound == Init => IInv
  <1> SUFFICES ASSUME Init PROVE IInv OBVIOUS
  <1>1. run \in [Runs -> RunState] /\ \A r \in Runs : run[r] = Closed
    BY ClosedSound DEF Init
  <1>2. TypeOK
    BY <1>1 DEF Init, TypeOK, Closed
  <1>3. LocalOnlyStaysLocal
    BY DEF Init, LocalOnlyStaysLocal
  <1>4. \A r \in Runs : RunSound(run[r])
    BY <1>1, ClosedSound
  <1> QED BY <1>2, <1>3, <1>4 DEF Init, IInv

LEMMA AdvanceSound ==
  ASSUME IInv, NEW r \in Runs, Advance(r)
  PROVE  IInv'
  <1>1. CASE \E f \in Findings : Choose(r, f) \/ Skip(r, f)
    BY <1>1, LoopSound
  <1>2. CASE CacheHit(r)
    BY <1>2, MoveSound DEF CacheHit, Phases
  <1>3. CASE CallBulk(r)
    BY <1>3, CallBulkSound
  <1>4. CASE NoStronger(r)
    BY <1>4, MoveSound DEF NoStronger, Phases, Answered
  <1>5. CASE CallEscalation(r)
    BY <1>5, CallEscalationSound
  <1>6. CASE HaltAtCeiling(r)
    BY <1>6, MoveSound DEF HaltAtCeiling, Phases
  <1>7. CASE RedactionTrips(r)
    BY <1>7, ResetSound
  <1>8. CASE Retry(r)
    BY <1>8, RetrySound
  <1>9. CASE ProviderFails(r)
    BY <1>9, ProviderFailsSound
  <1>10. CASE NoAnswer(r)
    BY <1>10, NoAnswerSound
  <1>11. CASE \E a \in Answers : AcceptBulk(r, a) \/ AcceptEscalation(r, a)
    BY <1>11, AcceptBulkSound, AcceptEscalationSound
  <1>12. CASE Verify(r)
    BY <1>12, VerifySound
  <1>13. CASE StoreVerdict(r)
    BY <1>13, StoreVerdictSound
  <1>14. CASE Finish(r)
    BY <1>14, FinishSound
  <1>15. CASE DeadlockVictim(r)
    BY <1>15, ResetSound
  <1> QED BY <1>1, <1>2, <1>3, <1>4, <1>5, <1>6, <1>7, <1>8, <1>9, <1>10, <1>11,
             <1>12, <1>13, <1>14, <1>15 DEF Advance

\* The invariant every theorem below follows from.
THEOREM AdjudicationInvariant == Spec => []IInv
  <1>1. Init => IInv
    BY InitSound
  <1>2. IInv /\ [Next]_vars => IInv'
    <2> SUFFICES ASSUME IInv, [Next]_vars PROVE IInv' OBVIOUS
    <2>1. CASE \E r \in Runs : Start(r) \/ Advance(r) \/ Abort(r)
      BY <2>1, StartSound, AdvanceSound, ResetSound
    <2>2. CASE \E role \in {"bulk", "escalation"}, s \in Selections : Repin(role, s)
      <3>1. TypeOK'
        BY <2>2 DEF IInv, TypeOK, Repin
      <3>2. UNCHANGED <<rows, run, sent>>
        BY <2>2 DEF Repin
      <3> QED BY <3>1, <3>2, FrameSound
    <2>3. CASE UNCHANGED vars
      <3>1. TypeOK'
        BY <2>3 DEF IInv, TypeOK, vars
      <3> QED BY <2>3, <3>1, FrameSound DEF vars
    <2> QED BY <2>1, <2>2, <2>3 DEF Next
  <1> QED BY <1>1, <1>2, PTL DEF Spec

\* Every state of every triage run is well typed.
THEOREM AdjudicationTypes == Spec => []TypeOK
  <1>1. IInv => TypeOK
    BY DEF IInv
  <1> QED BY <1>1, AdjudicationInvariant, PTL

\* Rows of open runs are as sound as committed ones.
LEMMA RowsSound ==
  ASSUME IInv
  PROVE  \A row \in AllRows : RowSound(row)
  BY DEF IInv, RunSound, AllRows

\* Doubt raised in any pass of any round ends with a human.
THEOREM DoubtAlwaysReachesHuman == Spec => []UnsureGoesToHuman
  <1>1. IInv => UnsureGoesToHuman
    BY RowsSound DEF RowSound, UnsureGoesToHuman
  <1> QED BY <1>1, AdjudicationInvariant, PTL

\* No verdict buries a finding of critical base severity.
THEOREM CriticalIsNeverBuried == Spec => []CriticalNeverBuried
  <1>1. IInv => CriticalNeverBuried
    BY RowsSound DEF RowSound, CriticalNeverBuried, Flagged, BuriesCritical
  <1> QED BY <1>1, AdjudicationInvariant, PTL

\* Evidence of a local_only category stays on site.
THEOREM LocalOnlyNeverLeaves == Spec => []LocalOnlyStaysLocal
  <1>1. IInv => LocalOnlyStaysLocal
    BY DEF IInv
  <1> QED BY <1>1, AdjudicationInvariant, PTL

-----------------------------------------------------------------------------
(* What a step makes of the open run that takes it *)

\* What the steps that leave the phase "settle", or never enter it, make of a
\* run: nothing is written or charged, and a new call is below the ceiling.
Onward(r, d) ==
  /\ Step(r, d)
  /\ d.wrote = run[r].wrote /\ d.cost = run[r].cost
  /\ d.phase # "settle"
  /\ d.phase = "call" =>
       \/ run[r].phase = "call" /\ d.model = run[r].model
       \/ ~CeilingReached(r)

LEMMA OnwardSteps ==
  ASSUME IInv, NEW r \in Runs,
         \/ \E f \in Findings : Choose(r, f) \/ Skip(r, f)
         \/ CacheHit(r) \/ CallBulk(r) \/ CallEscalation(r) \/ HaltAtCeiling(r)
         \/ Retry(r) \/ ProviderFails(r) \/ Verify(r)
  PROVE  \E d : Onward(r, d)
  <1> DEFINE o == run[r]
  <1>0. o \in RunState
    BY DEF IInv, TypeOK
  <1>1. ASSUME NEW f \in Findings, Choose(r, f)
        PROVE  \E d : Onward(r, d)
    <2> DEFINE t == o.todo \ {f}
               d == [o EXCEPT !.phase = "lookup", !.finding = f, !.rounds = 0, !.todo = t]
    <2>1. Step(r, d)
      BY <1>1 DEF Choose
    <2>2. d.wrote = o.wrote /\ d.cost = o.cost /\ d.model = o.model /\ d.phase = "lookup"
      <3> HIDE DEF o, t
      <3> QED BY <1>0 DEF RunState
    <2> HIDE DEF d
    <2> QED BY <2>1, <2>2 DEF Onward
  <1>2. ASSUME NEW f \in Findings, Skip(r, f)
        PROVE  \E d : Onward(r, d)
    <2> DEFINE t == o.todo \ {f}
               d == [o EXCEPT !.todo = t]
    <2>1. Step(r, d) /\ o.phase = "choose"
      BY <1>2 DEF Skip
    <2>2. d.wrote = o.wrote /\ d.cost = o.cost /\ d.model = o.model /\ d.phase = o.phase
      <3> HIDE DEF o, t
      <3> QED BY <1>0 DEF RunState
    <2> HIDE DEF d
    <2> QED BY <2>1, <2>2 DEF Onward
  <1>3. CASE CacheHit(r)
    <2> DEFINE d == [o EXCEPT !.phase = "choose"]
    <2>1. Step(r, d)
      BY <1>3 DEF CacheHit
    <2>2. d.wrote = o.wrote /\ d.cost = o.cost /\ d.model = o.model /\ d.phase = "choose"
      <3> HIDE DEF o
      <3> QED BY <1>0 DEF RunState
    <2> HIDE DEF d
    <2> QED BY <2>1, <2>2 DEF Onward
  <1>4. CASE CallBulk(r)
    <2> DEFINE s == ModelFor("bulk", o.finding)
               n == [NoResult EXCEPT !.key = s.model, !.model = s]
               d == [o EXCEPT !.phase = "call", !.pass = "bulk", !.model = s,
                              !.retried = FALSE, !.result = n]
    <2>1. Step(r, d) /\ ~CeilingReached(r)
      BY <1>4 DEF CallBulk
    <2>2. d.wrote = o.wrote /\ d.cost = o.cost /\ d.model = s /\ d.phase = "call"
      <3> HIDE DEF o, s, n
      <3> QED BY <1>0 DEF RunState
    <2> HIDE DEF d
    <2> QED BY <2>1, <2>2 DEF Onward
  <1>5. CASE CallEscalation(r)
    <2> DEFINE s == ModelFor("escalation", o.finding)
               d == [o EXCEPT !.phase = "call", !.pass = "escalation", !.model = s,
                              !.retried = FALSE]
    <2>1. Step(r, d) /\ ~CeilingReached(r)
      BY <1>5 DEF CallEscalation
    <2>2. d.wrote = o.wrote /\ d.cost = o.cost /\ d.model = s /\ d.phase = "call"
      <3> HIDE DEF o, s
      <3> QED BY <1>0 DEF RunState
    <2> HIDE DEF d
    <2> QED BY <2>1, <2>2 DEF Onward
  <1>6. CASE HaltAtCeiling(r)
    <2> DEFINE d == [o EXCEPT !.phase = "finish"]
    <2>1. Step(r, d)
      BY <1>6 DEF HaltAtCeiling
    <2>2. d.wrote = o.wrote /\ d.cost = o.cost /\ d.model = o.model /\ d.phase = "finish"
      <3> HIDE DEF o
      <3> QED BY <1>0 DEF RunState
    <2> HIDE DEF d
    <2> QED BY <2>1, <2>2 DEF Onward
  <1>7. CASE Retry(r)
    <2> DEFINE d == [o EXCEPT !.retried = TRUE]
    <2>1. Step(r, d) /\ o.phase = "call"
      BY <1>7 DEF Retry
    <2>2. d.wrote = o.wrote /\ d.cost = o.cost /\ d.model = o.model /\ d.phase = o.phase
      <3> HIDE DEF o
      <3> QED BY <1>0 DEF RunState
    <2> HIDE DEF d
    <2> QED BY <2>1, <2>2 DEF Onward
  <1>8. CASE ProviderFails(r)
    <2> DEFINE d == [o EXCEPT !.phase = "choose"]
    <2>1. Step(r, d)
      BY <1>8 DEF ProviderFails
    <2>2. d.wrote = o.wrote /\ d.cost = o.cost /\ d.model = o.model /\ d.phase = "choose"
      <3> HIDE DEF o
      <3> QED BY <1>0 DEF RunState
    <2> HIDE DEF d
    <2> QED BY <2>1, <2>2 DEF Onward
  <1>9. CASE Verify(r)
    <2> DEFINE n == RoundsAfter(o.rounds)
               d == [o EXCEPT !.phase = "lookup", !.rounds = n]
    <2>1. Step(r, d)
      BY <1>9 DEF Verify
    <2>2. d.wrote = o.wrote /\ d.cost = o.cost /\ d.model = o.model /\ d.phase = "lookup"
      <3> HIDE DEF o, n
      <3> QED BY <1>0 DEF RunState
    <2> HIDE DEF d
    <2> QED BY <2>1, <2>2 DEF Onward
  <1> QED BY <1>1, <1>2, <1>3, <1>4, <1>5, <1>6, <1>7, <1>8, <1>9

\* What the steps that end a pass, or the round, make of a run: the call's price
\* moves to the run's own log, and a bulk answer is not left standing where an
\* escalation is due unless the same model would be asked.
HeldForEscalation(d) ==
  /\ d.phase = "settle"
  /\ ~d.result.forced
  /\ ~d.result.answer.wantsMore
  /\ WantsEscalation(d.finding, d.result.answer)
  /\ d.result.by = "bulk"
Owed(d) == d.cost + IF d.phase = "call" THEN PriceOf(d.model) ELSE 0
Answering(r, d) ==
  /\ Step(r, d)
  /\ d.wrote = run[r].wrote /\ Owed(d) = Owed(run[r])
  /\ HeldForEscalation(d) => d.result.model = ModelFor("escalation", d.finding)

LEMMA AnsweringSteps ==
  ASSUME IInv, NEW r \in Runs,
         \/ NoStronger(r) \/ NoAnswer(r)
         \/ \E a \in Answers : AcceptBulk(r, a) \/ AcceptEscalation(r, a)
  PROVE  \E d : Answering(r, d)
  <1> DEFINE o == run[r]  c == LoggedCost(r)
  <1>0. o \in RunState /\ o.result \in Result /\ o.cost \in Nat
    BY DEF IInv, TypeOK, RunState
  <1>1. o.phase = "call" => Owed(o) = c
    BY DEF Owed, LoggedCost
  <1>2. c \in Nat
    BY <1>0, PriceType DEF LoggedCost
  <1>3. CASE NoStronger(r)
    <2> DEFINE d == [o EXCEPT !.phase = "settle"]
    <2>1. Step(r, d) /\ o.phase = "escalate"
      BY <1>3 DEF NoStronger
    <2>2. /\ d.result = o.result /\ d.wrote = o.wrote /\ d.phase = "settle"
          /\ d.finding = o.finding /\ d.cost = o.cost
      <3> HIDE DEF o
      <3> QED BY <1>0 DEF RunState
    <2>3. ModelFor("escalation", o.finding) = o.result.model
      BY <1>3 DEF NoStronger, AlreadyAnswered
    <2> HIDE DEF d
    <2> QED BY <2>1, <2>2, <2>3 DEF Answering, Owed
  <1>4. CASE NoAnswer(r)
    <2> DEFINE n1 == [o.result EXCEPT !.model = FallbackSelection]
               n2 == [o.result EXCEPT !.forced = TRUE]
               e1 == [o EXCEPT !.pass = "fallback", !.model = FallbackSelection,
                               !.retried = FALSE, !.cost = c, !.result = n1]
               e2 == [o EXCEPT !.phase = "settle", !.cost = c, !.result = n2]
    <2>1. o.phase = "call" /\ (Step(r, e1) \/ Step(r, e2))
      BY <1>4 DEF NoAnswer
    <2>2. PriceOf(FallbackSelection) = 0
      BY FallbackType DEF PriceOf
    <2>3. /\ e1.wrote = o.wrote /\ e1.phase = o.phase /\ e1.cost = c
          /\ e1.model = FallbackSelection
      <3> HIDE DEF o, c, n1
      <3> QED BY <1>0 DEF RunState
    <2>4. n2.forced
      <3> HIDE DEF o
      <3> QED BY <1>0 DEF Result
    <2>5. e2.wrote = o.wrote /\ e2.phase = "settle" /\ e2.cost = c /\ e2.result = n2
      <3> HIDE DEF o, c, n2
      <3> QED BY <1>0 DEF RunState
    <2> HIDE DEF e1, e2
    <2>6. Owed(e1) = c /\ Owed(e2) = c
      BY <1>2, <2>1, <2>2, <2>3, <2>5 DEF Owed
    <2>7. ~HeldForEscalation(e1) /\ ~HeldForEscalation(e2)
      BY <2>1, <2>3, <2>4, <2>5 DEF HeldForEscalation
    <2>8. Answering(r, e1) \/ Answering(r, e2)
      BY <1>1, <2>1, <2>3, <2>5, <2>6, <2>7 DEF Answering
    <2> QED BY <2>8
  <1>5. ASSUME NEW a \in Answers, AcceptBulk(r, a)
        PROVE  \E d : Answering(r, d)
    <2> DEFINE f == o.finding
               p == IF ~a.wantsMore /\ WantsEscalation(f, a) THEN "escalate" ELSE "settle"
               b == CrossCheckForces(f, a) \/ a.hallucinated
               n == [o.result EXCEPT !.answer = a, !.heard = {a}, !.forced = b]
               d == [o EXCEPT !.phase = p, !.cost = c, !.result = n]
    <2>1. Step(r, d) /\ o.phase = "call"
      BY <1>5 DEF AcceptBulk
    <2>2. n.answer = a
      <3> HIDE DEF o, b
      <3> QED BY <1>0 DEF Result
    <2>3. /\ d.wrote = o.wrote /\ d.phase = p /\ d.result = n /\ d.finding = f
          /\ d.cost = c
      <3> HIDE DEF o, p, n, c
      <3> QED BY <1>0 DEF RunState
    <2> HIDE DEF d, n
    <2>4. ~HeldForEscalation(d)
      BY <2>2, <2>3 DEF HeldForEscalation
    <2>5. Owed(d) = c
      BY <1>2, <2>3 DEF Owed
    <2> QED BY <1>1, <2>1, <2>3, <2>4, <2>5 DEF Answering
  <1>6. ASSUME NEW a \in Answers, AcceptEscalation(r, a)
        PROVE  \E d : Answering(r, d)
    <2> DEFINE b == StillForced(o.result.forced, o.finding, a)
               h == o.result.heard \cup {a}
               n == [o.result EXCEPT !.answer = a, !.heard = h, !.by = "escalation",
                                     !.model = o.model, !.forced = b]
               d == [o EXCEPT !.phase = "settle", !.cost = c, !.result = n]
    <2>1. Step(r, d) /\ o.phase = "call"
      BY <1>6 DEF AcceptEscalation
    <2>2. n.by = "escalation"
      <3> HIDE DEF o, b, h
      <3> QED BY <1>0 DEF Result
    <2>3. d.wrote = o.wrote /\ d.phase = "settle" /\ d.result = n /\ d.cost = c
      <3> HIDE DEF o, n, c
      <3> QED BY <1>0 DEF RunState
    <2> HIDE DEF d, n
    <2>4. ~HeldForEscalation(d)
      BY <2>2, <2>3 DEF HeldForEscalation
    <2>5. Owed(d) = c
      BY <1>2, <2>3 DEF Owed
    <2> QED BY <1>1, <2>1, <2>3, <2>4, <2>5 DEF Answering
  <1> QED BY <1>3, <1>4, <1>5, <1>6

-----------------------------------------------------------------------------
(* Escalation: a bulk answer that had to be escalated and is settled without  *)
(* the escalation pass came from the very model that pass would ask.          *)

RowEscalated(row) ==
  row.value # "needs_human" /\ WantsEscalation(row.finding, row.answer) /\ row.by = "bulk"
    => row.model = ModelFor("escalation", row.finding)
RunEscalated(d) ==
  /\ HeldForEscalation(d) => d.result.model = ModelFor("escalation", d.finding)
  /\ \A row \in d.wrote : RowEscalated(row)

EscalationInv ==
  repins = 0 =>
    /\ \A row \in rows : RowEscalated(row)
    /\ \A r \in Runs : RunEscalated(run[r])

LEMMA ClosedEscalated == RunEscalated(Closed)
  BY DEF RunEscalated, HeldForEscalation, Closed

\* Giving one run a record that keeps the rule, while the pins stay.
LEMMA StepEscalated ==
  ASSUME IInv, EscalationInv, NEW r \in Runs, NEW d, Step(r, d),
         repins = 0 => RunEscalated(d)
  PROVE  EscalationInv'
  <1>1. /\ pins' = pins /\ rows' = rows /\ repins' = repins
        /\ run' = [run EXCEPT ![r] = d] /\ run \in [Runs -> RunState]
    BY DEF IInv, TypeOK, Step
  <1> SUFFICES ASSUME repins = 0
               PROVE  /\ \A row \in rows : RowEscalated(row)'
                      /\ \A q \in Runs : RunEscalated(run[q])'
    BY <1>1 DEF EscalationInv
  <1>2. \A row \in rows : RowEscalated(row)'
    BY <1>1 DEF EscalationInv, RowEscalated, ModelFor
  <1>3. ASSUME NEW q \in Runs
        PROVE  RunEscalated(run[q])'
    <2>1. RunEscalated(run'[q])
      BY <1>1 DEF EscalationInv
    <2> QED BY <1>1, <2>1 DEF RunEscalated, RowEscalated, ModelFor
  <1> QED BY <1>2, <1>3

LEMMA RoundEscalated ==
  ASSUME IInv, EscalationInv, NEW r \in Runs, NEW d, Onward(r, d) \/ Answering(r, d)
  PROVE  EscalationInv'
  <1>1. Step(r, d) /\ (repins = 0 => RunEscalated(d))
    BY DEF EscalationInv, RunEscalated, Onward, Answering, HeldForEscalation
  <1> QED BY <1>1, StepEscalated

LEMMA StoreVerdictEscalated ==
  ASSUME IInv, EscalationInv, NEW r \in Runs, StoreVerdict(r)
  PROVE  EscalationInv'
  <1> DEFINE o == run[r]
             row == [finding |-> o.finding, value |-> StoredValue(o.result),
                     answer |-> o.result.answer, heard |-> o.result.heard,
                     rounds |-> o.rounds, key |-> o.result.key,
                     by |-> o.result.by, model |-> o.result.model]
             w == o.wrote \cup {row}
             d == [o EXCEPT !.phase = "choose", !.wrote = w]
  <1>0. o \in RunState /\ o.phase = "settle"
    BY DEF IInv, TypeOK, StoreVerdict, Storing
  <1>1. Step(r, d)
    BY DEF StoreVerdict, Storing
  <1>2. d.wrote = w /\ d.phase = "choose"
    <2> HIDE DEF w
    <2> QED BY <1>0 DEF RunState
  <1>3. ASSUME repins = 0
        PROVE  RowEscalated(row)
    <2>1. row.value # "needs_human" => ~o.result.forced /\ ~o.result.answer.wantsMore
      BY DEF StoredValue
    <2>2. HeldForEscalation(o) => o.result.model = ModelFor("escalation", o.finding)
      BY <1>3 DEF EscalationInv, RunEscalated
    <2>3. /\ row.finding = o.finding /\ row.answer = o.result.answer
          /\ row.by = o.result.by /\ row.model = o.result.model
      OBVIOUS
    <2> HIDE DEF row
    <2> QED BY <1>0, <2>1, <2>2, <2>3 DEF RowEscalated, HeldForEscalation
  <1>4. repins = 0 => RunEscalated(d)
    <2> HIDE DEF d, row
    <2> QED BY <1>2, <1>3 DEF EscalationInv, RunEscalated, HeldForEscalation
  <1> HIDE DEF d
  <1> QED BY <1>1, <1>4, StepEscalated

LEMMA FinishEscalated ==
  ASSUME IInv, EscalationInv, NEW r \in Runs, Finish(r)
  PROVE  EscalationInv'
  <1>1. /\ rows' = rows \cup run[r].wrote /\ run' = [run EXCEPT ![r] = Closed]
        /\ pins' = pins /\ repins' = repins /\ run \in [Runs -> RunState]
    BY DEF IInv, TypeOK, Finish
  <1> SUFFICES ASSUME repins = 0
               PROVE  /\ \A row \in rows' : RowEscalated(row)'
                      /\ \A q \in Runs : RunEscalated(run[q])'
    BY <1>1 DEF EscalationInv
  <1>2. \A row \in rows' : RowEscalated(row)'
    BY <1>1 DEF EscalationInv, RunEscalated, RowEscalated, ModelFor
  <1>3. ASSUME NEW q \in Runs
        PROVE  RunEscalated(run[q])'
    <2>1. RunEscalated(run'[q])
      BY <1>1, ClosedEscalated DEF EscalationInv
    <2> QED BY <1>1, <2>1 DEF RunEscalated, RowEscalated, ModelFor
  <1> QED BY <1>2, <1>3

LEMMA StartEscalated ==
  ASSUME IInv, EscalationInv, NEW r \in Runs, Start(r)
  PROVE  EscalationInv'
  <1> DEFINE t == {f \in Findings : status[f] = "new"}
             d == [Closed EXCEPT !.phase = "choose", !.todo = t]
  <1>1. /\ run' = [run EXCEPT ![r] = d] /\ rows' = rows
        /\ pins' = pins /\ repins' = repins /\ run \in [Runs -> RunState]
    BY DEF IInv, TypeOK, Start
  <1>2. RunEscalated(d)
    BY DEF Closed, RunEscalated, HeldForEscalation
  <1> HIDE DEF d
  <1> SUFFICES ASSUME repins = 0
               PROVE  /\ \A row \in rows : RowEscalated(row)'
                      /\ \A q \in Runs : RunEscalated(run[q])'
    BY <1>1 DEF EscalationInv
  <1>3. \A row \in rows : RowEscalated(row)'
    BY <1>1 DEF EscalationInv, RowEscalated, ModelFor
  <1>4. ASSUME NEW q \in Runs
        PROVE  RunEscalated(run[q])'
    <2>1. RunEscalated(run'[q])
      BY <1>1, <1>2 DEF EscalationInv
    <2> QED BY <1>1, <2>1 DEF RunEscalated, RowEscalated, ModelFor
  <1> QED BY <1>3, <1>4

LEMMA EscalationStep ==
  ASSUME IInv, EscalationInv, [Next]_vars
  PROVE  EscalationInv'
  <1>1. ASSUME NEW r \in Runs, Start(r) \/ Advance(r) \/ Abort(r)
        PROVE  EscalationInv'
    <2>1. CASE RedactionTrips(r) \/ DeadlockVictim(r) \/ Abort(r)
      BY <2>1, ClosedEscalated, StepEscalated DEF RedactionTrips, DeadlockVictim, Abort
    <2> QED BY <1>1, <2>1, StartEscalated, OnwardSteps, AnsweringSteps, RoundEscalated,
               StoreVerdictEscalated, FinishEscalated DEF Advance
  <1>2. CASE \E role \in {"bulk", "escalation"}, s \in Selections : Repin(role, s)
    <2>1. repins' = repins + 1 /\ repins \in Nat
      BY <1>2 DEF IInv, TypeOK, Repin
    <2> QED BY <2>1 DEF EscalationInv
  <1>3. CASE UNCHANGED vars
    BY <1>3 DEF vars, EscalationInv, RunEscalated, RowEscalated, ModelFor
  <1> QED BY <1>1, <1>2, <1>3 DEF Next

\* As long as no other model is pinned, a decision that had to be escalated was
\* made by the escalation model: by the pass, or by a bulk model that is the
\* same one, whatever falls back, is retried or is gathered in between.
THEOREM EscalationIsHeard == Spec => []UnsureEscalates
  <1>1. Init => EscalationInv
    BY ClosedEscalated DEF Init, EscalationInv
  <1>2. EscalationInv => UnsureEscalates
    BY DEF EscalationInv, RunEscalated, RowEscalated, UnsureEscalates, AllRows
  <1> QED BY <1>1, <1>2, EscalationStep, AdjudicationInvariant, PTL DEF Spec

-----------------------------------------------------------------------------
(* Spending.  The runs are numbered, and what is committed plus what each run *)
(* owes, its buffered log and the price of the call it is in, is added up     *)
(* along the numbers.                                                         *)

N == Cardinality(Runs)
Order == CHOOSE e : e \in Bijection(1..N, Runs)

\* t is the sum of b and of w over the runs: s holds the partial sums.
HasTotal(b, w, t) ==
  \E s \in [0..N -> Int] :
    /\ s[0] = b
    /\ s[N] = t
    /\ \A i \in 1..N : s[i] = s[i - 1] + w[Order[i]]

Most == Ceiling - 1 + Price
Debts == [r \in Runs |-> Owed(run[r])]
SpendInv ==
  /\ \A r \in Runs : Owed(run[r]) <= Most
  /\ \E t \in Int : t <= N * Most /\ HasTotal(logged, Debts, t)

LEMMA RunsInOrder ==
  /\ N \in Nat
  /\ Order \in [1..N -> Runs]
  /\ \A i, j \in 1..N : Order[i] = Order[j] => i = j
  /\ \A r \in Runs : \E k \in 1..N : Order[k] = r
  <1>1. IsFiniteSet(Runs)
    BY ParametersAssumption
  <1>2. N \in Nat /\ ExistsBijection(1..N, Runs)
    BY <1>1, FS_CardinalityType DEF N
  <1>3. Order \in Bijection(1..N, Runs)
    BY <1>2 DEF Order, ExistsBijection
  <1> QED BY <1>2, <1>3 DEF Bijection, Injection, Surjection, IsInjective

\* Of the indices at which something holds there is a least.
LEMMA LeastIndex ==
  ASSUME NEW T \in SUBSET Nat, T # {}
  PROVE  \E k \in T : \A j \in T : k <= j
  <1> DEFINE R == OpToRel(<, Nat)
  <1>1. PICK k \in T : \A j \in T : ~(<<j, k>> \in R)
    BY NatLessThanWellFounded, WFMin
  <1>2. ASSUME NEW j \in T
        PROVE  k <= j
    <2>1. k \in Nat /\ j \in Nat
      OBVIOUS
    <2>2. <<j, k>> \notin R
      BY <1>1
    <2>3. ~(j < k)
      BY <2>1, <2>2 DEF OpToRel
    <2> QED BY <2>1, <2>3
  <1> QED BY <1>2

\* Changing the base by c and one run's share to v changes the total as much.
LEMMA TotalMoves ==
  ASSUME NEW b \in Int, NEW w \in [Runs -> Nat], NEW t \in Int, HasTotal(b, w, t),
         NEW c \in Int, NEW r \in Runs, NEW v \in Nat
  PROVE  HasTotal(b + c, [w EXCEPT ![r] = v], t + c + v - w[r])
  <1>1. PICK s \in [0..N -> Int] :
          /\ s[0] = b /\ s[N] = t
          /\ \A i \in 1..N : s[i] = s[i - 1] + w[Order[i]]
    BY DEF HasTotal
  <1>2. PICK k \in 1..N : Order[k] = r
    BY RunsInOrder
  <1> DEFINE x == v - w[r]
             z == [i \in 0..N |-> IF i < k THEN s[i] + c ELSE s[i] + c + x]
             y == [w EXCEPT ![r] = v]
  <1>3. N \in Nat /\ x \in Int /\ z \in [0..N -> Int]
    BY <1>1, RunsInOrder
  <1>4. z[0] = b + c /\ z[N] = t + c + v - w[r]
    BY <1>1, <1>2, <1>3
  <1>5. ASSUME NEW i \in 1..N
        PROVE  z[i] = z[i - 1] + y[Order[i]]
    <2> DEFINE share == w[Order[i]]
               upto == s[i]
               before == s[i - 1]
    <2>1. i \in 0..N /\ i - 1 \in 0..N /\ Order[i] \in Runs
      BY <1>3, RunsInOrder
    <2>2. share \in Nat /\ upto \in Int /\ before \in Int
      BY <1>1, <2>1
    <2>3. upto = before + share
      BY <1>1
    <2>4. CASE i = k
      <3>1. y[Order[i]] = v /\ share = w[r]
        BY <1>2, <2>4
      <3>2. z[i] = upto + c + x /\ z[i - 1] = before + c
        BY <2>1, <2>4
      <3>3. v = share + x
        BY <1>3, <2>2, <3>1
      <3> HIDE DEF z, y, x, share, upto, before
      <3>4. upto + c + x = (before + c) + v
        BY <1>3, <2>2, <2>3, <3>3
      <3> QED BY <3>1, <3>2, <3>4
    <2>5. CASE i # k
      <3>1. y[Order[i]] = share
        BY <1>2, <2>1, <2>5, RunsInOrder
      <3>2. \/ z[i] = upto + c /\ z[i - 1] = before + c
            \/ z[i] = upto + c + x /\ z[i - 1] = before + c + x
        BY <2>1, <2>5
      <3> HIDE DEF z, y, x, share, upto, before
      <3>3. /\ upto + c = (before + c) + share
            /\ upto + c + x = (before + c + x) + share
        BY <1>3, <2>2, <2>3
      <3> QED BY <3>1, <3>2, <3>3
    <2> QED BY <2>4, <2>5
  <1> HIDE DEF z
  <1> QED BY <1>3, <1>4, <1>5 DEF HasTotal

\* The base alone is at most the total.
LEMMA BaseBelowTotal ==
  ASSUME NEW b \in Int, NEW w \in [Runs -> Nat], NEW t \in Int, HasTotal(b, w, t)
  PROVE  b <= t
  <1>1. PICK s \in [0..N -> Int] :
          /\ s[0] = b /\ s[N] = t
          /\ \A i \in 1..N : s[i] = s[i - 1] + w[Order[i]]
    BY DEF HasTotal
  <1> DEFINE T == {i \in 0..N : s[i] < b}
  <1>2. N \in Nat
    BY RunsInOrder
  <1>3. ASSUME T # {}
        PROVE  FALSE
    <2>0. T \in SUBSET Nat
      BY <1>2
    <2>1. PICK k \in T : \A j \in T : k <= j
      <3> HIDE DEF T
      <3> QED BY <1>3, <2>0, LeastIndex
    <2>2. k \in 1..N
      BY <1>1, <1>2, <2>1
    <2>3. k - 1 \in 0..N /\ k - 1 \notin T
      BY <1>2, <2>1, <2>2
    <2>4. s[k - 1] \in Int /\ s[k] \in Int /\ w[Order[k]] \in Nat
      BY <1>1, <2>2, <2>3, RunsInOrder
    <2>5. s[k] = s[k - 1] + w[Order[k]]
      BY <1>1, <2>2
    <2> QED BY <2>1, <2>3, <2>4, <2>5
  <1> QED BY <1>1, <1>2, <1>3

\* With one run within the bound together with the base, and every other run
\* within it alone, the total is within the bound once for each run.
LEMMA TotalBounded ==
  ASSUME NEW b \in Nat, NEW w \in [Runs -> Nat], NEW t \in Int, HasTotal(b, w, t),
         NEW m \in Nat, NEW r \in Runs, b + w[r] <= m, \A q \in Runs : w[q] <= m
  PROVE  t <= N * m
  <1>1. PICK s \in [0..N -> Int] :
          /\ s[0] = b /\ s[N] = t
          /\ \A i \in 1..N : s[i] = s[i - 1] + w[Order[i]]
    BY DEF HasTotal
  <1>2. PICK u \in 1..N : Order[u] = r
    BY RunsInOrder
  <1>3. N \in Nat
    BY RunsInOrder
  <1> DEFINE lim(i) == IF i < u THEN b + i * m ELSE i * m
             T == {i \in 0..N : s[i] > lim(i)}
  <1>4. ASSUME T # {}
        PROVE  FALSE
    <2>0. T \in SUBSET Nat
      BY <1>3
    <2>1. PICK k \in T : \A j \in T : k <= j
      <3> HIDE DEF T
      <3> QED BY <1>4, <2>0, LeastIndex
    <2>2. k \in 1..N
      BY <1>1, <1>2, <1>3, <2>1
    <2>3. k - 1 \in 0..N /\ k - 1 \notin T
      BY <1>3, <2>1, <2>2
    <2>4. s[k - 1] \in Int /\ s[k] \in Int /\ w[Order[k]] \in Nat /\ w[Order[k]] <= m
      BY <1>1, <2>2, <2>3, RunsInOrder
    <2>5. s[k] = s[k - 1] + w[Order[k]]
      BY <1>1, <2>2
    <2>6. k * m = (k - 1) * m + m /\ k * m \in Int /\ (k - 1) * m \in Int
      BY <2>2
    <2>7. s[k - 1] <= lim(k - 1) /\ s[k] > lim(k)
      BY <1>3, <2>1, <2>3, <2>4, <2>6
    <2>8. CASE k = u
      BY <1>2, <2>2, <2>4, <2>5, <2>6, <2>7, <2>8
    <2>9. CASE k # u
      BY <1>2, <2>2, <2>4, <2>5, <2>6, <2>7, <2>9
    <2> QED BY <2>8, <2>9
  <1>5. N \in 0..N /\ lim(N) = N * m
    BY <1>2, <1>3
  <1>6. ~(s[N] > lim(N))
    BY <1>4, <1>5
  <1> QED BY <1>1, <1>3, <1>5, <1>6

LEMMA OwedType ==
  ASSUME IInv, NEW r \in Runs
  PROVE  /\ Owed(run[r]) \in Nat
         /\ run[r].cost \in Nat /\ run[r].cost <= Owed(run[r])
  <1>1. run[r].cost \in Nat
    BY DEF IInv, TypeOK, RunState
  <1>2. PriceOf(run[r].model) \in Nat /\ 0 \in Nat
    BY PriceType
  <1> QED BY <1>1, <1>2 DEF Owed

\* One run's share and the base change: what is left to show is that the share
\* and the new total are within the bounds.
LEMMA SpendMoves ==
  ASSUME IInv, SpendInv, NEW r \in Runs, NEW d, run' = [run EXCEPT ![r] = d],
         NEW c \in Int, logged' = logged + c, Owed(d) \in Nat, Owed(d) <= Most,
         \A t \in Int : t <= N * Most /\ HasTotal(logged, Debts, t)
                        => t + c + Owed(d) - Owed(run[r]) <= N * Most
  PROVE  SpendInv'
  <1>1. run \in [Runs -> RunState] /\ logged \in Int
    BY DEF IInv, TypeOK
  <1>2. Debts \in [Runs -> Nat] /\ \A q \in Runs : Debts[q] = Owed(run[q])
    BY OwedType DEF Debts
  <1>3. \A q \in Runs : run'[q] = IF q = r THEN d ELSE run[q]
    BY <1>1
  <1>4. PICK w : w = [Debts EXCEPT ![r] = Owed(d)]
    OBVIOUS
  <1>5. Debts' = w
    <2>1. Debts' = [q \in Runs |-> Owed(run'[q])]
      BY DEF Debts
    <2>2. \A q \in Runs : Owed(run'[q]) = w[q]
      BY <1>2, <1>3, <1>4
    <2>3. w = [q \in Runs |-> w[q]]
      BY <1>2, <1>4
    <2> QED BY <2>1, <2>2, <2>3
  <1>6. PICK t \in Int : t <= N * Most /\ HasTotal(logged, Debts, t)
    BY DEF SpendInv
  <1>7. PICK u : u = t + c + Owed(d) - Owed(run[r])
    OBVIOUS
  <1>8. HasTotal(logged + c, w, u)
    BY <1>1, <1>2, <1>4, <1>6, <1>7, TotalMoves
  <1>9. u \in Int /\ u <= N * Most
    BY <1>6, <1>7, OwedType
  <1>10. PICK b : b = logged'
    OBVIOUS
  <1>11. HasTotal(b, w, u)
    BY <1>8, <1>10
  <1>12. (\E x \in Int : x <= N * Most /\ HasTotal(logged, Debts, x))'
    BY <1>5, <1>9, <1>10, <1>11
  <1>13. (\A q \in Runs : Owed(run[q]) <= Most)'
    BY <1>3 DEF SpendInv
  <1> QED BY <1>12, <1>13 DEF SpendInv

\* A run whose share does not grow.
LEMMA NoMoreOwed ==
  ASSUME IInv, SpendInv, NEW r \in Runs, NEW d, run' = [run EXCEPT ![r] = d],
         logged' = logged, Owed(d) \in Nat, Owed(d) <= Owed(run[r])
  PROVE  SpendInv'
  <1>1. Owed(run[r]) \in Nat /\ Owed(run[r]) <= Most /\ Most \in Int /\ N * Most \in Int
    BY OwedType, RunsInOrder, ParametersAssumption DEF SpendInv, Most
  <1>2. PICK c \in Int : c = 0
    OBVIOUS
  <1>3. logged \in Nat
    BY DEF IInv, TypeOK
  <1>4. Owed(d) <= Most /\ logged' = logged + c
    BY <1>1, <1>2, <1>3
  <1>5. \A t \in Int : t <= N * Most => t + c + Owed(d) - Owed(run[r]) <= N * Most
    BY <1>1, <1>2
  <1> QED BY <1>4, <1>5, SpendMoves

\* A call that was not refused fits: the run that makes it saw everything that
\* is committed and everything of its own.
LEMMA NewCall ==
  ASSUME IInv, SpendInv, NEW r \in Runs, NEW d, Step(r, d), d.phase = "call",
         d.cost = run[r].cost, ~CeilingReached(r)
  PROVE  SpendInv'
  <1>0. PICK c \in Int : c = 0
    OBVIOUS
  <1>1. run' = [run EXCEPT ![r] = d] /\ logged' = logged + c
    BY <1>0 DEF Step, IInv, TypeOK
  <1>2. PICK p : p = PriceOf(d.model)
    OBVIOUS
  <1>3. p \in Nat /\ p <= Price /\ Price \in Nat /\ Ceiling \in Nat
    BY <1>2, ParametersAssumption DEF PriceOf
  <1>4. /\ logged \in Nat /\ run[r].cost \in Nat
        /\ logged + run[r].cost < Ceiling
    <2>1. logged \in Nat /\ ~(logged + run[r].cost >= Ceiling)
      BY DEF CeilingReached, IInv, TypeOK
    <2>2. run[r].cost \in Nat
      BY OwedType
    <2> QED BY <1>3, <2>1, <2>2
  <1>5. PICK v : v = Owed(d)
    OBVIOUS
  <1>6. v = run[r].cost + p
    BY <1>2, <1>5 DEF Owed
  <1>7. v \in Nat /\ logged + v <= Most /\ v <= Most /\ Most \in Nat
    BY <1>3, <1>4, <1>6 DEF Most
  <1>8. ASSUME NEW t \in Int, HasTotal(logged, Debts, t)
        PROVE  t + c + Owed(d) - Owed(run[r]) <= N * Most
    <2>1. Debts \in [Runs -> Nat] /\ Debts[r] = Owed(run[r])
      BY OwedType DEF Debts
    <2>2. PICK w : w = [Debts EXCEPT ![r] = v]
      OBVIOUS
    <2>3. PICK u : u = t + c + v - Debts[r]
      OBVIOUS
    <2>4. HasTotal(logged + c, w, u)
      <3>1. logged \in Int
        BY <1>4
      <3> QED BY <1>7, <1>8, <2>1, <2>2, <2>3, <3>1, TotalMoves
    <2>5. HasTotal(logged, w, u)
      BY <1>0, <1>4, <2>4
    <2>6. w \in [Runs -> Nat] /\ w[r] = v /\ u \in Int
      BY <1>7, <2>1, <2>2, <2>3
    <2>7. \A q \in Runs : w[q] <= Most
      BY <1>7, <2>1, <2>2 DEF Debts, SpendInv
    <2>8. u <= N * Most
      BY <1>4, <1>7, <2>5, <2>6, <2>7, TotalBounded
    <2> QED BY <1>5, <2>1, <2>3, <2>8
  <1> QED BY <1>1, <1>5, <1>7, <1>8, SpendMoves

LEMMA SpendStep ==
  ASSUME IInv, SpendInv, [Next]_vars
  PROVE  SpendInv'
  <1>0. Owed(Closed) = 0
    BY DEF Owed, Closed
  <1>1. ASSUME NEW r \in Runs, Start(r)
        PROVE  SpendInv'
    <2> DEFINE d == [Closed EXCEPT !.phase = "choose",
                                   !.todo = {f \in Findings : status[f] = "new"}]
    <2>1. run' = [run EXCEPT ![r] = d] /\ logged' = logged
      BY <1>1 DEF Start
    <2>2. Owed(d) = 0
      BY DEF Owed, Closed
    <2>3. Owed(run[r]) \in Nat
      BY OwedType
    <2>4. Owed(d) \in Nat /\ Owed(d) <= Owed(run[r])
      BY <2>2, <2>3
    <2> HIDE DEF d
    <2> QED BY <2>1, <2>4, NoMoreOwed
  <1>2. ASSUME NEW r \in Runs, RedactionTrips(r) \/ DeadlockVictim(r) \/ Abort(r)
        PROVE  SpendInv'
    <2>1. Step(r, Closed)
      BY <1>2 DEF RedactionTrips, DeadlockVictim, Abort
    <2>2. run' = [run EXCEPT ![r] = Closed] /\ logged' = logged
      BY <2>1 DEF Step
    <2>3. Owed(run[r]) \in Nat
      BY OwedType
    <2>4. Owed(Closed) \in Nat /\ Owed(Closed) <= Owed(run[r])
      BY <1>0, <2>3
    <2> QED BY <2>2, <2>4, NoMoreOwed
  <1>3. ASSUME NEW r \in Runs, NEW d, Onward(r, d)
        PROVE  SpendInv'
    <2>1. Step(r, d) /\ d.cost = run[r].cost
      BY <1>3 DEF Onward
    <2>2. CASE d.phase = "call" /\ ~CeilingReached(r)
      BY <2>1, <2>2, NewCall
    <2>3. CASE ~(d.phase = "call" /\ ~CeilingReached(r))
      <3>1. Owed(d) \in Nat /\ Owed(d) <= Owed(run[r])
        <4>1. CASE d.phase = "call"
          <5>1. run[r].phase = "call" /\ d.model = run[r].model
            BY <1>3, <2>3, <4>1 DEF Onward
          <5>2. Owed(d) = Owed(run[r])
            BY <2>1, <4>1, <5>1 DEF Owed
          <5> QED BY <5>2, OwedType
        <4>2. CASE d.phase # "call"
          <5>1. Owed(d) = run[r].cost
            BY <2>1, <4>2, OwedType DEF Owed
          <5> QED BY <5>1, OwedType
        <4> QED BY <4>1, <4>2
      <3> QED BY <2>1, <3>1, NoMoreOwed DEF Step
    <2> QED BY <2>2, <2>3
  <1>4. ASSUME NEW r \in Runs, NEW d, Answering(r, d)
        PROVE  SpendInv'
    <2>1. Owed(run[r]) \in Nat /\ Owed(d) = Owed(run[r])
      BY <1>4, OwedType DEF Answering
    <2>2. Owed(d) \in Nat /\ Owed(d) <= Owed(run[r])
      BY <2>1
    <2>3. run' = [run EXCEPT ![r] = d] /\ logged' = logged
      BY <1>4 DEF Answering, Step
    <2> QED BY <2>2, <2>3, NoMoreOwed
  <1>5. ASSUME NEW r \in Runs, StoreVerdict(r)
        PROVE  SpendInv'
    <2> DEFINE o == run[r]
               row == [finding |-> o.finding, value |-> StoredValue(o.result),
                       answer |-> o.result.answer, heard |-> o.result.heard,
                       rounds |-> o.rounds, key |-> o.result.key,
                       by |-> o.result.by, model |-> o.result.model]
               w == o.wrote \cup {row}
               d == [o EXCEPT !.phase = "choose", !.wrote = w]
    <2>1. o \in RunState
      BY DEF IInv, TypeOK
    <2>2. Step(r, d)
      BY <1>5 DEF StoreVerdict, Storing
    <2>3. d.phase = "choose" /\ d.cost = o.cost
      <3> HIDE DEF o, w
      <3> QED BY <2>1 DEF RunState
    <2> HIDE DEF d
    <2>4. Owed(d) = o.cost
      BY <2>3, OwedType DEF Owed
    <2> QED BY <2>2, <2>4, OwedType, NoMoreOwed DEF Step
  <1>6. ASSUME NEW r \in Runs, Finish(r)
        PROVE  SpendInv'
    <2>1. run' = [run EXCEPT ![r] = Closed] /\ logged' = logged + run[r].cost
      BY <1>6 DEF Finish
    <2>2. run[r].cost \in Nat /\ Owed(run[r]) = run[r].cost
      BY <1>6, OwedType DEF Finish, Owed
    <2>3. Most \in Int /\ N * Most \in Int /\ Owed(run[r]) <= Most
      BY RunsInOrder, ParametersAssumption DEF Most, SpendInv
    <2>4. PICK c \in Int : c = run[r].cost
      BY <2>2
    <2>5. \A t \in Int : t <= N * Most => t + c + Owed(Closed) - Owed(run[r]) <= N * Most
      BY <1>0, <2>2, <2>3, <2>4
    <2>6. Owed(Closed) \in Nat /\ Owed(Closed) <= Most
      BY <1>0, <2>2, <2>3
    <2>7. logged' = logged + c
      BY <2>1, <2>4
    <2> QED BY <2>1, <2>5, <2>6, <2>7, SpendMoves
  <1>7. CASE \E role \in {"bulk", "escalation"}, s \in Selections : Repin(role, s)
    BY <1>7 DEF Repin, SpendInv, Debts
  <1>8. CASE UNCHANGED vars
    BY <1>8 DEF vars, SpendInv, Debts
  <1>9. ASSUME NEW r \in Runs, Start(r) \/ Advance(r) \/ Abort(r)
        PROVE  SpendInv'
    BY <1>1, <1>2, <1>3, <1>4, <1>5, <1>6, <1>9, OnwardSteps, AnsweringSteps DEF Advance
  <1> QED BY <1>7, <1>8, <1>9 DEF Next

LEMMA SpendInit ==
  ASSUME Init, Ceiling > 0
  PROVE  SpendInv
  <1>1. Owed(Closed) = 0
    BY DEF Owed, Closed
  <1>2. Most \in Nat /\ N \in Nat
    BY RunsInOrder, ParametersAssumption DEF Most
  <1>3. \A r \in Runs : Owed(run[r]) = 0
    BY <1>1 DEF Init
  <1>4. HasTotal(logged, Debts, 0)
    <2> DEFINE s == [i \in 0..N |-> 0]
    <2>1. \A i \in 1..N : Debts[Order[i]] = 0
      BY <1>3, RunsInOrder DEF Debts
    <2>2. s \in [0..N -> Int] /\ s[0] = logged /\ s[N] = 0
      BY <1>2 DEF Init
    <2>3. \A i \in 1..N : s[i] = s[i - 1] + Debts[Order[i]]
      BY <1>2, <2>1
    <2> HIDE DEF s
    <2> QED BY <2>2, <2>3 DEF HasTotal
  <1>5. 0 <= N * Most
    BY <1>2
  <1> QED BY <1>2, <1>3, <1>4, <1>5 DEF SpendInv

\* However many runs overlap, abort and start again, what they commit to the
\* call log is at most the ceiling exceeded by less than one call, once for each
\* process that may run at the same time.
THEOREM SpendIsBounded == Spec => []SpendBounded
  <1>1. ASSUME IInv, SpendInv
        PROVE  logged <= N * Most
    <2>1. PICK t \in Int : t <= N * Most /\ HasTotal(logged, Debts, t)
      BY <1>1 DEF SpendInv
    <2>2. Debts \in [Runs -> Nat] /\ logged \in Int
      BY <1>1, OwedType DEF Debts, IInv, TypeOK
    <2>3. logged <= t
      BY <2>1, <2>2, BaseBelowTotal
    <2>4. Most \in Int /\ N * Most \in Int
      BY RunsInOrder, ParametersAssumption DEF Most
    <2> QED BY <2>1, <2>2, <2>3, <2>4
  <1>2. IInv /\ SpendInv => SpendBounded
    BY <1>1 DEF SpendBounded, N, Most
  <1>3. CASE Ceiling > 0
    <2>1. Init => SpendInv
      BY <1>3, SpendInit
    <2> QED BY <1>2, <2>1, SpendStep, AdjudicationInvariant, PTL DEF Spec
  <1>4. CASE ~(Ceiling > 0)
    <2>1. IInv => SpendBounded
      BY <1>4 DEF SpendBounded
    <2> QED BY <2>1, AdjudicationInvariant, PTL
  <1> QED BY <1>3, <1>4

-----------------------------------------------------------------------------
(* A run ends: what it may still do is counted down by every step *)

\* The place of a step within a round: at most two attempts of the bulk pass, of its
\* fallback and of the escalation, each passed only once.
Place(d) ==
  LET first(pass) == IF pass = "bulk" THEN 7 ELSE IF pass = "fallback" THEN 5 ELSE 2
  IN  IF d.phase = "lookup" THEN 8
      ELSE IF d.phase = "call" THEN first(d.pass) - (IF d.retried THEN 1 ELSE 0)
      ELSE IF d.phase = "escalate" THEN 3 ELSE 0

RoundSteps == 9
FindingSteps == RoundSteps * (MaxRounds + 1) + 1

\* At most so many steps are left of a run.
StepsLeft(d) ==
  IF d.phase = "idle" THEN 0
  ELSE IF d.phase = "finish" THEN 1
  ELSE IF d.phase = "choose" THEN FindingSteps * Cardinality(d.todo) + 1
  ELSE FindingSteps * Cardinality(d.todo) + RoundSteps * (MaxRounds - d.rounds) + Place(d) + 2

\* Whatever an open run does counts down what is left of it, and nobody else can
\* count it up: neither retries nor fallbacks nor rounds of verification nor changes
\* of pins nor waiting for another run's row keep `_run_triage` going for ever.
StepsRunOut ==
  [][\A r \in Runs : run[r].phase # "idle" /\ run'[r] # run[r] =>
       StepsLeft(run'[r]) < StepsLeft(run[r])]_vars

LEMMA TodoFinite ==
  ASSUME NEW d \in RunState
  PROVE  /\ IsFiniteSet(d.todo)
         /\ Cardinality(d.todo) \in Nat
         /\ Cardinality(d.todo) <= Cardinality(Findings)
  <1>1. d.todo \subseteq Findings
    BY DEF RunState
  <1>2. IsFiniteSet(Findings)
    BY ParametersAssumption
  <1>3. IsFiniteSet(d.todo) /\ Cardinality(d.todo) <= Cardinality(Findings)
    BY <1>1, <1>2, FS_Subset
  <1> QED BY <1>2, <1>3, FS_CardinalityType

LEMMA PlaceType ==
  ASSUME NEW d \in RunState
  PROVE  /\ Place(d) \in 0..8
         /\ d.phase = "lookup" => Place(d) = 8
         /\ d.phase = "settle" => Place(d) = 0
         /\ d.phase = "escalate" => Place(d) = 3
  BY DEF Place, RunState, Passes

\* What is left, in numbers.
LEMMA StepsLeftType ==
  ASSUME NEW d \in RunState
  PROVE  /\ StepsLeft(d) \in Nat
         /\ d.phase # "idle" => StepsLeft(d) >= 1
  <1> DEFINE n == Cardinality(d.todo)  p == Place(d)
  <1>1. n \in Nat /\ p \in 0..8 /\ d.rounds \in 0..2
    BY TodoFinite, PlaceType DEF RunState, MaxRounds
  <1>2. StepsLeft(d) = IF d.phase = "idle" THEN 0
                       ELSE IF d.phase = "finish" THEN 1
                       ELSE IF d.phase = "choose" THEN 28 * n + 1
                       ELSE 28 * n + 9 * (2 - d.rounds) + p + 2
    BY DEF StepsLeft, FindingSteps, RoundSteps, MaxRounds
  <1> HIDE DEF n, p
  <1> QED BY <1>1, <1>2

\* Within the same finding, what is left depends on the round and the place only.
LEMMA StepsLeftInRound ==
  ASSUME NEW d \in RunState, d.phase \in {"lookup", "call", "escalate", "settle"}
  PROVE  StepsLeft(d) = 28 * Cardinality(d.todo) + 9 * (2 - d.rounds) + Place(d) + 2
  BY DEF StepsLeft, FindingSteps, RoundSteps, MaxRounds

\* A step of a round goes to a later place of it.
LEMMA PlaceFalls ==
  ASSUME NEW o \in RunState, NEW e \in RunState,
         o.phase \in {"lookup", "call", "escalate"},
         e.phase \in {"call", "escalate", "settle"},
         e.todo = o.todo, e.rounds = o.rounds, Place(e) < Place(o)
  PROVE  StepsLeft(e) < StepsLeft(o)
  <1> DEFINE n == Cardinality(o.todo)  p == Place(o)  q == Place(e)
  <1>1. n \in Nat /\ p \in 0..8 /\ q \in 0..8 /\ q < p /\ o.rounds \in 0..2
    BY TodoFinite, PlaceType DEF RunState, MaxRounds
  <1>2. /\ StepsLeft(o) = 28 * n + 9 * (2 - o.rounds) + p + 2
        /\ StepsLeft(e) = 28 * n + 9 * (2 - o.rounds) + q + 2
    BY StepsLeftInRound
  <1> HIDE DEF n, p, q
  <1> QED BY <1>1, <1>2

\* Leaving a finding for the loop or for the end of the run counts down.
LEMMA FindingLeft ==
  ASSUME NEW o \in RunState, NEW e \in RunState,
         o.phase \in {"lookup", "call", "escalate", "settle"},
         e.phase \in {"choose", "finish"}, e.todo = o.todo
  PROVE  StepsLeft(e) < StepsLeft(o)
  <1> DEFINE n == Cardinality(o.todo)  p == Place(o)
  <1>1. n \in Nat /\ p \in 0..8 /\ o.rounds \in 0..2
    BY TodoFinite, PlaceType DEF RunState, MaxRounds
  <1>2. StepsLeft(o) = 28 * n + 9 * (2 - o.rounds) + p + 2
    BY StepsLeftInRound
  <1>3. StepsLeft(e) = IF e.phase = "finish" THEN 1 ELSE 28 * n + 1
    BY DEF StepsLeft, FindingSteps, RoundSteps, MaxRounds
  <1> HIDE DEF n, p
  <1> QED BY <1>1, <1>2, <1>3

LEMMA ClosedCounts ==
  ASSUME NEW o \in RunState, o.phase # "idle"
  PROVE  StepsLeft(Closed) < StepsLeft(o)
  <1>1. StepsLeft(Closed) = 0
    BY DEF StepsLeft, Closed
  <1> QED BY <1>1, StepsLeftType

LEMMA LoopCounts ==
  ASSUME IInv, NEW r \in Runs, NEW f \in Findings, Choose(r, f) \/ Skip(r, f)
  PROVE  StepsLeft(run'[r]) < StepsLeft(run[r])
  <1> DEFINE o == run[r]  t == o.todo \ {f}  n == Cardinality(o.todo)
             c == [o EXCEPT !.phase = "lookup", !.finding = f, !.rounds = 0, !.todo = t]
             s == [o EXCEPT !.todo = t]
  <1>1. o \in RunState /\ o.phase = "choose" /\ f \in o.todo
    BY DEF IInv, TypeOK, Choose, Skip
  <1>2. n \in Nat /\ n >= 1 /\ Cardinality(t) = n - 1
    <2>1. IsFiniteSet(o.todo) /\ n \in Nat
      BY <1>1, TodoFinite
    <2>2. Cardinality(t) = n - 1
      BY <1>1, <2>1, FS_RemoveElement
    <2>3. n # 0
      BY <1>1, <2>1, FS_EmptySet
    <2> QED BY <2>1, <2>2, <2>3
  <1>3. StepsLeft(o) = 28 * n + 1
    BY <1>1 DEF StepsLeft, FindingSteps, RoundSteps, MaxRounds
  <1>4. run'[r] = c \/ run'[r] = s
    BY DEF Choose, Skip, Step, IInv, TypeOK
  <1>5. c.phase = "lookup" /\ c.rounds = 0 /\ c.todo = t
    <2> HIDE DEF o, t
    <2> QED BY <1>1 DEF RunState
  <1>6. s.phase = "choose" /\ s.todo = t
    <2> HIDE DEF o, t
    <2> QED BY <1>1 DEF RunState
  <1>7. StepsLeft(c) = 28 * (n - 1) + 28
    <2>1. Place(c) = 8
      BY <1>5 DEF Place
    <2>2. StepsLeft(c) = 28 * Cardinality(c.todo) + 9 * (2 - c.rounds) + Place(c) + 2
      BY <1>5 DEF StepsLeft, FindingSteps, RoundSteps, MaxRounds
    <2> HIDE DEF c, n
    <2> QED BY <1>2, <1>5, <2>1, <2>2
  <1>8. StepsLeft(s) = 28 * (n - 1) + 1
    <2>1. StepsLeft(s) = 28 * Cardinality(s.todo) + 1
      BY <1>6 DEF StepsLeft, FindingSteps, RoundSteps, MaxRounds
    <2> HIDE DEF s, n
    <2> QED BY <1>2, <1>6, <2>1
  <1> HIDE DEF c, s, n
  <1> QED BY <1>2, <1>3, <1>4, <1>7, <1>8

LEMMA CallPlace ==
  ASSUME NEW d \in RunState, d.phase = "call"
  PROVE  /\ Place(d) \in 1..7
         /\ ~d.retried =>
              Place(d) = IF d.pass = "bulk" THEN 7 ELSE IF d.pass = "fallback" THEN 5 ELSE 2
         /\ d.retried =>
              Place(d) = IF d.pass = "bulk" THEN 6 ELSE IF d.pass = "fallback" THEN 4 ELSE 1
         /\ d.pass # "escalation" => Place(d) >= 4
         /\ d.pass = "bulk" => Place(d) >= 6
  BY DEF Place, RunState, Passes

\* The steps that leave the round.
LEMMA LeavingCounts ==
  ASSUME IInv, IInv', NEW r \in Runs,
         CacheHit(r) \/ HaltAtCeiling(r) \/ ProviderFails(r) \/ StoreVerdict(r)
  PROVE  StepsLeft(run'[r]) < StepsLeft(run[r])
  <1> DEFINE o == run[r]  e == run'[r]
  <1>1. o \in RunState /\ e \in RunState
    BY DEF IInv, TypeOK
  <1>2. o.phase \in {"lookup", "call", "escalate", "settle"}
    BY DEF CacheHit, HaltAtCeiling, ProviderFails, StoreVerdict, Storing
  <1>3. e.phase \in {"choose", "finish"} /\ e.todo = o.todo
    <2>1. CASE CacheHit(r) \/ HaltAtCeiling(r) \/ ProviderFails(r)
      <3>1. e = [o EXCEPT !.phase = "choose"] \/ e = [o EXCEPT !.phase = "finish"]
        BY <2>1 DEF CacheHit, HaltAtCeiling, ProviderFails, Step, IInv, TypeOK
      <3> HIDE DEF o, e
      <3> QED BY <1>1, <3>1 DEF RunState
    <2>2. CASE StoreVerdict(r)
      <3>1. PICK w : e = [o EXCEPT !.phase = "choose", !.wrote = w]
        BY <2>2 DEF StoreVerdict, Step, IInv, TypeOK
      <3> HIDE DEF o, e
      <3> QED BY <1>1, <3>1 DEF RunState
    <2> QED BY <2>1, <2>2
  <1> HIDE DEF o, e
  <1>4. StepsLeft(e) < StepsLeft(o)
    BY <1>1, <1>2, <1>3, FindingLeft
  <1> QED BY <1>4 DEF o, e

\* The steps that begin a pass, or give it up before it began.
LEMMA CallingCounts ==
  ASSUME IInv, IInv', NEW r \in Runs, CallBulk(r) \/ CallEscalation(r) \/ NoStronger(r)
  PROVE  StepsLeft(run'[r]) < StepsLeft(run[r])
  <1> DEFINE o == run[r]  e == run'[r]
  <1>1. o \in RunState /\ e \in RunState
    BY DEF IInv, TypeOK
  <1>2. CASE CallBulk(r)
    <2>1. PICK s, n : e = [o EXCEPT !.phase = "call", !.pass = "bulk", !.model = s,
                                    !.retried = FALSE, !.result = n]
      BY <1>2 DEF CallBulk, Step, IInv, TypeOK
    <2>2. o.phase = "lookup"
      BY <1>2 DEF CallBulk
    <2> HIDE DEF o, e
    <2>3. /\ e.phase = "call" /\ e.pass = "bulk" /\ ~e.retried
          /\ e.todo = o.todo /\ e.rounds = o.rounds
      BY <1>1, <2>1 DEF RunState
    <2>4. Place(e) = 7 /\ Place(o) = 8
      BY <1>1, <2>2, <2>3, CallPlace, PlaceType
    <2>5. StepsLeft(e) < StepsLeft(o)
      BY <1>1, <2>2, <2>3, <2>4, PlaceFalls
    <2> QED BY <2>5 DEF o, e
  <1>3. CASE CallEscalation(r)
    <2>1. PICK s : e = [o EXCEPT !.phase = "call", !.pass = "escalation", !.model = s,
                                 !.retried = FALSE]
      BY <1>3 DEF CallEscalation, Step, IInv, TypeOK
    <2>2. o.phase = "escalate"
      BY <1>3 DEF CallEscalation
    <2> HIDE DEF o, e
    <2>3. /\ e.phase = "call" /\ e.pass = "escalation" /\ ~e.retried
          /\ e.todo = o.todo /\ e.rounds = o.rounds
      BY <1>1, <2>1 DEF RunState
    <2>4. Place(e) = 2 /\ Place(o) = 3
      BY <1>1, <2>2, <2>3, CallPlace, PlaceType
    <2>5. StepsLeft(e) < StepsLeft(o)
      BY <1>1, <2>2, <2>3, <2>4, PlaceFalls
    <2> QED BY <2>5 DEF o, e
  <1>4. CASE NoStronger(r)
    <2>1. e = [o EXCEPT !.phase = "settle"]
      BY <1>4 DEF NoStronger, Step, IInv, TypeOK
    <2>2. o.phase = "escalate"
      BY <1>4 DEF NoStronger
    <2> HIDE DEF o, e
    <2>3. e.phase = "settle" /\ e.todo = o.todo /\ e.rounds = o.rounds
      BY <1>1, <2>1 DEF RunState
    <2>4. Place(e) = 0 /\ Place(o) = 3
      BY <1>1, <2>2, <2>3, PlaceType
    <2>5. StepsLeft(e) < StepsLeft(o)
      BY <1>1, <2>2, <2>3, <2>4, PlaceFalls
    <2> QED BY <2>5 DEF o, e
  <1> QED BY <1>2, <1>3, <1>4

\* The steps that end an attempt: a second attempt, another pass or none.
LEMMA AttemptCounts ==
  ASSUME IInv, IInv', NEW r \in Runs,
         \/ Retry(r) \/ NoAnswer(r)
         \/ \E a \in Answers : AcceptBulk(r, a) \/ AcceptEscalation(r, a)
  PROVE  StepsLeft(run'[r]) < StepsLeft(run[r])
  <1> DEFINE o == run[r]  e == run'[r]
  <1>1. o \in RunState /\ e \in RunState /\ o.phase = "call"
    <2>1. o \in RunState /\ e \in RunState
      BY DEF IInv, TypeOK
    <2>2. \A a : AcceptBulk(r, a) \/ AcceptEscalation(r, a) => o.phase = "call"
      BY DEF AcceptBulk, AcceptEscalation
    <2>3. Retry(r) => o.phase = "call"
      BY DEF Retry
    <2>4. NoAnswer(r) => o.phase = "call"
      BY DEF NoAnswer
    <2> QED BY <2>1, <2>2, <2>3, <2>4
  <1>2. /\ e.todo = o.todo /\ e.rounds = o.rounds
        /\ \/ e.phase = "call" /\ e.pass = o.pass /\ ~o.retried /\ e.retried
           \/ e.phase = "call" /\ e.pass = "fallback" /\ ~e.retried /\ o.pass = "bulk"
           \/ e.phase = "settle"
           \/ e.phase = "escalate" /\ o.pass # "escalation"
    <2>1. CASE Retry(r)
      <3>1. e = [o EXCEPT !.retried = TRUE] /\ ~o.retried
        BY <2>1 DEF Retry, Step, IInv, TypeOK
      <3> HIDE DEF o, e
      <3> QED BY <1>1, <3>1 DEF RunState
    <2>2. CASE NoAnswer(r)
      <3> DEFINE c == LoggedCost(r)
                 m == FallbackSelection
                 again == [o.result EXCEPT !.model = FallbackSelection]
                 forced == [o.result EXCEPT !.forced = TRUE]
      <3>1. \/ /\ o.pass = "bulk"
               /\ Step(r, [o EXCEPT !.pass = "fallback", !.model = m, !.retried = FALSE,
                                    !.cost = c, !.result = again])
            \/ Step(r, [o EXCEPT !.phase = "settle", !.cost = c, !.result = forced])
        BY <2>2 DEF NoAnswer
      <3> HIDE DEF c, m, again, forced
      <3>2. \A d : Step(r, d) => e = d
        BY DEF Step, IInv, TypeOK
      <3>3. \/ /\ o.pass = "bulk"
               /\ e = [o EXCEPT !.pass = "fallback", !.model = m, !.retried = FALSE,
                                !.cost = c, !.result = again]
            \/ e = [o EXCEPT !.phase = "settle", !.cost = c, !.result = forced]
        BY <3>1, <3>2
      <3> HIDE DEF o, e
      <3> QED BY <1>1, <3>3 DEF RunState
    <2>3. ASSUME NEW a \in Answers, AcceptBulk(r, a)
          PROVE  /\ e.todo = o.todo /\ e.rounds = o.rounds
                 /\ e.phase = "settle" \/ (e.phase = "escalate" /\ o.pass # "escalation")
      <3>1. /\ o.pass # "escalation"
            /\ \E p \in {"escalate", "settle"} : \E c, s :
                 e = [o EXCEPT !.phase = p, !.cost = c, !.result = s]
        BY <2>3 DEF AcceptBulk, Step, IInv, TypeOK
      <3> HIDE DEF o, e
      <3> QED BY <1>1, <3>1 DEF RunState
    <2>4. ASSUME NEW a \in Answers, AcceptEscalation(r, a)
          PROVE  e.todo = o.todo /\ e.rounds = o.rounds /\ e.phase = "settle"
      <3>1. \E c, s : e = [o EXCEPT !.phase = "settle", !.cost = c, !.result = s]
        BY <2>4 DEF AcceptEscalation, Step, IInv, TypeOK
      <3> HIDE DEF o, e
      <3> QED BY <1>1, <3>1 DEF RunState
    <2> HIDE DEF o, e
    <2> QED BY <2>1, <2>2, <2>3, <2>4
  <1> HIDE DEF o, e
  <1>3. Place(e) < Place(o) /\ e.phase \in {"call", "escalate", "settle"}
    <2>1. CASE e.phase = "call"
      <3>1. o.pass \in Passes
        BY <1>1 DEF RunState
      <3> QED BY <1>1, <1>2, <2>1, <3>1, CallPlace DEF Passes
    <2>2. CASE e.phase # "call"
      BY <1>1, <1>2, <2>2, CallPlace, PlaceType
    <2> QED BY <2>1, <2>2
  <1>4. StepsLeft(e) < StepsLeft(o)
    BY <1>1, <1>2, <1>3, PlaceFalls
  <1> QED BY <1>4 DEF o, e

\* A round of verification uses up one of the rounds there are.
LEMMA VerifyCounts ==
  ASSUME IInv, IInv', NEW r \in Runs, Verify(r)
  PROVE  StepsLeft(run'[r]) < StepsLeft(run[r])
  <1> DEFINE o == run[r]  e == run'[r]  n == Cardinality(o.todo)  k == o.rounds
  <1>1. o \in RunState /\ e \in RunState /\ o.phase = "settle" /\ k < 2
    BY DEF IInv, TypeOK, Verify, AsksAgain, MaxRounds
  <1>2. e = [o EXCEPT !.phase = "lookup", !.rounds = k + 1]
    BY DEF Verify, RoundsAfter, Step, IInv, TypeOK
  <1>3. e.phase = "lookup" /\ e.todo = o.todo /\ e.rounds = k + 1
    <2> HIDE DEF o, e
    <2> QED BY <1>1, <1>2 DEF RunState
  <1>4. n \in Nat /\ k \in 0..2
    BY <1>1, TodoFinite DEF RunState, MaxRounds
  <1>5. StepsLeft(o) = 28 * n + 9 * (2 - k) + 2
    <2>1. StepsLeft(o) = 28 * n + 9 * (2 - k) + Place(o) + 2 /\ Place(o) = 0
      BY <1>1, StepsLeftInRound, PlaceType
    <2> HIDE DEF o, n, k
    <2> QED BY <1>4, <2>1
  <1>6. StepsLeft(e) = 28 * n + 9 * (2 - (k + 1)) + 10
    <2>1. StepsLeft(e) = 28 * n + 9 * (2 - (k + 1)) + Place(e) + 2 /\ Place(e) = 8
      BY <1>1, <1>3, StepsLeftInRound, PlaceType
    <2> HIDE DEF o, e, n, k
    <2> QED BY <1>4, <2>1
  <1>7. 28 * n + 9 * (2 - (k + 1)) + 10 < 28 * n + 9 * (2 - k) + 2
    <2> HIDE DEF o, e, n, k
    <2> QED BY <1>1, <1>4
  <1> QED BY <1>5, <1>6, <1>7

LEMMA AdvanceCounts ==
  ASSUME IInv, NEW r \in Runs, Advance(r)
  PROVE  StepsLeft(run'[r]) < StepsLeft(run[r])
  <1>1. IInv'
    BY AdvanceSound
  <1>2. run \in [Runs -> RunState]
    BY DEF IInv, TypeOK
  <1>3. CASE RedactionTrips(r) \/ DeadlockVictim(r) \/ Finish(r)
    <2>1. run'[r] = Closed /\ run[r].phase # "idle"
      BY <1>2, <1>3 DEF RedactionTrips, DeadlockVictim, WaitsFor, Storing, Finish, Step
    <2> QED BY <1>2, <2>1, ClosedCounts
  <1>4. CASE \E f \in Findings : Choose(r, f) \/ Skip(r, f)
    BY <1>4, LoopCounts
  <1> QED BY <1>1, <1>3, <1>4, LeavingCounts, CallingCounts, AttemptCounts, VerifyCounts
      DEF Advance

\* A step of another run, or of no run, leaves a run as it is.
LEMMA OthersDoNotCount ==
  ASSUME IInv, [Next]_vars, NEW r \in Runs,
         run[r].phase # "idle", run'[r] # run[r], ~Advance(r)
  PROVE  StepsLeft(run'[r]) < StepsLeft(run[r])
  <1>1. run \in [Runs -> RunState]
    BY DEF IInv, TypeOK
  <1>2. ASSUME NEW q \in Runs, Advance(q), q # r
        PROVE  run'[r] = run[r]
    <2>1. \E d : run' = [run EXCEPT ![q] = d]
      BY <1>2 DEF Advance, Choose, Skip, CacheHit, CallBulk, NoStronger, CallEscalation,
         HaltAtCeiling, RedactionTrips, Retry, ProviderFails, NoAnswer, AcceptBulk,
         AcceptEscalation, Verify, StoreVerdict, DeadlockVictim, Finish, Step
    <2> QED BY <1>1, <1>2, <2>1
  <1>3. ASSUME NEW q \in Runs, Start(q)
        PROVE  run'[r] = run[r]
    BY <1>1, <1>3 DEF Start
  <1>4. ASSUME NEW q \in Runs, Abort(q)
        PROVE  q = r /\ run'[r] = Closed
    BY <1>1, <1>4 DEF Abort, Step
  <1>5. ASSUME NEW role, NEW s, Repin(role, s)
        PROVE  run' = run
    BY <1>5 DEF Repin
  <1>6. run'[r] = Closed
    BY <1>2, <1>3, <1>4, <1>5 DEF Next, vars
  <1> QED BY <1>1, <1>6, ClosedCounts

\* Every step of an open triage run, whatever comes of its calls and whatever other runs
\* do meanwhile, brings its end nearer.
THEOREM EveryStepCounts == Spec => StepsRunOut
  <1>1. IInv /\ [Next]_vars =>
          [\A r \in Runs : run[r].phase # "idle" /\ run'[r] # run[r] =>
             StepsLeft(run'[r]) < StepsLeft(run[r])]_vars
    BY AdvanceCounts, OthersDoNotCount
  <1> QED BY <1>1, AdjudicationInvariant, PTL DEF Spec, StepsRunOut

===============================================================================
