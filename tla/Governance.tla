------------------------------ MODULE Governance ------------------------------
(***************************************************************************)
(* What people and rules decide about findings outside their life cycle:   *)
(* which findings detection raises and which it withholds, how reviews     *)
(* become suppressions, and whose an asset is.                             *)
(*                                                                         *)
(* Commands of the CLI and calls of the API are transactions; only a       *)
(* promotion sweep, which opens pull requests while its transaction is     *)
(* open, is taken step by step.                                            *)
(***************************************************************************)
EXTENDS Predicates, Attribution

CONSTANTS
    Assets,          \* the active assets, in the order the database returns them
    Categories,      \* id -> [enabled, applies_to, severity, detect, suppress_if, route]
    Controls,        \* controls.yaml: id -> [detect, action, confirm, mitigates, never]
    NeverSuppress,   \* its never_suppress_severities
    Teams,           \* teams.yaml
    Worlds,          \* name -> what a scan may store, with the feeds: [evidence, catalog, scores]
    Owners,          \* whom people may name
    Inventories,     \* what enrich may read from clouds, Terraform and git
    Sweepers,        \* processes that run "feedback promote"
    Rationales,
    MinCounts,       \* what sweeps are given for --min-count
    ByHand,          \* entries a person may write in suppressions.yaml
    MaxScans, MaxReviews, MaxSweeps, MaxEdits, MaxAnswers, MaxEnrichments   \* bounds

ASSUME GovernanceAssumption ==
    /\ MinCounts \subseteq Nat \ {0}
    /\ {MaxScans, MaxReviews, MaxSweeps, MaxEdits, MaxAnswers, MaxEnrichments} \subseteq Nat
    /\ Assets \in Seq(Range(Assets))
    /\ \A owner \in Owners : owner.type \in {"team", "user"}

VARIABLES
    scans,       \* scan runs so far, the last one's number
    detected,    \* whether detection has run over the last one
    world,       \* the name of what it stored and of the feeds fetched for it
    controls,    \* Control rows: set of [asset, control, evidence]
    findings,    \* fingerprint -> the scan run that last raised it
    reviews,     \* HumanReview rows, in order
    sweeps,      \* [Sweepers -> a sweep under way]
    sweepings,   \* sweeps begun
    pulls,       \* set of pull requests
    settled,     \* reviews proposed by sweeps that ended well
    upstream,    \* suppressions.yaml of the org-context repository
    checkout,    \* the copy the program reads
    edits,       \* changes people made to suppressions.yaml by hand
    minCounts,   \* history: the --min-count of every sweep so far
    written,     \* history: the entries people wrote by hand
    overrides,   \* ownership_overrides.yaml: value -> owner
    rows,        \* Ownership rows: value -> source -> owner
    answered,    \* history: value -> the owner last given through the API, <<>> for none
    filed,       \* history: value -> the owner the file named when enrich last read it
                 \* after that answer, <<>> for none
    answers, enrichments   \* counted for the bounds

detection == <<scans, detected, world, controls, findings>>
suppressions == <<upstream, checkout, edits, written>>
feedback == <<reviews, sweeps, sweepings, pulls, settled, suppressions, minCounts>>
ownership == <<overrides, rows, answered, filed, answers, enrichments>>
vars == <<detection, feedback, ownership>>

Values == {a.value : a \in Range(Assets)}
EvidenceOf(asset) == Worlds[world].evidence[asset.value]

-----------------------------------------------------------------------------
(* Detection *)

\* A scan run stores its evidence; the feeds are those of the day.
Scan(w) ==
    /\ scans < MaxScans
    /\ scans' = scans + 1
    /\ world' = w
    /\ detected' = FALSE
    /\ UNCHANGED <<controls, findings, feedback, ownership>>

FeedContext(found) == Context(Worlds[world].catalog, Worlds[world].scores, found)

\* What the detect blocks of a file's entries find in an asset's evidence.
Matches(entries, asset, found) ==
    [id \in DOMAIN entries |-> EvaluateBlock(entries[id].detect, asset,
                                            EvidenceOf(asset), FeedContext(found))]

ControlRows(asset, match) ==
    {[asset |-> asset.value, control |-> id,
      evidence |-> IF match[id].ids = {} THEN {} ELSE {Min(match[id].ids)}] :
        id \in {id \in DOMAIN match : match[id].matched}}

\* The controls an asset's evidence shows.  Each sees the feeds and no control.
DetectControls(asset) == ControlRows(asset, Matches(Controls, asset, {}))

\* One row per asset and control; a control that is gone keeps its row.
UpsertControls(found) ==
    {r \in controls : \A f \in found : <<f.asset, f.control>> # <<r.asset, r.control>>} \cup found

Mitigates(control, id) == {"*", id} \cap control.mitigates # {} /\ id \notin control.never

\* Mutant: a control nobody confirmed suppresses like any other.
SuppressedUnconfirmed(id, category, found) ==
    \E r \in found :
        /\ Controls[r.control].action = "suppress"
        /\ category.severity \notin NeverSuppress
        /\ Mitigates(Controls[r.control], id)

SuppressedByControls(id, category, found) ==
    \E r \in found :
        /\ Controls[r.control].action = "suppress"
        /\ ~Controls[r.control].confirm
        /\ category.severity \notin NeverSuppress
        /\ Mitigates(Controls[r.control], id)

SuppressedByPromotedRule(id, asset) ==
    \E s \in checkout : s.category = id /\ asset.value \in s.assets

Fingerprint(id, asset, discriminator) ==
    [category |-> id, asset |-> asset.value, discriminator |-> discriminator]

RaisedBy(asset, found, match) ==
    {Fingerprint(id, asset, match[id].discriminator) : id \in
        {id \in DOMAIN match :
            LET c == Categories[id] IN
            /\ c.enabled /\ asset.type \in c.applies_to
            /\ match[id].matched
            /\ ~EvaluateClausesAny(c.suppress_if, asset, EvidenceOf(asset),
                                   FeedContext(found))
            /\ ~SuppressedByControls(id, c, found)
            /\ ~SuppressedByPromotedRule(id, asset)}}

\* The fingerprints one asset's evidence raises.
EvaluateAsset(asset, found) == RaisedBy(asset, found, Matches(Categories, asset, found))

\* "kiyooo detect": every asset the scan run touched.
Detect ==
    /\ scans > 0 /\ ~detected
    /\ detected' = TRUE
    /\ LET touched == {a \in Range(Assets) : EvidenceOf(a) # <<>>}
           raised == UNION {EvaluateAsset(a, DetectControls(a)) : a \in touched}
       IN  /\ findings' = [f \in raised \cup DOMAIN findings |->
                              IF f \in raised THEN scans ELSE findings[f]]
           /\ controls' = UpsertControls(UNION {DetectControls(a) : a \in touched})
    /\ UNCHANGED <<scans, world, feedback, ownership>>

-----------------------------------------------------------------------------
(* Feedback: reviews, sweeps, pull requests *)

\* "kiyooo review"
Review(f, verdict, rationale) ==
    /\ Len(reviews) < MaxReviews
    /\ reviews' = Append(reviews, [category |-> f.category, asset |-> f.asset,
                                   verdict |-> verdict, rationale |-> rationale,
                                   promoted |-> FALSE])
    /\ UNCHANGED <<detection, sweeps, sweepings, pulls, settled, minCounts, suppressions, ownership>>

\* Mutant: every review is swept again.
EveryReview == DOMAIN reviews

ListUnpromoted == {i \in DOMAIN reviews : ~reviews[i].promoted}

\* Groups of false positives of one category with one rationale: N rows, whoever
\* wrote them.
FindPromotionCandidates(ids, minCount) ==
    LET group(i) == {k \in ids : /\ reviews[k].verdict = "false_positive"
                                 /\ reviews[k].category = reviews[i].category
                                 /\ reviews[k].rationale = reviews[i].rationale}
    IN  {g \in {group(i) : i \in ids} : Cardinality(g) >= minCount}

BuildSuppressionEntry(group) ==
    LET r == reviews[CHOOSE i \in group : TRUE] IN
    [category |-> r.category, reason |-> r.rationale,
     assets |-> {reviews[i].asset : i \in group}]

RenderUpdated(file, entry) == file \cup {entry}

NoSweep == [phase |-> "idle", file |-> {}, left |-> {}, open |-> {}, marked |-> {},
            before |-> {}]

\* The reviews and the checked-out file are read once.
SweepBegins(s, minCount) ==
    /\ sweeps[s].phase = "idle"
    /\ sweepings < MaxSweeps
    /\ sweepings' = sweepings + 1
    /\ minCounts' = minCounts \cup {minCount}
    /\ sweeps' = [sweeps EXCEPT ![s] =
         [NoSweep EXCEPT !.phase = "sweeping", !.file = checkout,
                         !.left = FindPromotionCandidates(ListUnpromoted, minCount),
                         !.before = settled]]
    /\ UNCHANGED <<detection, reviews, pulls, settled, suppressions, ownership>>

\* open_pr branches off the repository as it is and replaces the whole file by the
\* sweep's copy and one entry.
OpenPr(s, group) ==
    /\ sweeps[s].phase = "sweeping"
    /\ group \in sweeps[s].left
    /\ pulls' = pulls \cup
         {[reviews |-> group, base |-> upstream, before |-> sweeps[s].before,
           content |-> RenderUpdated(sweeps[s].file, BuildSuppressionEntry(group))]}
    /\ sweeps' = [sweeps EXCEPT ![s] =
         [@ EXCEPT !.phase = "marking", !.left = sweeps[s].left \ {group}, !.open = group]]
    /\ UNCHANGED <<detection, reviews, sweepings, settled, minCounts, suppressions, ownership>>

\* An UPDATE of rows another sweep has marked waits for its end.
MarkPromoted(s) ==
    /\ sweeps[s].phase = "marking"
    /\ \A t \in Sweepers \ {s} : sweeps[t].marked \cap sweeps[s].open = {}
    /\ sweeps' = [sweeps EXCEPT ![s] =
         [@ EXCEPT !.phase = "sweeping", !.open = {},
                   !.marked = sweeps[s].marked \cup sweeps[s].open]]
    /\ UNCHANGED <<detection, reviews, sweepings, pulls, settled, minCounts, suppressions, ownership>>

SweepEnds(s) ==
    /\ sweeps[s].phase = "sweeping"
    /\ sweeps[s].left = {}
    /\ reviews' = [i \in DOMAIN reviews |->
         [reviews[i] EXCEPT !.promoted = @ \/ i \in sweeps[s].marked]]
    /\ settled' = settled \cup sweeps[s].marked
    /\ sweeps' = [sweeps EXCEPT ![s] = NoSweep]
    /\ UNCHANGED <<detection, sweepings, pulls, minCounts, suppressions, ownership>>

\* GitHub answers with an error, or the process ends: the marks are rolled back
\* and the pull requests stay.
SweepDies(s) ==
    /\ sweeps[s].phase # "idle"
    /\ sweeps' = [sweeps EXCEPT ![s] = NoSweep]
    /\ UNCHANGED <<detection, reviews, sweepings, pulls, settled, minCounts, suppressions, ownership>>

\* A person merges a pull request that does not conflict: the file has not changed
\* since it was branched off.
MergePr(p) ==
    /\ p.base = upstream
    /\ upstream' = p.content
    /\ upstream' # upstream
    /\ UNCHANGED <<detection, reviews, sweeps, sweepings, pulls, settled, minCounts, checkout,
                   edits, written, ownership>>

\* A person writes an entry in suppressions.yaml, which asks for no review ids, or
\* takes one out.
EditSuppressions ==
    /\ edits < MaxEdits
    /\ edits' = edits + 1
    /\ \/ \E entry \in ByHand :
            /\ upstream' = upstream \cup {entry}
            /\ written' = written \cup {entry}
       \/ \E entry \in upstream :
            /\ upstream' = upstream \ {entry}
            /\ UNCHANGED written
    /\ UNCHANGED <<detection, reviews, sweeps, sweepings, pulls, settled, minCounts, checkout,
                   ownership>>

\* A person brings the checkout up to date.
PullOrgContext ==
    /\ checkout # upstream
    /\ checkout' = upstream
    /\ UNCHANGED <<detection, reviews, sweeps, sweepings, pulls, settled, minCounts, upstream,
                   edits, written, ownership>>

-----------------------------------------------------------------------------
(* Ownership *)

\* POST /assets/{id}/ownership
OverrideOwnership(value, owner) ==
    /\ answers < MaxAnswers
    /\ answers' = answers + 1
    /\ rows' = [rows EXCEPT ![value] = UpsertCandidates(@, [manual |-> owner])]
    /\ answered' = [answered EXCEPT ![value] = <<owner>>]
    /\ filed' = [filed EXCEPT ![value] = <<>>]
    /\ UNCHANGED <<detection, feedback, overrides, enrichments>>

\* A person edits ownership_overrides.yaml: an entry is written or changed, or taken
\* out.  The program hears of it at the next enrich.
EditOverrides(value) ==
    /\ answers < MaxAnswers
    /\ answers' = answers + 1
    /\ \/ \E owner \in Owners :
            overrides' = [v \in {value} \cup DOMAIN overrides |->
                             IF v = value THEN owner ELSE overrides[v]]
       \/ overrides' = Restrict(overrides, DOMAIN overrides \ {value})
    /\ UNCHANGED <<detection, feedback, rows, answered, filed, enrichments>>

\* "kiyooo enrich": asset after asset, each seeing the rows of those before it.
ResolveOwnership(stored, asset, known) ==
    [stored EXCEPT ![asset.value] =
        UpsertCandidates(@, Candidates(asset, Assets, stored, overrides, Teams, known))]

\* The rows after the first i assets.
EnrichedBy(known) ==
    LET after[i \in 0..Len(Assets)] ==
            IF i = 0 THEN rows ELSE ResolveOwnership(after[i - 1], Assets[i], known)
    IN  after

Enrich(known) ==
    /\ enrichments < MaxEnrichments
    /\ enrichments' = enrichments + 1
    /\ rows' = EnrichedBy(known)[Len(Assets)]
    /\ filed' = [v \in Values |-> IF v \in DOMAIN overrides THEN <<overrides[v]>>
                                                           ELSE filed[v]]
    /\ UNCHANGED <<detection, feedback, overrides, answered, answers>>

MergeExisting(value) == Merge(rows[value])

-----------------------------------------------------------------------------
Init ==
    /\ scans = 0 /\ detected = TRUE
    /\ world = CHOOSE w \in DOMAIN Worlds : TRUE
    /\ controls = {} /\ findings = <<>>
    /\ reviews = <<>> /\ sweeps = [s \in Sweepers |-> NoSweep] /\ sweepings = 0
    /\ pulls = {} /\ settled = {} /\ upstream = {} /\ checkout = {}
    /\ edits = 0 /\ minCounts = {} /\ written = {}
    /\ overrides = <<>> /\ rows = [v \in Values |-> <<>>]
    /\ answered = [v \in Values |-> <<>>] /\ filed = answered
    /\ answers = 0 /\ enrichments = 0

DetectionNext == (\E w \in DOMAIN Worlds : Scan(w)) \/ Detect

FeedbackNext ==
    \/ \E f \in DOMAIN findings, verdict \in {"true_positive", "false_positive"},
          rationale \in Rationales : Review(f, verdict, rationale)
    \/ \E s \in Sweepers :
         \/ \E minCount \in MinCounts : SweepBegins(s, minCount)
         \/ MarkPromoted(s) \/ SweepEnds(s) \/ SweepDies(s)
         \/ \E group \in sweeps[s].left : OpenPr(s, group)
    \/ \E p \in pulls : MergePr(p)
    \/ EditSuppressions
    \/ PullOrgContext

OwnershipNext ==
    \/ \E value \in Values, owner \in Owners : OverrideOwnership(value, owner)
    \/ \E value \in Values : EditOverrides(value)
    \/ \E known \in Inventories : Enrich(known)

Next == DetectionNext \/ FeedbackNext \/ OwnershipNext

Spec == Init /\ [][Next]_vars

-----------------------------------------------------------------------------
(* Properties *)

\* A step of detection accounts for what it withholds.
WithholdsForCause ==
    detected' /\ ~detected =>
       \A asset \in {a \in Range(Assets) : EvidenceOf(a) # <<>>} :
         LET seen == {r \in controls' : r \in DetectControls(asset)}
             match == Matches(Categories, asset, seen)
         IN  \A id \in {id \in DOMAIN match : /\ match[id].matched /\ Categories[id].enabled
                                             /\ asset.type \in Categories[id].applies_to} :
               LET fingerprint == Fingerprint(id, asset, match[id].discriminator)
                   c == Categories[id]
               IN  \/ fingerprint \in DOMAIN findings' /\ findings'[fingerprint] = scans
                   \/ \E i \in DOMAIN c.suppress_if :
                          EvaluateClause(c.suppress_if[i], asset, EvidenceOf(asset),
                                         FeedContext(seen)).matched
                   \/ \E r \in seen :
                          LET k == Controls[r.control] IN
                          /\ k.action = "suppress" /\ ~k.confirm
                          /\ c.severity \notin NeverSuppress /\ Mitigates(k, id)
                   \/ \E why \in Rationales :
                          LET agreeing == {i \in DOMAIN reviews :
                                  /\ reviews[i].verdict = "false_positive"
                                  /\ reviews[i].category = id /\ reviews[i].rationale = why}
                          IN  /\ \E n \in minCounts : Cardinality(agreeing) >= n
                              /\ \E i \in agreeing : reviews[i].asset = asset.value
                   \/ \E entry \in written : entry.category = id /\ asset.value \in entry.assets

\* What detection over a scan run does not raise although the category is enabled,
\* applies to the asset and matches its evidence was withheld for one of four
\* causes: the category's own suppress_if; a control seen on that evidence that
\* suppresses, needs no confirmation, mitigates the category and is not up against
\* a severity that is never suppressed; as many reviews as some sweep was told to
\* ask for, all calling the category a false positive for one and the same reason,
\* one of them on this asset; or an entry for the category and the asset that a
\* person wrote in suppressions.yaml by hand, for which no review is asked
\* (detect/engine.py: _evaluate_asset; config.py: ControlsFile, SuppressionEntry;
\* feedback/promote.py).  It is reviews that are counted, not the people who wrote
\* them.
WithheldForCause == [][WithholdsForCause]_vars

\* A repeat sweep does not propose again what a sweep that ended well before it
\* began had proposed (db/repo/human_review.py: list_unpromoted).  Only sweeps that
\* overlap, and one that died after opening a pull request, lead to a second one.
PromotedOnce == \A p \in pulls : p.reviews \cap p.before = {}

\* Whom people name for an asset: the file, if enrich read it since the last answer.
Given(value) == IF filed[value] # <<>> THEN filed[value] ELSE answered[value]

\* The owner a person named outranks every inventory, whatever enrich read before or
\* after, and a route to the asset's owner goes there without asking for
\* confirmation.  The last answer to the API stays until enrich reads an entry of
\* ownership_overrides.yaml for the asset, which replaces it even where the entry is
\* the older of the two; what replaces an answer is never an inventory.  No asset
\* is taken for one a person named an owner of when nobody did: what a sibling lends
\* never becomes an answer (enrich/ownership/merge.py; sources.py: sibling_asset;
\* route/policy.py).
HumanAnswerWins ==
    \A v \in Values :
        IF Given(v) = <<>> THEN "manual" \notin DOMAIN rows[v]
        ELSE LET owner == Head(Given(v)) IN
             /\ Head(MergeExisting(v).top).owner = owner
             /\ \A id \in DOMAIN Categories :
                  LET c == Categories[id]
                      sent == ResolveRoute(c.route, c.severity, Teams, MergeExisting(v)).assignee
                  IN  c.route.assign_to = "owner_of_asset" =>
                        /\ ~sent.note
                        /\ sent.address = IF owner.type = "user" THEN <<owner.ref>>
                                          ELSE ManagerOf(TeamById(Teams, owner.ref))
===============================================================================
