---------------------------- MODULE GovernanceProofs ----------------------------
(***************************************************************************)
(* Theorems about Governance for every set of categories, controls, scans, *)
(* people and overlapping sweeps: what a sweep proposes, and why detection *)
(* withholds a finding.                                                    *)
(***************************************************************************)
EXTENDS Governance, FiniteSetTheorems, WellFoundedInduction, TLAPS

-----------------------------------------------------------------------------
(* Reviews                                                                 *)

ReviewRow ==
    [category : DOMAIN Categories, asset : Values,
     verdict : {"true_positive", "false_positive"}, rationale : Rationales, promoted : BOOLEAN]

\* What stands behind the entries of suppressions.yaml: the reviews, the counts
\* sweeps were told to ask for, and the entries people wrote.
Known == [list |-> reviews, counts |-> minCounts, hand |-> written]

History(h) == h.list \in Seq(ReviewRow) /\ h.counts \subseteq MinCounts

\* Rows are appended, and only their mark changes; counts and entries are added.
Keep(now, later) ==
    /\ DOMAIN now.list \subseteq DOMAIN later.list
    /\ \A i \in DOMAIN now.list :
           /\ later.list[i].category = now.list[i].category
           /\ later.list[i].asset = now.list[i].asset
           /\ later.list[i].verdict = now.list[i].verdict
           /\ later.list[i].rationale = now.list[i].rationale
    /\ now.counts \subseteq later.counts /\ now.hand \subseteq later.hand

\* The reviews that call a category's findings false for one reason.
Agreeing(list, id, why) ==
    {i \in DOMAIN list : /\ list[i].verdict = "false_positive"
                         /\ list[i].category = id /\ list[i].rationale = why}

\* As many as some sweep was told to ask for.
Enough(h, g) == \E n \in h.counts : Cardinality(g) >= n

\* A person wrote the entry, or enough agreeing reviews stand behind it.
Backed(h, entry) ==
    \/ entry \in h.hand
    \/ \E why \in Rationales :
        /\ Enough(h, Agreeing(h.list, entry.category, why))
        /\ entry.assets \subseteq {h.list[i].asset : i \in Agreeing(h.list, entry.category, why)}

\* A group a sweep may propose.
Grouped(h, g) ==
    /\ g \subseteq DOMAIN h.list /\ Enough(h, g)
    /\ \E id \in DOMAIN Categories : \E why \in Rationales : g \subseteq Agreeing(h.list, id, why)

SweepFields == {"phase", "file", "left", "open", "marked", "before"}

SweepSound(h, d) ==
    /\ DOMAIN d = SweepFields
    /\ \A entry \in d.file : Backed(h, entry)
    /\ \A g \in d.left : Grouped(h, g) /\ g \cap d.before = {}
    /\ d.open \subseteq DOMAIN h.list /\ d.marked \subseteq DOMAIN h.list

PullSound(h, p) ==
    /\ p.reviews \cap p.before = {}
    /\ \A entry \in p.content : Backed(h, entry)

FeedbackInv ==
    /\ \A f \in DOMAIN findings : f.category \in DOMAIN Categories /\ f.asset \in Values
    /\ History(Known)
    /\ DOMAIN sweeps = Sweepers
    /\ \A s \in Sweepers : SweepSound(Known, sweeps[s])
    /\ \A p \in pulls : PullSound(Known, p)
    /\ settled \subseteq {i \in DOMAIN reviews : reviews[i].promoted}
    /\ \A entry \in upstream \cup checkout : Backed(Known, entry)

LEMMA Counts == \A n \in MinCounts : n \in Nat /\ n > 0
  BY GovernanceAssumption DEF GovernanceAssumption

LEMMA SomeReviews ==
  ASSUME NEW list \in Seq(ReviewRow), NEW g \in SUBSET DOMAIN list
  PROVE  IsFiniteSet(g) /\ Cardinality(g) \in Nat
  <1>1. DOMAIN list = 1..Len(list) /\ Len(list) \in Nat
    OBVIOUS
  <1>2. IsFiniteSet(1..Len(list))
    BY <1>1, FS_Interval
  <1>3. IsFiniteSet(g)
    BY <1>1, <1>2, FS_Subset
  <1> QED BY <1>3, FS_CardinalityType

\* More reviews and more counts: what was enough stays enough.
LEMMA EnoughStays ==
  ASSUME NEW now, NEW later, History(now), History(later), now.counts \subseteq later.counts,
         NEW h \in SUBSET DOMAIN later.list, NEW g \in SUBSET h, Enough(now, g)
  PROVE  Enough(later, h)
  <1>1. PICK n \in now.counts : Cardinality(g) >= n
    BY DEF Enough
  <1>2. n \in later.counts /\ n \in Nat
    BY Counts DEF History
  <1>3. later.list \in Seq(ReviewRow) /\ g \in SUBSET DOMAIN later.list
    BY DEF History
  <1>4. IsFiniteSet(h) /\ Cardinality(h) \in Nat /\ Cardinality(g) \in Nat
    BY <1>3, SomeReviews
  <1>5. Cardinality(g) <= Cardinality(h)
    BY <1>4, FS_Subset
  <1>6. Cardinality(h) >= n
    BY <1>1, <1>2, <1>4, <1>5
  <1> QED BY <1>2, <1>6 DEF Enough

LEMMA BackedStays ==
  ASSUME NEW now, NEW later, History(now), History(later), Keep(now, later),
         NEW entry, Backed(now, entry)
  PROVE  Backed(later, entry)
  <1>1. CASE entry \in now.hand
    BY <1>1 DEF Keep, Backed
  <1>2. ASSUME NEW why \in Rationales,
               Enough(now, Agreeing(now.list, entry.category, why)),
               entry.assets \subseteq {now.list[i].asset : i \in Agreeing(now.list, entry.category, why)}
        PROVE  Backed(later, entry)
    <2> DEFINE A == Agreeing(now.list, entry.category, why)
               B == Agreeing(later.list, entry.category, why)
    <2>1. /\ A \subseteq B /\ B \subseteq DOMAIN later.list
          /\ \A i \in A : later.list[i].asset = now.list[i].asset
          /\ now.counts \subseteq later.counts
      BY DEF Agreeing, Keep
    <2>2. Enough(now, A) /\ entry.assets \subseteq {now.list[i].asset : i \in A}
      BY <1>2
    <2> HIDE DEF A, B
    <2>3. Enough(later, B)
      BY <2>1, <2>2, EnoughStays
    <2>4. entry.assets \subseteq {later.list[i].asset : i \in B}
      BY <2>1, <2>2
    <2> QED BY <2>3, <2>4 DEF Backed, B
  <1> QED BY <1>1, <1>2 DEF Backed

LEMMA GroupedStays ==
  ASSUME NEW now, NEW later, Keep(now, later), NEW g, Grouped(now, g)
  PROVE  Grouped(later, g)
  <1>1. PICK id \in DOMAIN Categories, why \in Rationales : g \subseteq Agreeing(now.list, id, why)
    BY DEF Grouped
  <1>2. Agreeing(now.list, id, why) \subseteq Agreeing(later.list, id, why)
    BY DEF Agreeing, Keep
  <1>3. Enough(later, g) /\ g \subseteq DOMAIN later.list
    BY DEF Grouped, Enough, Keep
  <1> QED BY <1>1, <1>2, <1>3 DEF Grouped

LEMMA SweepStays ==
  ASSUME NEW now, NEW later, History(now), History(later), Keep(now, later),
         NEW d, SweepSound(now, d)
  PROVE  SweepSound(later, d)
  BY BackedStays, GroupedStays DEF SweepSound, Keep

\* Whatever a step adds to the history, what it found stays sound.
LEMMA HistoryKept ==
  ASSUME FeedbackInv, History(Known'), Keep(Known, Known')
  PROVE  /\ \A s \in Sweepers : SweepSound(Known', sweeps[s])
         /\ SweepSound(Known', NoSweep)
         /\ \A p \in pulls : PullSound(Known', p)
         /\ \A entry \in upstream \cup checkout : Backed(Known', entry)
  <1> DEFINE later == Known'
  <1> HIDE DEF later
  <1>1. History(later) /\ Keep(Known, later) /\ History(Known)
    BY DEF later, FeedbackInv
  <1>2. \A s \in Sweepers : SweepSound(later, sweeps[s])
    BY <1>1, SweepStays DEF FeedbackInv
  <1>3. SweepSound(later, NoSweep)
    BY DEF SweepSound, NoSweep, SweepFields
  <1>4. /\ \A p \in pulls : PullSound(later, p)
        /\ \A entry \in upstream \cup checkout : Backed(later, entry)
    BY <1>1, BackedStays DEF FeedbackInv, PullSound
  <1> QED BY <1>2, <1>3, <1>4 DEF later

\* A step that leaves the reviews alone.
LEMMA SameReviews ==
  ASSUME FeedbackInv, reviews' = reviews, minCounts \subseteq minCounts',
         minCounts' \subseteq MinCounts, written \subseteq written'
  PROVE  History(Known') /\ Keep(Known, Known')
  <1> DEFINE now == Known
             later == Known'
  <1>1. /\ now.list = reviews /\ now.counts = minCounts /\ now.hand = written
        /\ later.list = reviews /\ later.counts = minCounts' /\ later.hand = written'
    BY DEF Known
  <1>2. now.list \in Seq(ReviewRow)
    BY DEF FeedbackInv, History
  <1> HIDE DEF now, later
  <1>3. History(later) /\ Keep(now, later)
    BY <1>1, <1>2 DEF History, Keep
  <1> QED BY <1>3 DEF now, later

LEMMA KnownFields ==
  /\ Known.list = reviews /\ Known.counts = minCounts /\ Known.hand = written
  /\ Known'.list = reviews' /\ Known'.counts = minCounts' /\ Known'.hand = written'
  BY DEF Known

\* A step that only adds to the reviews or marks them.
LEMMA ReviewsKept ==
  ASSUME FeedbackInv, reviews' \in Seq(ReviewRow), DOMAIN reviews \subseteq DOMAIN reviews',
         \A i \in DOMAIN reviews :
            /\ reviews'[i].category = reviews[i].category /\ reviews'[i].asset = reviews[i].asset
            /\ reviews'[i].verdict = reviews[i].verdict
            /\ reviews'[i].rationale = reviews[i].rationale,
         UNCHANGED <<findings, pulls, upstream, checkout, minCounts, written>>,
         DOMAIN sweeps' = Sweepers,
         \A s \in Sweepers : sweeps'[s] \in {sweeps[s], NoSweep},
         settled' \subseteq {i \in DOMAIN reviews' : reviews'[i].promoted}
  PROVE  FeedbackInv'
  <1>1. History(Known')
    BY KnownFields DEF FeedbackInv, History
  <1>2. Keep(Known, Known')
    BY KnownFields DEF Keep
  <1>3. \A s \in Sweepers : SweepSound(Known', sweeps'[s])
    BY <1>1, <1>2, HistoryKept
  <1>4. \A p \in pulls' : PullSound(Known', p)
    BY <1>1, <1>2, HistoryKept
  <1>5. \A entry \in (upstream \cup checkout)' : Backed(Known', entry)
    BY <1>1, <1>2, HistoryKept
  <1>6. \A f \in DOMAIN findings' : f.category \in DOMAIN Categories /\ f.asset \in Values
    BY DEF FeedbackInv
  <1> QED BY <1>1, <1>3, <1>4, <1>5, <1>6 DEF FeedbackInv

LEMMA ReviewFeedback ==
  ASSUME FeedbackInv, NEW f \in DOMAIN findings,
         NEW verdict \in {"true_positive", "false_positive"}, NEW why \in Rationales,
         Review(f, verdict, why)
  PROVE  FeedbackInv'
  <1> DEFINE row == [category |-> f.category, asset |-> f.asset, verdict |-> verdict,
                     rationale |-> why, promoted |-> FALSE]
  <1>1. row \in ReviewRow /\ reviews' = Append(reviews, row)
    BY DEF ReviewRow, FeedbackInv, Review
  <1> HIDE DEF row
  <1>2. reviews \in Seq(ReviewRow)
    BY KnownFields DEF FeedbackInv, History
  <1>3. /\ reviews' \in Seq(ReviewRow)
        /\ DOMAIN reviews \subseteq DOMAIN reviews' /\ \A i \in DOMAIN reviews : reviews'[i] = reviews[i]
    BY <1>1, <1>2
  <1>4. settled' \subseteq {i \in DOMAIN reviews' : reviews'[i].promoted}
    BY <1>3 DEF FeedbackInv, Review
  <1>5. /\ UNCHANGED <<findings, pulls, upstream, checkout, minCounts, written, sweeps>>
        /\ DOMAIN sweeps = Sweepers
    BY DEF Review, detection, suppressions, FeedbackInv
  <1> QED BY <1>3, <1>4, <1>5, ReviewsKept

LEMMA SweepFeedback ==
  ASSUME FeedbackInv, NEW s \in Sweepers, SweepEnds(s) \/ SweepDies(s)
  PROVE  FeedbackInv'
  <1>0. reviews \in Seq(ReviewRow) /\ DOMAIN sweeps = Sweepers
    BY KnownFields DEF FeedbackInv, History
  <1>1. /\ UNCHANGED <<findings, pulls, upstream, checkout, minCounts, written>>
        /\ DOMAIN sweeps' = Sweepers
        /\ \A t \in Sweepers : sweeps'[t] \in {sweeps[t], NoSweep}
    BY <1>0 DEF SweepEnds, SweepDies, detection, suppressions
  <1>2. CASE SweepDies(s)
    <2>1. UNCHANGED <<reviews, settled>>
      BY <1>2 DEF SweepDies
    <2> QED BY <1>0, <1>1, <2>1, ReviewsKept DEF FeedbackInv
  <1>3. CASE SweepEnds(s)
    <2> DEFINE mark(i) == [reviews[i] EXCEPT !.promoted = @ \/ i \in sweeps[s].marked]
    <2>1. /\ reviews' = [i \in DOMAIN reviews |-> mark(i)]
          /\ settled' = settled \cup sweeps[s].marked
      BY <1>3 DEF SweepEnds
    <2>2. DOMAIN reviews = 1..Len(reviews) /\ Len(reviews) \in Nat
          /\ \A i \in DOMAIN reviews : reviews[i] \in ReviewRow
      BY <1>0
    <2>3. ASSUME NEW i \in DOMAIN reviews
          PROVE  /\ mark(i) \in ReviewRow
                 /\ mark(i).category = reviews[i].category /\ mark(i).asset = reviews[i].asset
                 /\ mark(i).verdict = reviews[i].verdict
                 /\ mark(i).rationale = reviews[i].rationale
                 /\ mark(i).promoted = (reviews[i].promoted \/ i \in sweeps[s].marked)
      BY <2>2 DEF ReviewRow
    <2> HIDE DEF mark
    <2>4. reviews' \in Seq(ReviewRow) /\ DOMAIN reviews' = DOMAIN reviews
      BY <2>1, <2>2, <2>3
    <2>5. \A i \in DOMAIN reviews :
            /\ reviews'[i].category = reviews[i].category /\ reviews'[i].asset = reviews[i].asset
            /\ reviews'[i].verdict = reviews[i].verdict
            /\ reviews'[i].rationale = reviews[i].rationale
      BY <2>1, <2>3
    <2>6. settled' \subseteq {i \in DOMAIN reviews' : reviews'[i].promoted}
      <3>1. sweeps[s].marked \subseteq DOMAIN reviews
        BY KnownFields DEF FeedbackInv, SweepSound
      <3> QED BY <2>1, <2>3, <2>4, <3>1 DEF FeedbackInv
    <2> QED BY <1>1, <2>4, <2>5, <2>6, ReviewsKept
  <1> QED BY <1>2, <1>3

\* A step of one sweep that leaves the reviews alone.
LEMMA OneSweep ==
  ASSUME FeedbackInv, UNCHANGED <<findings, reviews, settled, upstream, checkout, written>>,
         minCounts \subseteq minCounts', minCounts' \subseteq MinCounts,
         NEW s \in Sweepers, DOMAIN sweeps' = Sweepers, SweepSound(Known', sweeps'[s]),
         \A t \in Sweepers \ {s} : sweeps'[t] = sweeps[t],
         \A p \in pulls' : p \in pulls \/ PullSound(Known', p)
  PROVE  FeedbackInv'
  <1>1. History(Known') /\ Keep(Known, Known')
    BY SameReviews
  <1>2. \A t \in Sweepers : SweepSound(Known', sweeps'[t])
    BY <1>1, HistoryKept
  <1>3. \A p \in pulls' : PullSound(Known', p)
    BY <1>1, HistoryKept
  <1>4. \A entry \in (upstream \cup checkout)' : Backed(Known', entry)
    BY <1>1, HistoryKept
  <1> QED BY <1>1, <1>2, <1>3, <1>4 DEF FeedbackInv

\* The groups of a new sweep agree, and none of them was settled before.
LEMMA NewGroups ==
  ASSUME FeedbackInv, NEW h, h.list = reviews, NEW minCount \in h.counts,
         NEW g \in FindPromotionCandidates(ListUnpromoted, minCount)
  PROVE  Grouped(h, g) /\ g \cap settled = {}
  <1>1. PICK i \in ListUnpromoted :
          /\ g = {k \in ListUnpromoted : /\ reviews[k].verdict = "false_positive"
                                         /\ reviews[k].category = reviews[i].category
                                         /\ reviews[k].rationale = reviews[i].rationale}
          /\ Cardinality(g) >= minCount
    BY DEF FindPromotionCandidates
  <1>2. i \in DOMAIN reviews /\ ListUnpromoted \subseteq DOMAIN reviews
    BY DEF ListUnpromoted
  <1>3. reviews[i] \in ReviewRow
    BY <1>2, KnownFields DEF FeedbackInv, History
  <1>4. reviews[i].category \in DOMAIN Categories /\ reviews[i].rationale \in Rationales
    BY <1>3 DEF ReviewRow
  <1>5. g \subseteq Agreeing(reviews, reviews[i].category, reviews[i].rationale)
    BY <1>1, <1>2 DEF Agreeing
  <1>6. g \cap settled = {}
    BY <1>1 DEF ListUnpromoted, FeedbackInv
  <1>7. g \subseteq DOMAIN reviews /\ Enough(h, g)
    BY <1>1, <1>2 DEF Enough
  <1> QED BY <1>4, <1>5, <1>6, <1>7 DEF Grouped

LEMMA BeginFeedback ==
  ASSUME FeedbackInv, NEW s \in Sweepers, NEW minCount \in MinCounts, SweepBegins(s, minCount)
  PROVE  FeedbackInv'
  <1> DEFINE d == [NoSweep EXCEPT !.phase = "sweeping", !.file = checkout,
                                  !.left = FindPromotionCandidates(ListUnpromoted, minCount),
                                  !.before = settled]
  <1>1. /\ DOMAIN d = SweepFields /\ d.file = checkout
        /\ d.left = FindPromotionCandidates(ListUnpromoted, minCount) /\ d.before = settled
        /\ d.open = {} /\ d.marked = {}
    BY DEF NoSweep, SweepFields
  <1>2. /\ sweeps' = [sweeps EXCEPT ![s] = d] /\ minCounts' = minCounts \cup {minCount}
        /\ UNCHANGED <<findings, reviews, settled, upstream, checkout, written, pulls>>
    BY DEF SweepBegins, detection, suppressions
  <1> HIDE DEF d
  <1>3. minCounts \subseteq minCounts' /\ minCounts' \subseteq MinCounts
    BY <1>2, KnownFields DEF FeedbackInv, History
  <1>4. SweepSound(Known', d)
    <2>1. Known'.list = reviews /\ minCount \in Known'.counts
      BY <1>2, KnownFields
    <2> DEFINE later == Known'
    <2> HIDE DEF later
    <2>2. \A g \in d.left : Grouped(later, g) /\ g \cap d.before = {}
      BY <1>1, <2>1, NewGroups DEF later
    <2>3. \A entry \in d.file : Backed(later, entry)
      BY <1>1, <1>2, <1>3, SameReviews, HistoryKept DEF later
    <2>4. SweepSound(later, d)
      BY <1>1, <2>2, <2>3 DEF SweepSound
    <2> QED BY <2>4 DEF later
  <1>5. DOMAIN sweeps' = Sweepers /\ sweeps'[s] = d
        /\ \A t \in Sweepers \ {s} : sweeps'[t] = sweeps[t]
    BY <1>2 DEF FeedbackInv
  <1> QED BY <1>2, <1>3, <1>4, <1>5, OneSweep

\* The entry of a group has the group behind it.
LEMMA EntryBacked ==
  ASSUME NEW h, h.list = reviews, History(h), NEW g, Grouped(h, g)
  PROVE  Backed(h, BuildSuppressionEntry(g))
  <1>1. PICK id \in DOMAIN Categories, why \in Rationales : g \subseteq Agreeing(reviews, id, why)
    BY DEF Grouped
  <1> DEFINE i == CHOOSE i \in g : TRUE
             entry == BuildSuppressionEntry(g)
  <1>2. i \in g
    <2>1. PICK n \in h.counts : Cardinality(g) >= n
      BY DEF Grouped, Enough
    <2>2. n \in Nat /\ n > 0
      BY Counts DEF History
    <2>3. g # {}
      BY <2>1, <2>2, FS_EmptySet
    <2> QED BY <2>3
  <1>3. entry.category = reviews[i].category /\ entry.assets = {reviews[k].asset : k \in g}
    BY DEF BuildSuppressionEntry
  <1> HIDE DEF i, entry
  <1>4. entry.category = id
    BY <1>1, <1>2, <1>3 DEF Agreeing
  <1>5. Enough(h, Agreeing(reviews, id, why))
    <2>1. Agreeing(reviews, id, why) \in SUBSET DOMAIN h.list
      BY DEF Agreeing
    <2> QED BY <1>1, <2>1, EnoughStays DEF Grouped
  <1> QED BY <1>1, <1>3, <1>4, <1>5 DEF Backed, entry

LEMMA OpenFeedback ==
  ASSUME FeedbackInv, NEW s \in Sweepers, NEW g \in sweeps[s].left, OpenPr(s, g)
  PROVE  FeedbackInv'
  <1> DEFINE d == sweeps[s]
             p == [reviews |-> g, base |-> upstream, before |-> d.before,
                   content |-> RenderUpdated(d.file, BuildSuppressionEntry(g))]
  <1>0. /\ UNCHANGED <<findings, reviews, settled, upstream, checkout, minCounts, written>>
        /\ Known' = Known /\ minCounts \subseteq MinCounts /\ Known.list = reviews /\ History(Known)
    BY KnownFields DEF OpenPr, detection, suppressions, Known, FeedbackInv, History
  <1>1. SweepSound(Known, d) /\ Grouped(Known, g) /\ g \cap d.before = {}
    BY DEF FeedbackInv, SweepSound
  <1>2. /\ p.reviews = g /\ p.before = d.before
        /\ p.content = d.file \cup {BuildSuppressionEntry(g)}
    BY DEF RenderUpdated
  <1>3. pulls' = pulls \cup {p}
    BY DEF OpenPr
  <1> HIDE DEF p
  <1>4. PullSound(Known, p)
    BY <1>0, <1>1, <1>2, EntryBacked DEF PullSound, SweepSound
  <1>5. \A q \in pulls' : q \in pulls \/ PullSound(Known', q)
    BY <1>0, <1>3, <1>4
  <1>6. /\ DOMAIN sweeps' = Sweepers /\ \A t \in Sweepers \ {s} : sweeps'[t] = sweeps[t]
        /\ DOMAIN sweeps'[s] = SweepFields /\ sweeps'[s].file = d.file
        /\ sweeps'[s].left = d.left \ {g} /\ sweeps'[s].open = g
        /\ sweeps'[s].marked = d.marked /\ sweeps'[s].before = d.before
    BY <1>1 DEF OpenPr, FeedbackInv, SweepSound, SweepFields
  <1>7. SweepSound(Known', sweeps'[s])
    BY <1>0, <1>1, <1>6 DEF SweepSound, Grouped
  <1> QED BY <1>0, <1>5, <1>6, <1>7, OneSweep

LEMMA MarkFeedback ==
  ASSUME FeedbackInv, NEW s \in Sweepers, MarkPromoted(s)
  PROVE  FeedbackInv'
  <1> DEFINE d == sweeps[s]
  <1>0. /\ UNCHANGED <<findings, reviews, settled, upstream, checkout, minCounts, written, pulls>>
        /\ Known' = Known /\ minCounts \subseteq MinCounts
    BY KnownFields DEF MarkPromoted, detection, suppressions, Known, FeedbackInv, History
  <1>1. SweepSound(Known, d)
    BY DEF FeedbackInv
  <1>2. /\ DOMAIN sweeps' = Sweepers /\ \A t \in Sweepers \ {s} : sweeps'[t] = sweeps[t]
        /\ DOMAIN sweeps'[s] = SweepFields /\ sweeps'[s].file = d.file
        /\ sweeps'[s].left = d.left /\ sweeps'[s].open = {}
        /\ sweeps'[s].marked = d.marked \cup d.open /\ sweeps'[s].before = d.before
    BY <1>1 DEF MarkPromoted, FeedbackInv, SweepSound, SweepFields
  <1>3. SweepSound(Known', sweeps'[s])
    BY <1>0, <1>1, <1>2 DEF SweepSound
  <1> QED BY <1>0, <1>2, <1>3, OneSweep

\* People write or take out an entry, merge a pull request, or update the checkout:
\* each entry of either copy was known or has what it needs behind it.
LEMMA FileFeedback ==
  ASSUME FeedbackInv, UNCHANGED <<findings, reviews, sweeps, pulls, settled, minCounts>>,
         written \subseteq written',
         \A entry \in (upstream \cup checkout)' :
            \/ entry \in upstream \cup checkout \cup written'
            \/ \E p \in pulls : entry \in p.content
  PROVE  FeedbackInv'
  <1>1. History(Known') /\ Keep(Known, Known')
    BY SameReviews, KnownFields DEF FeedbackInv, History
  <1>2. /\ \A s \in Sweepers : SweepSound(Known', sweeps[s])
        /\ \A p \in pulls : PullSound(Known', p)
        /\ \A entry \in upstream \cup checkout : Backed(Known', entry)
    BY <1>1, HistoryKept
  <1>3. ASSUME NEW entry \in (upstream \cup checkout)'
        PROVE  Backed(Known', entry)
    <2>1. CASE entry \in written'
      BY <2>1, KnownFields DEF Backed
    <2>2. CASE \E p \in pulls : entry \in p.content
      BY <1>2, <2>2 DEF PullSound
    <2> QED BY <1>2, <2>1, <2>2
  <1> QED BY <1>1, <1>2, <1>3 DEF FeedbackInv

\* Findings detection raises are of its categories and assets.
LEMMA RaisedFindings ==
  ASSUME NEW asset \in Range(Assets), NEW found, NEW f \in EvaluateAsset(asset, found)
  PROVE  f.category \in DOMAIN Categories /\ f.asset \in Values
  <1> DEFINE match == Matches(Categories, asset, found)
  <1>1. DOMAIN match = DOMAIN Categories
    BY DEF Matches
  <1> HIDE DEF match
  <1>2. PICK id \in DOMAIN match : f = Fingerprint(id, asset, match[id].discriminator)
    BY DEF EvaluateAsset, RaisedBy, match
  <1> QED BY <1>1, <1>2 DEF Fingerprint, Values

LEMMA DetectFeedback ==
  ASSUME FeedbackInv, Detect
  PROVE  FeedbackInv'
  <1>1. /\ UNCHANGED <<reviews, sweeps, pulls, settled, upstream, checkout, minCounts, written>>
        /\ Known' = Known
    BY DEF Detect, feedback, suppressions, Known
  <1>2. DOMAIN findings' =
          (UNION {EvaluateAsset(a, DetectControls(a)) :
                     a \in {a \in Range(Assets) : EvidenceOf(a) # <<>>}}) \cup DOMAIN findings
    BY DEF Detect
  <1>3. \A f \in DOMAIN findings' : f.category \in DOMAIN Categories /\ f.asset \in Values
    BY <1>2, RaisedFindings DEF FeedbackInv
  <1> QED BY <1>1, <1>3 DEF FeedbackInv

LEMMA InitFeedback == Init => FeedbackInv
  <1> SUFFICES ASSUME Init PROVE FeedbackInv
    OBVIOUS
  <1>1. \A s \in Sweepers : SweepSound(Known, sweeps[s])
    BY DEF Init, SweepSound, NoSweep, SweepFields
  <1>2. History(Known)
    BY KnownFields DEF Init, History
  <1> QED BY <1>1, <1>2 DEF Init, FeedbackInv

\* Ownership shares no variable with detection and feedback.
LEMMA Apart ==
  ASSUME OwnershipNext
  PROVE  UNCHANGED <<detection, feedback>>
  <1>1. ASSUME NEW known, Enrich(known) PROVE UNCHANGED <<detection, feedback>>
    BY <1>1, Zenon DEF Enrich
  <1>2. ASSUME NEW value, EditOverrides(value) PROVE UNCHANGED <<detection, feedback>>
    BY <1>2, Zenon DEF EditOverrides
  <1> QED BY <1>1, <1>2 DEF OwnershipNext, OverrideOwnership

LEMMA StepFeedback == FeedbackInv /\ [Next]_vars => FeedbackInv'
  <1> SUFFICES ASSUME FeedbackInv, [Next]_vars PROVE FeedbackInv'
    OBVIOUS
  <1>1. CASE Detect
    BY <1>1, DetectFeedback
  <1>2. ASSUME NEW f \in DOMAIN findings, NEW verdict \in {"true_positive", "false_positive"},
               NEW why \in Rationales, Review(f, verdict, why)
        PROVE  FeedbackInv'
    BY <1>2, ReviewFeedback
  <1>3. ASSUME NEW s \in Sweepers, NEW minCount \in MinCounts, SweepBegins(s, minCount)
        PROVE  FeedbackInv'
    BY <1>3, BeginFeedback
  <1>4. ASSUME NEW s \in Sweepers, NEW g \in sweeps[s].left, OpenPr(s, g) PROVE FeedbackInv'
    BY <1>4, OpenFeedback
  <1>5. ASSUME NEW s \in Sweepers, MarkPromoted(s) PROVE FeedbackInv'
    BY <1>5, MarkFeedback
  <1>6. ASSUME NEW s \in Sweepers, SweepEnds(s) \/ SweepDies(s) PROVE FeedbackInv'
    BY <1>6, SweepFeedback
  <1>7. ASSUME NEW p \in pulls, MergePr(p) PROVE FeedbackInv'
    BY <1>7, FileFeedback DEF MergePr, detection
  <1>8. CASE EditSuppressions
    <2>1. /\ UNCHANGED <<findings, reviews, sweeps, pulls, settled, minCounts, checkout>>
          /\ written \subseteq written' /\ upstream' \subseteq upstream \cup written'
      BY <1>8 DEF EditSuppressions, detection
    <2> QED BY <2>1, FileFeedback
  <1>9. CASE PullOrgContext
    BY <1>9, FileFeedback DEF PullOrgContext, detection
  <1>10. CASE (\E w \in DOMAIN Worlds : Scan(w)) \/ OwnershipNext \/ UNCHANGED vars
    <2>1. /\ UNCHANGED <<findings, reviews, sweeps, pulls, settled, upstream, checkout>>
          /\ Known' = Known
      BY <1>10, Apart DEF Scan, vars, feedback, detection, suppressions, Known
    <2> QED BY <2>1 DEF FeedbackInv
  <1> QED BY <1>1, <1>2, <1>3, <1>4, <1>5, <1>6, <1>7, <1>8, <1>9, <1>10
          DEF Next, DetectionNext, FeedbackNext

THEOREM FeedbackInvariant == Spec => []FeedbackInv
  BY InitFeedback, StepFeedback, PTL DEF Spec

\* A sweep proposes nothing a sweep that ended well before it began had settled,
\* however many sweeps overlap or die, whatever --min-count each is given and
\* whatever people write in the file meanwhile (feedback/promote.py;
\* db/repo/human_review.py).
THEOREM SettledOnce == Spec => []PromotedOnce
  <1>1. FeedbackInv => PromotedOnce
    BY DEF FeedbackInv, PullSound, PromotedOnce
  <1> QED BY <1>1, FeedbackInvariant, PTL

-----------------------------------------------------------------------------
(* Why detection withholds a finding                                       *)

\* A suppressed category has a clause that says so.
LEMMA SomeClause ==
  ASSUME NEW clauses, NEW asset, NEW evidence, NEW context,
         EvaluateClausesAny(clauses, asset, evidence, context)
  PROVE  \E i \in DOMAIN clauses : EvaluateClause(clauses[i], asset, evidence, context).matched
  <1> DEFINE results == EvaluateClauses(clauses, asset, evidence, context)
  <1>1. /\ DOMAIN results = DOMAIN clauses
        /\ \A i \in DOMAIN clauses : results[i] = EvaluateClause(clauses[i], asset, evidence, context)
    BY DEF EvaluateClauses
  <1> HIDE DEF results
  <1>2. PICK i \in DOMAIN results : results[i].matched
    BY DEF EvaluateClausesAny, Range, results
  <1> QED BY <1>1, <1>2

\* After detection the rows of an asset's controls are those its evidence shows.
LEMMA SeenControls ==
  ASSUME Detect, NEW asset \in {a \in Range(Assets) : EvidenceOf(a) # <<>>}
  PROVE  {r \in controls' : r \in DetectControls(asset)} = DetectControls(asset)
  <1> DEFINE found == UNION {DetectControls(a) : a \in {a \in Range(Assets) : EvidenceOf(a) # <<>>}}
  <1>1. controls' = UpsertControls(found)
    BY DEF Detect
  <1>2. found \subseteq UpsertControls(found)
    BY DEF UpsertControls
  <1>3. DetectControls(asset) \subseteq found
    OBVIOUS
  <1> QED BY <1>1, <1>2, <1>3

LEMMA DetectWithholds ==
  ASSUME FeedbackInv, Detect
  PROVE  WithholdsForCause
  <1> SUFFICES
        ASSUME NEW asset \in {a \in Range(Assets) : EvidenceOf(a) # <<>>},
               NEW id \in DOMAIN Matches(Categories, asset,
                                         {r \in controls' : r \in DetectControls(asset)}),
               Matches(Categories, asset,
                       {r \in controls' : r \in DetectControls(asset)})[id].matched,
               Categories[id].enabled, asset.type \in Categories[id].applies_to
        PROVE  LET seen == {r \in controls' : r \in DetectControls(asset)}
                   match == Matches(Categories, asset, seen)
                   fingerprint == Fingerprint(id, asset, match[id].discriminator)
                   c == Categories[id]
               IN  \/ fingerprint \in DOMAIN findings' /\ findings'[fingerprint] = scans
                   \/ \E i \in DOMAIN c.suppress_if :
                          EvaluateClause(c.suppress_if[i], asset, EvidenceOf(asset),
                                         FeedContext(seen)).matched
                   \/ \E r \in seen :
                          LET k == Controls[r.control] IN
                          /\ k.action = "suppress" /\ ~k.confirm
                          /\ c.severity \notin NeverSuppress /\ Mitigates(k, id)
                   \/ \E why \in Rationales :
                          LET agreeing == {i \in DOMAIN reviews :
                                  /\ reviews[i].verdict = "false_positive"
                                  /\ reviews[i].category = id /\ reviews[i].rationale = why}
                          IN  /\ \E n \in minCounts : Cardinality(agreeing) >= n
                              /\ \E i \in agreeing : reviews[i].asset = asset.value
                   \/ \E entry \in written : entry.category = id /\ asset.value \in entry.assets
    BY DEF WithholdsForCause
  <1> DEFINE seen == DetectControls(asset)
             match == Matches(Categories, asset, seen)
             fingerprint == Fingerprint(id, asset, match[id].discriminator)
             c == Categories[id]
  <1>1. {r \in controls' : r \in DetectControls(asset)} = seen
    BY SeenControls
  <1>2. id \in DOMAIN match /\ match[id].matched
    BY <1>1
  <1>3. CASE fingerprint \in EvaluateAsset(asset, seen)
    <2> DEFINE raised == UNION {EvaluateAsset(a, DetectControls(a)) :
                                   a \in {a \in Range(Assets) : EvidenceOf(a) # <<>>}}
    <2>1. findings' = [f \in raised \cup DOMAIN findings |->
                          IF f \in raised THEN scans ELSE findings[f]]
      BY DEF Detect
    <2>2. fingerprint \in raised
      BY <1>3
    <2> HIDE DEF raised, fingerprint
    <2>3. fingerprint \in DOMAIN findings' /\ findings'[fingerprint] = scans
      BY <2>1, <2>2
    <2> QED BY <1>1, <2>3 DEF fingerprint
  <1>4. CASE fingerprint \notin EvaluateAsset(asset, seen)
    <2>1. \/ EvaluateClausesAny(c.suppress_if, asset, EvidenceOf(asset), FeedContext(seen))
          \/ SuppressedByControls(id, c, seen)
          \/ SuppressedByPromotedRule(id, asset)
      BY <1>2, <1>4 DEF EvaluateAsset, RaisedBy
    <2>2. CASE EvaluateClausesAny(c.suppress_if, asset, EvidenceOf(asset), FeedContext(seen))
      <3>1. \E i \in DOMAIN c.suppress_if :
               EvaluateClause(c.suppress_if[i], asset, EvidenceOf(asset), FeedContext(seen)).matched
        BY <2>2, SomeClause
      <3> QED BY <1>1, <3>1
    <2>3. CASE SuppressedByControls(id, c, seen)
      BY <1>1, <2>3 DEF SuppressedByControls
    <2>4. CASE SuppressedByPromotedRule(id, asset)
      <3>1. PICK entry \in checkout : entry.category = id /\ asset.value \in entry.assets
        BY <2>4 DEF SuppressedByPromotedRule
      <3>2. Backed(Known, entry)
        BY DEF FeedbackInv
      <3>3. CASE entry \in written
        BY <3>1, <3>3
      <3>4. CASE entry \notin written
        <4>1. PICK why \in Rationales :
                /\ \E n \in minCounts : Cardinality(Agreeing(reviews, id, why)) >= n
                /\ \E i \in Agreeing(reviews, id, why) : reviews[i].asset = asset.value
          BY <3>1, <3>2, <3>4, KnownFields DEF Backed, Enough
        <4> QED BY <4>1 DEF Agreeing
      <3> QED BY <3>3, <3>4
    <2> QED BY <2>1, <2>2, <2>3, <2>4
  <1> QED BY <1>3, <1>4

LEMMA StepWithholds == FeedbackInv /\ [Next]_vars => [WithholdsForCause]_vars
  <1> SUFFICES ASSUME FeedbackInv, [Next]_vars PROVE [WithholdsForCause]_vars
    OBVIOUS
  <1>1. CASE Detect
    BY <1>1, DetectWithholds
  <1>2. CASE (\E w \in DOMAIN Worlds : Scan(w)) \/ FeedbackNext \/ OwnershipNext \/ UNCHANGED vars
    <2>1. detected' = FALSE \/ detected' = detected
      BY <1>2, Apart DEF Scan, FeedbackNext, Review, SweepBegins, OpenPr, MarkPromoted,
                         SweepEnds, SweepDies, MergePr, EditSuppressions, PullOrgContext,
                         detection, vars
    <2> QED BY <2>1 DEF WithholdsForCause
  <1> QED BY <1>1, <1>2 DEF Next, DetectionNext

\* Whatever categories, controls, reviews and suppressions there are, detection
\* raises what it matches, unless a clause of the category, a control seen on the
\* asset that needs no confirmation, as many reviews of one mind as a sweep was told
\* to ask for, or an entry a person wrote by hand says otherwise
\* (detect/engine.py: _evaluate_asset; config.py: SuppressionEntry).
THEOREM NothingWithheldWithoutCause == Spec => WithheldForCause
  BY FeedbackInvariant, StepWithholds, PTL DEF Spec, WithheldForCause


-----------------------------------------------------------------------------
(* Ownership                                                               *)

\* What a person told the program of an asset, and nothing else, is its manual row.
Heard(table, told) ==
    /\ DOMAIN table \subseteq Sources
    /\ IF told = <<>> THEN "manual" \notin DOMAIN table
       ELSE /\ "manual" \in DOMAIN table /\ table["manual"] = Head(told)
            /\ Head(told) \in Owners

OwnershipInv ==
    /\ \A v \in DOMAIN overrides : overrides[v] \in Owners
    /\ DOMAIN rows = Values /\ DOMAIN answered = Values /\ DOMAIN filed = Values
    /\ \A v \in Values : Heard(rows[v], Given(v))

LEMMA SourceNames ==
  /\ Sources = {"manual", "cloud_tag", "codeowners", "team_pattern", "git_blame", "sibling_asset"}
  /\ Confidence["manual"] = 100
  /\ \A s \in Sources \ {"manual"} : Confidence[s] \in Nat /\ Confidence[s] < 100
  BY DEF Sources, Confidence

\* A manual row is surer than any other.
LEMMA ManualSurest ==
  ASSUME NEW S \in SUBSET Sources, "manual" \in S
  PROVE  Surest(S) = "manual"
  <1>1. \A t \in S : Confidence["manual"] >= Confidence[t]
    BY SourceNames
  <1>2. Surest(S) \in S /\ \A t \in S : Confidence[Surest(S)] >= Confidence[t]
    BY <1>1 DEF Surest
  <1> DEFINE top == Surest(S)
             sure == Confidence[top]
  <1>3. top \in Sources /\ sure >= 100
    BY <1>2, SourceNames
  <1>4. top # "manual" => sure \in Nat /\ sure < 100
    BY <1>3, SourceNames
  <1> HIDE DEF top, sure
  <1>5. top = "manual"
    BY <1>3, <1>4
  <1> QED BY <1>5 DEF top

\* Enrich's candidates of an asset hold a manual one when the file names the asset.
LEMMA ManualCandidate ==
  ASSUME NEW asset, NEW stored, NEW known
  PROVE  LET c == Candidates(asset, Assets, stored, overrides, Teams, known) IN
         /\ DOMAIN c \subseteq Sources
         /\ "manual" \in DOMAIN c <=> asset.value \in DOMAIN overrides
         /\ "manual" \in DOMAIN c => c["manual"] = overrides[asset.value]
  <1> DEFINE cloud == CloudTag(asset, known.clouds)
             code == TerraformCodeowners(asset, ParseTerraformState(known.state),
                                         ParseCodeowners(known.codeowners))
             pattern == TeamsPattern(asset, Teams, known.clouds)
             blame == GitBlameOwner(known.committer, Teams)
             sibling == SiblingAsset(asset, Assets, stored)
             manual == ManualOverride(asset, overrides)
             said == [manual |-> manual, cloud_tag |-> cloud, codeowners |-> code,
                      team_pattern |-> pattern, git_blame |-> blame,
                      sibling_asset |-> sibling]
             c == Candidates(asset, Assets, stored, overrides, Teams, known)
  <1>1. c = [s \in {s \in Sources : said[s] # <<>>} |-> Head(said[s])]
    BY DEF Candidates
  <1>2. said["manual"] = manual
    OBVIOUS
  <1> HIDE DEF said, c
  <1>3. /\ DOMAIN c \subseteq Sources
        /\ "manual" \in DOMAIN c <=> manual # <<>>
        /\ "manual" \in DOMAIN c => c["manual"] = Head(manual)
    BY <1>1, <1>2, SourceNames
  <1>4. /\ manual # <<>> <=> asset.value \in DOMAIN overrides
        /\ manual # <<>> => Head(manual) = overrides[asset.value]
    BY DEF ManualOverride
  <1> QED BY <1>3, <1>4 DEF c

LEMMA UpsertHeard ==
  ASSUME NEW table, NEW told, Heard(table, told), NEW c, DOMAIN c \subseteq Sources,
         "manual" \in DOMAIN c => c["manual"] \in Owners
  PROVE  Heard(UpsertCandidates(table, c),
               IF "manual" \in DOMAIN c THEN <<c["manual"]>> ELSE told)
  <1> DEFINE u == UpsertCandidates(table, c)
  <1>1. /\ DOMAIN u = DOMAIN c \cup DOMAIN table
        /\ \A s \in DOMAIN u : u[s] = IF s \in DOMAIN c THEN c[s] ELSE table[s]
    BY DEF UpsertCandidates
  <1> HIDE DEF u
  <1>2. CASE "manual" \in DOMAIN c
    <2>1. u["manual"] = c["manual"] /\ DOMAIN u \subseteq Sources
      BY <1>1, <1>2 DEF Heard
    <2>2. Heard(u, <<c["manual"]>>)
      BY <1>1, <1>2, <2>1 DEF Heard
    <2> QED BY <1>2, <2>2 DEF u
  <1>3. CASE "manual" \notin DOMAIN c
    <2>1. Heard(u, told)
      BY <1>1, <1>3 DEF Heard
    <2> QED BY <1>3, <2>1 DEF u
  <1> QED BY <1>2, <1>3

\* Of the indices at which something holds there is a least.
LEMMA LeastIndex ==
  ASSUME NEW T \in SUBSET Nat, T # {}
  PROVE  \E k \in T : \A j \in T : k <= j
  <1>1. PICK k \in T : \A j \in T : ~(<<j, k>> \in OpToRel(<, Nat))
    BY NatLessThanWellFounded, WFMin
  <1>2. ASSUME NEW j \in T
        PROVE  k <= j
    <2>1. k \in Nat /\ j \in Nat
      OBVIOUS
    <2>2. <<j, k>> \notin OpToRel(<, Nat)
      BY <1>1
    <2>3. ~(j < k)
      BY <2>1, <2>2 DEF OpToRel
    <2> QED BY <2>1, <2>3
  <1> QED BY <1>2

\* The rows asset after asset are what the recursion says: its function exists.
LEMMA EnrichUnfolds ==
  ASSUME NEW known
  PROVE  LET after == EnrichedBy(known) IN
         /\ after[0] = rows
         /\ \A i \in 1..Len(Assets) : after[i] = ResolveOwnership(after[i - 1], Assets[i], known)
  <1> DEFINE N == Len(Assets)
             step(i, stored) == ResolveOwnership(stored, Assets[i], known)
             Built(h, m) == h = [i \in 0..m |-> IF i = 0 THEN rows ELSE step(i, h[i - 1])]
             T == {m \in 0..N : \A h : ~Built(h, m)}
  <1>1. N \in Nat
    BY GovernanceAssumption DEF GovernanceAssumption
  <1> HIDE DEF step, N
  <1>2. ASSUME T # {} PROVE FALSE
    <2>1. PICK m \in T : \A j \in T : m <= j
      <3>1. T \in SUBSET Nat
        BY <1>1
      <3> HIDE DEF T
      <3> QED BY <1>2, <3>1, LeastIndex
    <2>2. m \in 0..N /\ \A h : ~Built(h, m)
      OBVIOUS
    <2>3. CASE m = 0
      <3> DEFINE h == [i \in 0..0 |-> rows]
      <3>1. Built(h, 0)
        OBVIOUS
      <3> QED BY <2>2, <2>3, <3>1
    <2>4. CASE m # 0
      <3>1. m - 1 \in 0..N /\ m - 1 \notin T /\ m \in Nat
        BY <1>1, <2>1, <2>2, <2>4
      <3>2. PICK h : Built(h, m - 1)
        BY <3>1
      <3> DEFINE g == [i \in 0..m |-> IF i = m THEN step(m, h[m - 1]) ELSE h[i]]
      <3>3. \A i \in 0..(m - 1) : h[i] = IF i = 0 THEN rows ELSE step(i, h[i - 1])
        BY <3>2
      <3>4. \A i \in 0..m : g[i] = IF i = 0 THEN rows ELSE step(i, g[i - 1])
        <4>1. ASSUME NEW i \in 0..m, i # m, i # 0
              PROVE  g[i] = step(i, g[i - 1])
          <5>1. i \in 0..(m - 1) /\ i - 1 \in 0..m /\ i - 1 # m
            BY <3>1, <4>1
          <5>2. g[i] = h[i] /\ g[i - 1] = h[i - 1]
            BY <4>1, <5>1
          <5> QED BY <3>3, <4>1, <5>1, <5>2
        <4>2. g[m] = step(m, g[m - 1])
          BY <2>4, <3>1
        <4>3. g[0] = rows
          BY <2>4, <3>1, <3>3
        <4> HIDE DEF g
        <4> QED BY <2>4, <4>1, <4>2, <4>3
      <3>5. Built(g, m)
        <4>1. g = [i \in 0..m |-> g[i]]
          OBVIOUS
        <4> HIDE DEF g
        <4> QED BY <3>4, <4>1
      <3> QED BY <2>2, <3>5
    <2> QED BY <2>3, <2>4
  <1>3. PICK h : Built(h, N)
    <2>1. N \in 0..N /\ N \notin T
      <3> HIDE DEF T
      <3> QED BY <1>1, <1>2
    <2> QED BY <2>1
  <1> DEFINE after == EnrichedBy(known)
  <1>4. after = CHOOSE g : g = [i \in 0..N |-> IF i = 0 THEN rows ELSE step(i, g[i - 1])]
    BY DEF EnrichedBy, step, N
  <1> HIDE DEF after
  <1>5. Built(after, N)
    BY <1>3, <1>4
  <1>6. after[0] = rows /\ \A i \in 1..N : after[i] = step(i, after[i - 1])
    <2>1. \A i \in 0..N : after[i] = IF i = 0 THEN rows ELSE step(i, after[i - 1])
      BY <1>5
    <2> HIDE DEF Built
    <2> QED BY <1>1, <2>1
  <1> QED BY <1>6 DEF after, step, N


\* One asset of an enrich: its manual row is the file's answer, where the file has
\* one, and else what it was; no other asset's row changes.
LEMMA AssetHeard ==
  ASSUME OwnershipInv, NEW stored, NEW told, NEW asset \in Range(Assets), NEW known,
         DOMAIN stored = Values, DOMAIN told = Values,
         \A v \in Values : Heard(stored[v], told[v])
  PROVE  LET next == ResolveOwnership(stored, asset, known) IN
         /\ DOMAIN next = Values
         /\ \A v \in Values :
              Heard(next[v], IF v = asset.value /\ v \in DOMAIN overrides
                             THEN <<overrides[v]>> ELSE told[v])
  <1> DEFINE a == asset.value
             c == Candidates(asset, Assets, stored, overrides, Teams, known)
             next == ResolveOwnership(stored, asset, known)
  <1>1. a \in Values
    BY DEF Values
  <1>2. /\ DOMAIN c \subseteq Sources
        /\ "manual" \in DOMAIN c <=> a \in DOMAIN overrides
        /\ "manual" \in DOMAIN c => c["manual"] = overrides[a]
    BY ManualCandidate
  <1>3. next = [stored EXCEPT ![a] = UpsertCandidates(@, c)]
    BY DEF ResolveOwnership
  <1> HIDE DEF a, c, next
  <1>4. /\ DOMAIN next = Values /\ next[a] = UpsertCandidates(stored[a], c)
        /\ \A v \in Values \ {a} : next[v] = stored[v]
    BY <1>1, <1>3
  <1>5. "manual" \in DOMAIN c => c["manual"] \in Owners
    BY <1>2 DEF OwnershipInv
  <1>6. Heard(stored[a], told[a])
    BY <1>1
  <1>7. Heard(next[a], IF "manual" \in DOMAIN c THEN <<c["manual"]>> ELSE told[a])
    BY <1>2, <1>4, <1>5, <1>6, UpsertHeard
  <1>8. Heard(next[a], IF a \in DOMAIN overrides THEN <<overrides[a]>> ELSE told[a])
    BY <1>2, <1>7
  <1> QED BY <1>4, <1>8 DEF a, next

\* What the program has been told of each asset once enrich has passed the first i.
ToldAfter(i) ==
    [v \in Values |-> IF v \in DOMAIN overrides /\ \E j \in 1..i : Assets[j].value = v
                      THEN <<overrides[v]>> ELSE Given(v)]

\* The stages of an enrich: a least one at which a row is not what was told does not
\* exist.
LEMMA StagesHeard ==
  ASSUME OwnershipInv, NEW known, NEW i \in 0..Len(Assets)
  PROVE  LET after == EnrichedBy(known) IN
         /\ DOMAIN after[i] = Values
         /\ \A v \in Values : Heard(after[i][v], ToldAfter(i)[v])
  <1> DEFINE N == Len(Assets)
             after == EnrichedBy(known)
             Good(k) == /\ DOMAIN after[k] = Values
                        /\ \A v \in Values : Heard(after[k][v], ToldAfter(k)[v])
             T == {k \in 0..N : ~Good(k)}
  <1>1. N \in Nat /\ DOMAIN Assets = 1..N
    BY GovernanceAssumption DEF GovernanceAssumption
  <1>2. /\ after[0] = rows
        /\ \A k \in 1..N : after[k] = ResolveOwnership(after[k - 1], Assets[k], known)
    BY EnrichUnfolds
  <1> HIDE DEF after, N
  <1>3. Good(0)
    <2>1. ToldAfter(0) = [v \in Values |-> Given(v)]
      BY DEF ToldAfter
    <2> QED BY <1>2, <2>1 DEF OwnershipInv
  <1>4. ASSUME NEW k \in 1..N, Good(k - 1)
        PROVE  Good(k)
    <2> DEFINE told == ToldAfter(k - 1)
               asset == Assets[k]
    <2>1. asset \in Range(Assets)
      BY <1>1 DEF Range
    <2>2. DOMAIN told = Values /\ \A v \in Values : Heard(after[k - 1][v], told[v])
      BY <1>4 DEF ToldAfter
    <2>3. \A v \in Values :
            ToldAfter(k)[v] = IF v = asset.value /\ v \in DOMAIN overrides
                              THEN <<overrides[v]>> ELSE told[v]
      <3>1. \A j : j \in 1..k <=> j = k \/ j \in 1..(k - 1)
        BY <1>1
      <3> QED BY <3>1 DEF ToldAfter
    <2> HIDE DEF told, asset
    <2>4. LET next == ResolveOwnership(after[k - 1], asset, known) IN
          /\ DOMAIN next = Values
          /\ \A v \in Values :
               Heard(next[v], IF v = asset.value /\ v \in DOMAIN overrides
                              THEN <<overrides[v]>> ELSE told[v])
      BY <1>4, <2>1, <2>2, AssetHeard
    <2>5. after[k] = ResolveOwnership(after[k - 1], asset, known)
      BY <1>2 DEF asset
    <2> QED BY <2>3, <2>4, <2>5
  <1> HIDE DEF Good
  <1>5. ASSUME T # {}
        PROVE  FALSE
    <2>0. T \in SUBSET Nat
      BY <1>1
    <2>1. PICK k \in T : \A j \in T : k <= j
      <3> HIDE DEF T
      <3> QED BY <1>5, <2>0, LeastIndex
    <2>2. k # 0 /\ k \in 0..N /\ ~Good(k)
      BY <1>3, <2>1
    <2>3. k \in 1..N /\ k - 1 \in 0..N /\ ~(k <= k - 1)
      BY <1>1, <2>2
    <2>4. Good(k - 1)
      BY <2>1, <2>3
    <2> QED BY <1>4, <2>2, <2>3, <2>4
  <1>6. Good(i)
    <2>1. i \in 0..N
      BY DEF N
    <2> QED BY <1>5, <2>1
  <1> QED BY <1>6 DEF Good, after

LEMMA EnrichOwnership ==
  ASSUME OwnershipInv, NEW known, Enrich(known)
  PROVE  OwnershipInv'
  <1> DEFINE N == Len(Assets)
             after == EnrichedBy(known)
  <1>1. /\ rows' = after[N] /\ UNCHANGED <<overrides, answered>>
        /\ filed' = [v \in Values |-> IF v \in DOMAIN overrides THEN <<overrides[v]>>
                                                               ELSE filed[v]]
    BY DEF Enrich
  <1>2. N \in 0..N /\ DOMAIN Assets = 1..N
    BY GovernanceAssumption DEF GovernanceAssumption
  <1>3. DOMAIN after[N] = Values /\ \A v \in Values : Heard(after[N][v], ToldAfter(N)[v])
    BY <1>2, StagesHeard
  <1> HIDE DEF N, after
  <1>4. \A v \in Values : \E j \in 1..N : Assets[j].value = v
    BY <1>2 DEF Values, Range
  <1>5. \A v \in Values : ToldAfter(N)[v] = Given(v)'
    BY <1>1, <1>4 DEF ToldAfter, Given
  <1> QED BY <1>1, <1>3, <1>5 DEF OwnershipInv

LEMMA AnswerOwnership ==
  ASSUME OwnershipInv, NEW value \in Values, NEW owner \in Owners,
         OverrideOwnership(value, owner)
  PROVE  OwnershipInv'
  <1> DEFINE c == [manual |-> owner]
  <1>1. /\ rows' = [rows EXCEPT ![value] = UpsertCandidates(@, c)]
        /\ answered' = [answered EXCEPT ![value] = <<owner>>]
        /\ filed' = [filed EXCEPT ![value] = <<>>] /\ UNCHANGED overrides
    BY DEF OverrideOwnership
  <1>2. DOMAIN c = {"manual"} /\ c["manual"] = owner
    OBVIOUS
  <1> HIDE DEF c
  <1>3. Heard(rows[value], Given(value))
    BY DEF OwnershipInv
  <1>4. Heard(UpsertCandidates(rows[value], c), <<owner>>)
    BY <1>2, <1>3, UpsertHeard, SourceNames
  <1>5. \A v \in Values : Given(v)' = IF v = value THEN <<owner>> ELSE Given(v)
    BY <1>1 DEF Given, OwnershipInv
  <1> QED BY <1>1, <1>4, <1>5 DEF OwnershipInv

LEMMA StepOwnership == OwnershipInv /\ [Next]_vars => OwnershipInv'
  <1> SUFFICES ASSUME OwnershipInv, [Next]_vars PROVE OwnershipInv'
    OBVIOUS
  <1>1. ASSUME NEW value \in Values, NEW owner \in Owners, OverrideOwnership(value, owner)
        PROVE  OwnershipInv'
    BY <1>1, AnswerOwnership
  <1>2. ASSUME NEW value \in Values, EditOverrides(value)
        PROVE  OwnershipInv'
    <2>1. UNCHANGED <<rows, answered, filed>>
      BY <1>2 DEF EditOverrides
    <2>2. \A v \in DOMAIN overrides' : overrides'[v] \in Owners
      BY <1>2 DEF EditOverrides, OwnershipInv, Restrict
    <2> QED BY <2>1, <2>2 DEF OwnershipInv, Given
  <1>3. ASSUME NEW known, Enrich(known) PROVE OwnershipInv'
    BY <1>3, EnrichOwnership
  <1>4. CASE DetectionNext \/ FeedbackNext \/ UNCHANGED vars
    <2>1. UNCHANGED <<overrides, rows, answered, filed>>
      BY <1>4 DEF DetectionNext, FeedbackNext, Scan, Detect, Review, SweepBegins, OpenPr,
                  MarkPromoted, SweepEnds, SweepDies, MergePr, EditSuppressions, PullOrgContext,
                  ownership, vars
    <2> QED BY <2>1 DEF OwnershipInv, Given
  <1> QED BY <1>1, <1>2, <1>3, <1>4 DEF Next, OwnershipNext

LEMMA OwnershipInvariant == Spec => []OwnershipInv
  <1>1. Init => OwnershipInv
    BY DEF Init, OwnershipInv, Heard, Given
  <1> QED BY <1>1, StepOwnership, PTL DEF Spec

\* A row a person answered is on top of the merge, and routed to as the answer says.
LEMMA AnswerOnTop ==
  ASSUME NEW v, NEW owner \in Owners, Heard(rows[v], <<owner>>)
  PROVE  MergeExisting(v).top = <<[source |-> "manual", owner |-> owner]>>
  <1>1. /\ DOMAIN rows[v] \in SUBSET Sources /\ "manual" \in DOMAIN rows[v]
        /\ rows[v]["manual"] = owner
    BY DEF Heard
  <1>2. Surest(DOMAIN rows[v]) = "manual"
    BY <1>1, ManualSurest
  <1> QED BY <1>1, <1>2 DEF MergeExisting, Merge

LEMMA AnswerRouted ==
  ASSUME NEW route, NEW severity, NEW merged, NEW owner \in Owners,
         merged.top = <<[source |-> "manual", owner |-> owner]>>,
         route.assign_to = "owner_of_asset"
  PROVE  LET sent == ResolveRoute(route, severity, Teams, merged).assignee IN
         /\ ~sent.note
         /\ sent.address = IF owner.type = "user" THEN <<owner.ref>>
                           ELSE ManagerOf(TeamById(Teams, owner.ref))
  <1> DEFINE top == merged.top
             address == IF owner.type = "team" THEN ManagerOf(TeamById(Teams, owner.ref))
                                               ELSE <<owner.ref>>
             note == AttributionNote(Head(top))
  <1>1. ResolveRoute(route, severity, Teams, merged).assignee
          = ResolveTarget("owner_of_asset", top, Teams)
    BY DEF ResolveRoute
  <1>2. top # <<>> /\ Head(top).owner = owner /\ Head(top).source = "manual"
    OBVIOUS
  <1> HIDE DEF top
  <1>3. ResolveTarget("owner_of_asset", top, Teams) = Target(address, note)
    BY <1>2 DEF ResolveTarget
  <1>4. ~note
    BY <1>2 DEF AttributionNote
  <1>5. owner.type \in {"team", "user"}
    BY GovernanceAssumption DEF GovernanceAssumption
  <1>6. address = IF owner.type = "user" THEN <<owner.ref>>
                  ELSE ManagerOf(TeamById(Teams, owner.ref))
    BY <1>5
  <1> HIDE DEF address, note
  <1> QED BY <1>1, <1>3, <1>4, <1>6 DEF Target

\* However answers, edits of the file and enrichments follow each other, whatever the
\* inventories say and in whatever order the assets come: the owner merged and routed
\* to is the last one given through the API, or the one the file named when enrich
\* read it since, be that entry the older of the two (enrich/ownership;
\* route/policy.py).
THEOREM AnswersPrevail == Spec => []HumanAnswerWins
  <1>1. OwnershipInv => HumanAnswerWins
    <2> SUFFICES ASSUME OwnershipInv, NEW v \in Values
                 PROVE  IF Given(v) = <<>> THEN "manual" \notin DOMAIN rows[v]
                        ELSE LET owner == Head(Given(v)) IN
                             /\ Head(MergeExisting(v).top).owner = owner
                             /\ \A id \in DOMAIN Categories :
                                  LET c == Categories[id]
                                      sent == ResolveRoute(c.route, c.severity, Teams,
                                                           MergeExisting(v)).assignee
                                  IN  c.route.assign_to = "owner_of_asset" =>
                                        /\ ~sent.note
                                        /\ sent.address =
                                             IF owner.type = "user" THEN <<owner.ref>>
                                             ELSE ManagerOf(TeamById(Teams, owner.ref))
      BY DEF HumanAnswerWins
    <2>1. Heard(rows[v], Given(v))
      BY DEF OwnershipInv
    <2>2. CASE Given(v) = <<>>
      BY <2>1, <2>2 DEF Heard
    <2>3. CASE Given(v) # <<>>
      <3> DEFINE owner == Head(Given(v))
      <3>1. owner \in Owners /\ Heard(rows[v], <<owner>>)
        BY <2>1, <2>3 DEF Heard
      <3> HIDE DEF owner
      <3>2. MergeExisting(v).top = <<[source |-> "manual", owner |-> owner]>>
        BY <3>1, AnswerOnTop
      <3>3. Head(MergeExisting(v).top).owner = owner
        BY <3>2
      <3>4. \A id \in DOMAIN Categories :
              LET c == Categories[id]
                  sent == ResolveRoute(c.route, c.severity, Teams, MergeExisting(v)).assignee
              IN  c.route.assign_to = "owner_of_asset" =>
                    /\ ~sent.note
                    /\ sent.address = IF owner.type = "user" THEN <<owner.ref>>
                                      ELSE ManagerOf(TeamById(Teams, owner.ref))
        BY <3>1, <3>2, AnswerRouted
      <3> QED BY <2>3, <3>3, <3>4 DEF owner
    <2> QED BY <2>2, <2>3
  <1> QED BY <1>1, OwnershipInvariant, PTL

================================================================================
