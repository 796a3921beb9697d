----------------------------- MODULE Attribution -----------------------------
(***************************************************************************)
(* Who owns an asset and whom its findings go to: the sources of           *)
(* kiyooo/enrich/ownership/sources.py, the merge of their candidates, and  *)
(* the route policy that reads its result.                                 *)
(*                                                                         *)
(* An asset is [value, type, host, zone]: zone is the last two labels of   *)
(* the value, "" when it has fewer, and below is whether the value is more *)
(* than them.  A glob is the set of what it matches.  Candidates are a     *)
(* function from sources to owners; a source has one confidence, in        *)
(* hundredths.  None is <<>>, something is <<something>>.                  *)
(***************************************************************************)
EXTENDS Integers, Sequences, SequencesExt, FiniteSetsExt

CONSTANT Addresses   \* the route targets that contain "@"

Owner(type, ref) == [type |-> type, ref |-> ref]

Confidence ==
    [manual |-> 100, cloud_tag |-> 95, codeowners |-> 90, team_pattern |-> 80,
     git_blame |-> 75, sibling_asset |-> 70]
Sources == DOMAIN Confidence

\* next((x for x in seq if Test(x)), None)
FirstOf(seq, Test(_)) ==
    LET hits == SelectSeq(seq, Test) IN IF hits = <<>> THEN <<>> ELSE <<Head(hits)>>

-----------------------------------------------------------------------------
(* Sources *)

ManualOverride(asset, overrides) ==
    IF asset.value \in DOMAIN overrides THEN <<overrides[asset.value]>> ELSE <<>>

Tagged(match, tag) == tag \in DOMAIN match.tags /\ match.tags[tag] # ""

CloudTag(asset, clouds) ==
    LET hit == FirstOf(clouds, LAMBDA m : /\ m.asset = asset.value
                                          /\ Tagged(m, "Owner") \/ Tagged(m, "Team"))
    IN  IF hit = <<>> THEN <<>>
        ELSE LET m == Head(hit) IN
             <<Owner("team", m.tags[IF Tagged(m, "Owner") THEN "Owner" ELSE "Team"])>>

\* The attribute of a Terraform resource that is an asset's value.
TerraformValueAttrs ==
    [aws_instance |-> "public_ip", aws_lb |-> "dns_name", aws_s3_bucket |-> "bucket",
     aws_cloudfront_distribution |-> "domain_name"]

ParseTerraformState(state) ==
    FlattenSeq([i \in DOMAIN state |->
        LET r == state[i] IN
        IF r.type \notin DOMAIN TerraformValueAttrs THEN <<>>
        ELSE LET attr == TerraformValueAttrs[r.type]
                 told == SelectSeq(r.instances, LAMBDA a : attr \in DOMAIN a)
             IN  [k \in DOMAIN told |-> [asset |-> told[k][attr], module |-> r.module]]])

\* A line without an owner, a comment's for one, says nothing.
ParseCodeowners(lines) ==
    LET owned == SelectSeq(lines, LAMBDA l : l.owners # <<>>)
    IN  [i \in DOMAIN owned |-> [glob |-> owned[i].glob, owner |-> Head(owned[i].owners)]]

\* The last pattern that matches wins.
MatchCodeowner(module, codeowners) ==
    LET hit == FirstOf(Reverse(codeowners), LAMBDA p : module \in p.glob)
    IN  IF hit = <<>> THEN <<>> ELSE <<Owner("team", Head(hit).owner)>>

TerraformCodeowners(asset, resources, codeowners) ==
    LET hit == FirstOf(resources, LAMBDA r : /\ r.asset = asset.value
                                             /\ MatchCodeowner(r.module, codeowners) # <<>>)
    IN  IF hit = <<>> THEN <<>> ELSE MatchCodeowner(Head(hit).module, codeowners)

TeamsPattern(asset, teams, clouds) ==
    LET cloud == FirstOf(clouds, LAMBDA m : m.asset = asset.value)
        hit == FirstOf(teams, LAMBDA t :
                 \/ asset.value \in t.dns
                 \/ /\ cloud # <<>>
                    /\ \/ Head(cloud).account \in t.accounts
                       \/ \E tag \in DOMAIN t.tags \cap DOMAIN Head(cloud).tags :
                              Head(cloud).tags[tag] = t.tags[tag])
    IN  IF hit = <<>> THEN <<>> ELSE <<Owner("team", Head(hit).id)>>

\* A person of two teams is of the later one.
EmailToTeam(teams) ==
    [e \in UNION {{t.manager} \cup t.members : t \in Range(teams)} |->
        Head(SelectSeq(Reverse(teams), LAMBDA t : e \in {t.manager} \cup t.members)).id]

\* committer: who last changed the manifest, <<>> when git fails or none is given.
GitBlameOwner(committer, teams) ==
    LET team == EmailToTeam(teams) IN
    IF committer # <<>> /\ Head(committer) \in DOMAIN team
    THEN <<Owner("team", team[Head(committer)])>>
    ELSE <<>>

\* rows: the stored candidates of every asset.  Only a manual row is verified by
\* a human.
SiblingAsset(asset, assets, rows) ==
    LET hit == FirstOf(assets, LAMBDA s : /\ s.zone = asset.zone /\ s.below
                                          /\ s # asset
                                          /\ "manual" \in DOMAIN rows[s.value])
    IN  IF asset.type \notin {"domain", "subdomain"} \/ asset.zone = "" \/ hit = <<>>
        THEN <<>>
        ELSE <<rows[Head(hit).value]["manual"]>>

\* What every source says of an asset.  known: what enrich reads besides the
\* database.
Candidates(asset, assets, rows, overrides, teams, known) ==
    LET said ==
          [manual |-> ManualOverride(asset, overrides),
           cloud_tag |-> CloudTag(asset, known.clouds),
           codeowners |-> TerraformCodeowners(asset, ParseTerraformState(known.state),
                                              ParseCodeowners(known.codeowners)),
           team_pattern |-> TeamsPattern(asset, teams, known.clouds),
           git_blame |-> GitBlameOwner(known.committer, teams),
           sibling_asset |-> SiblingAsset(asset, assets, rows)]
    IN  [s \in {s \in Sources : said[s] # <<>>} |-> Head(said[s])]

\* One row per asset and source; the row of a source that says nothing now stays.
UpsertCandidates(stored, candidates) ==
    [s \in DOMAIN candidates \cup DOMAIN stored |->
        IF s \in DOMAIN candidates THEN candidates[s] ELSE stored[s]]

-----------------------------------------------------------------------------
(* Merge *)

DisputeThreshold == 80

\* Mutant: ranked from the least confident.
LeastSure(sources) ==
    CHOOSE s \in sources : \A t \in sources : Confidence[s] <= Confidence[t]

\* The first of the sorted candidates; no two sources have one confidence.
Surest(sources) ==
    CHOOSE s \in sources : \A t \in sources : Confidence[s] >= Confidence[t]

Merge(candidates) ==
    LET sources == DOMAIN candidates
        top == Surest(sources)
        second == Surest(sources \ {top})
        sure(s) == Confidence[s] >= DisputeThreshold
    IN  IF sources = {} THEN [outcome |-> "orphan", top |-> <<>>]
        ELSE [outcome |-> IF ~sure(top) THEN "orphan"
                          ELSE IF /\ sources # {top} /\ sure(second)
                                  /\ candidates[top].ref # candidates[second].ref
                               THEN "disputed" ELSE "resolved",
              top |-> <<[source |-> top, owner |-> candidates[top]]>>]

-----------------------------------------------------------------------------
(* Route policy *)

TeamById(teams, id) == FirstOf(teams, LAMBDA t : t.id = id)

OwningTeamOfUser(teams, email) == FirstOf(teams, LAMBDA t : email \in t.members)

TeamOf(owner, teams) ==
    IF owner.type = "team" THEN TeamById(teams, owner.ref) ELSE OwningTeamOfUser(teams, owner.ref)

ManagerOf(team) == IF team = <<>> THEN <<>> ELSE <<Head(team).manager>>

\* The note asks to confirm or reassign.
AttributionNote(top) ==
    ~(top.source \in {"manual", "codeowners"} \/ Confidence[top.source] >= 95)

Target(address, note) == [address |-> address, note |-> note]

ResolveTarget(spec, top, teams) ==
    CASE spec = "owner_of_asset" ->
           IF top = <<>> THEN Target(<<>>, TRUE)
           ELSE LET owner == Head(top).owner IN
                Target(IF owner.type = "team" THEN ManagerOf(TeamById(teams, owner.ref))
                                              ELSE <<owner.ref>>,
                       AttributionNote(Head(top)))
      [] spec = "manager_of_owner" ->
           IF top = <<>> THEN Target(<<>>, TRUE)
           ELSE LET team == TeamOf(Head(top).owner, teams) IN
                Target(ManagerOf(team), team = <<>> /\ Head(top).owner.type = "user")
      [] OTHER ->
           IF TeamById(teams, spec) # <<>> THEN Target(ManagerOf(TeamById(teams, spec)), FALSE)
           ELSE IF spec \in Addresses THEN Target(<<spec>>, FALSE)
           ELSE Target(<<>>, TRUE)

ResolveChannel(spec, top, teams) ==
    IF spec # "team_channel" THEN <<spec>>
    ELSE IF top = <<>> THEN <<>>
    ELSE LET team == TeamOf(Head(top).owner, teams) IN
         IF team = <<>> THEN <<>> ELSE Head(team).slack

\* Of a severity without a deadline of its own, the tightest one that is given.
SlaDaysFor(sla, severity) ==
    LET given == SelectSeq(<<severity, "critical", "high", "medium", "low", "info">>,
                           LAMBDA s : s \in DOMAIN sla)
    IN  IF given = <<>> THEN 30 ELSE sla[Head(given)]

\* route: the category's; the ticket system is that of the team named, or else of
\* the owner's.
ResolveRoute(route, severity, teams, ownership) ==
    LET named == TeamById(teams, route.assign_to)
        owning == IF ownership.top = <<>> THEN <<>>
                  ELSE TeamOf(Head(ownership.top).owner, teams)
        team == IF named # <<>> THEN named ELSE owning
    IN  [assignee |-> ResolveTarget(route.assign_to, ownership.top, teams),
         cc |-> [i \in DOMAIN route.cc |-> ResolveTarget(route.cc[i], ownership.top, teams)],
         channels |-> FlattenSeq([i \in DOMAIN route.channels |->
                          ResolveChannel(route.channels[i], ownership.top, teams)]),
         sla_days |-> SlaDaysFor(route.sla, severity),
         system |-> IF team = <<>> THEN <<>> ELSE Head(team).system]
===============================================================================
