------------------------------ MODULE ScopeMatch ------------------------------
(***************************************************************************)
(* How kiyooo/recon/scope.py turns scope.yaml and an organization's Seed   *)
(* and Exclusion rows into lists, and how ScopeGuard._decide matches a     *)
(* target against them.                                                    *)
(*                                                                         *)
(* A target is a text.  Most are a host and nothing more, but a scheme may *)
(* stand before the host, a path or a port after it, and the guard reads   *)
(* some of these texts otherwise than a client does.                       *)
(*                                                                         *)
(* A host is a name (what stands between its dots, left to right), an IPv4 *)
(* address (a number), an IPv6 address (its leading 32 bits and what       *)
(* follows them) or an AS number.  An entry of a list is one string of the *)
(* code: an exact host, a glob "*.<labels>", a network, an AS number or an *)
(* account.                                                                *)
(***************************************************************************)
EXTENDS Naturals, Sequences, SequencesExt

CONSTANTS
  AddressBits,       \* width of an IPv4 address: 32 in the code
  Lower,             \* a label -> the same in small letters
  OccursIn(_, _)     \* the text of an account occurs in that of a target

ASSUME AddressAssumption == AddressBits \in Nat

Name(labels) == [form |-> "name", labels |-> labels]
V4(number) == [form |-> "v4", number |-> number]
V6(leading, rest) == [form |-> "v6", leading |-> leading, rest |-> rest]
ASNumber(number) == [form |-> "asn", number |-> number]

Exact(host) == [entry |-> "exact", host |-> host]
Glob(labels) == [entry |-> "glob", labels |-> labels]
Network(base, length) == [entry |-> "v4_network", base |-> base, length |-> length]
LeadingNetwork(leading) == [entry |-> "v6_network", leading |-> leading]

Bare(host) == [syntax |-> "bare", host |-> host]
Url(scheme, host) == [syntax |-> "url", scheme |-> scheme, host |-> host]
\* "name/rest": rest is what stands between the dots that follow the slash.
Slashed(name, rest) == [syntax |-> "slashed", host |-> name, rest |-> rest]
AtPort(text, port) == [syntax |-> "at_port", text |-> text, port |-> port]

-----------------------------------------------------------------------------
(* Matching *)

Lowered(host) ==
  IF host.form = "name" THEN Name([i \in DOMAIN host.labels |-> Lower[host.labels[i]]]) ELSE host

\* A text is taken apart at "://" only, and urlsplit gives the host in small
\* letters.  A text with a slash and no scheme is one name, in which the part
\* around the slash belongs to both sides.
Reading(text) ==
  CASE text.syntax = "bare"    -> text.host
    [] text.syntax = "url"     -> Lowered(text.host)
    [] text.syntax = "slashed" ->
         Name(Front(text.host.labels)
                \o <<[until |-> Last(text.host.labels), from |-> Head(text.rest)]>>
                \o Tail(text.rest))

\* A port is only told from an IPv6 address by counting colons: appended to one
\* it reads as one more group, and after another port the text is kept whole.
ExtractHost(target) ==
  CASE target.syntax # "at_port" -> Reading(target)
    [] target.syntax = "at_port" ->
         LET text == target.text IN
         CASE text.syntax = "at_port" -> Name(<<target>>)
           [] text.syntax = "bare" /\ text.host.form = "v6" ->
                V6(text.host.leading, Append(text.host.rest, target.port))
           [] OTHER -> Reading(text)

IsAddress(host) == host.form \in {"v4", "v6"}

\* fnmatch on the whole text: "*" takes in any parts, slashes included.
Globs(labels, host) == host.form = "name" /\ IsStrictSuffix(labels, host.labels)

MatchesHostname(host, entries) ==
  \/ Exact(host) \in entries
  \/ \E e \in entries : e.entry = "glob" /\ Globs(e.labels, host)

InNetwork(host, e) ==
  \/ /\ e.entry = "v4_network"
     /\ host.form = "v4"
     /\ LET size == 2 ^ (AddressBits - e.length) IN
        host.number \div size = e.base \div size
  \/ /\ e.entry = "v6_network"
     /\ host.form = "v6"
     /\ host.leading = e.leading
  \/ e = Exact(host)                \* ip_network("<address>") is that address

MatchesCidr(host, entries) == IsAddress(host) /\ \E e \in entries : InNetwork(host, e)

\* The number is sought in the whole target, which a port spoils.
MatchesAsn(target, asns) ==
  target.syntax = "bare" /\ target.host.form = "asn" /\ target.host \in asns

\* "account in target"
MatchesCloudAccount(target, accounts) == \E a \in accounts : OccursIn(a, target)

-----------------------------------------------------------------------------
(* An organization's rows, folded into lists *)

Hostnames == {"apex_domain", "subdomain", "email_domain"}
Unenforceable == {"github_org", "saas_tenant", "brand_term"}
SeedKinds == Hostnames \cup Unenforceable
               \cup {"wildcard", "url", "ip", "cidr", "asn", "cloud_account"}

\* f"{value}/32", for an address of either version.
AddressNetwork(host) ==
  IF host.form = "v4" THEN Network(host.number, AddressBits)
                      ELSE LeadingNetwork(host.leading)

\* What people write for a kind.  Nothing in the code sees to it; an entry made
\* from anything else matches nothing.
WellFormed(row) ==
  /\ row.kind \in SeedKinds
  /\ row.kind = "wildcard" => row.value.entry = "glob"
  /\ row.kind = "url" => row.value = Url(row.value.scheme, row.value.host)
  /\ row.kind = "ip" => IsAddress(row.value)

\* The entry a row of an enforceable kind contributes: a host or an account is
\* its value, a glob or a network is an entry already.
EntryOf(row) ==
  CASE row.kind \in Hostnames \cup {"cloud_account"} -> Exact(row.value)
    [] row.kind \in {"wildcard", "cidr"}             -> row.value
    [] row.kind = "url"                              -> Exact(ExtractHost(row.value))
    [] row.kind = "ip"                               -> AddressNetwork(row.value)

NoLists == [names |-> {}, cidrs |-> {}, asns |-> {}, accounts |-> {}, exclude |-> {}]

Entries(rows, kinds) == {EntryOf(r) : r \in {r \in rows : r.kind \in kinds}}
Values(rows, kind) == {r.value : r \in {r \in rows : r.kind = kind}}

\* build_org_scope_overlay.  Excluding rows are of no kind of their own: they
\* all go to one list, or nowhere.
OrgScopeOverlay(seeds, exclusions) ==
  LET included == {s \in seeds : s.action = "include"} IN
  [names    |-> Entries(included, Hostnames \cup {"wildcard", "url"}),
   cidrs    |-> Entries(included, {"ip", "cidr"}),
   asns     |-> Values(included, "asn"),
   accounts |-> Values(included, "cloud_account"),
   exclude  |-> Entries(seeds \ included, SeedKinds \ (Unenforceable \cup {"asn"}))
                  \cup Entries(exclusions, Hostnames \cup {"wildcard", "url", "ip", "cidr"})]

Joined(lists, overlay) == [l \in DOMAIN lists |-> lists[l] \cup overlay[l]]

-----------------------------------------------------------------------------
(* ScopeGuard *)

Excludes(lists, host) ==
  MatchesHostname(host, lists.exclude) \/ MatchesCidr(host, lists.exclude)

\* Named by a human, as opposed to lying in a range.
Names(lists, target) ==
  MatchesHostname(ExtractHost(target), lists.names) \/ MatchesCloudAccount(target, lists.accounts)

Ranges(lists, target) ==
  MatchesCidr(ExtractHost(target), lists.cidrs) \/ MatchesAsn(target, lists.asns)

Decide(lists, authorized, target, isActive) ==
  LET covered == /\ ~Excludes(lists, ExtractHost(target))
                 /\ Names(lists, target) \/ Ranges(lists, target)
  IN CASE ~covered                              -> "deny"
       [] covered /\ ~isActive                  -> "allow"
       [] covered /\ isActive /\ ~authorized    -> "deny"
       [] covered /\ isActive /\ authorized     ->
            IF Names(lists, target) THEN "allow" ELSE "requires_confirm"

\* _active_scanning_authorized: org is {} without --org, else holds its flag.
Authorized(scope, cliActive, org) ==
  /\ scope.active /\ cliActive /\ scope.attestation
  /\ \A allowed \in org : allowed

\* ScopeConfig's validators.
Loadable(scope) ==
  scope.active => scope.relationship = "first_party" /\ scope.attestation
===============================================================================
