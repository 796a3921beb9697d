----------------------------- MODULE Verification -----------------------------
(***************************************************************************)
(* The probes a model may ask for during triage: verify/safety.py,         *)
(* verify/executor.py and its six tools, behind the ScopeGuard that        *)
(* cli.py's `_run_triage` builds from scope.yaml and from one              *)
(* organization's rows, while people edit organizations, seeds and         *)
(* exclusions through the API or the command line.                         *)
(*                                                                         *)
(* One triage of one finding is followed at a time; each edit is a         *)
(* transaction of its own and may fall between any two of triage's reads.  *)
(***************************************************************************)
EXTENDS ScopeMatch, FiniteSets

CONSTANTS
  Slugs,          \* organizations that may be created
  Relationships,  \* those tried
  SeedForms,      \* [kind, value, action]: what people assert
  ExclusionForms, \* [kind, value]
  Scopes,         \* contents of scope.yaml
  Asked,          \* what a model may ask for: sequences of [tool, args], not empty
  MaxToolCalls, MaxRounds, Interval, Timeout,
  MaxEdits, MaxTriages, MaxClock,   \* bounds
  NoOrg           \* no --org, or a global exclusion

ASSUME VerificationAssumption ==
  /\ \A n \in {MaxToolCalls, MaxRounds, Interval, Timeout, MaxEdits, MaxTriages, MaxClock} :
       n \in Nat
  /\ MaxToolCalls > 0
  /\ NoOrg \notin Slugs

\* Rows are written in the form of their kind.
ASSUME FormsAssumption ==
  /\ \A f \in SeedForms \cup ExclusionForms : WellFormed(f)
  /\ \A requests \in Asked : requests \in Seq(Range(requests)) /\ requests # <<>>
  /\ \A s \in Scopes : DOMAIN s.lists = DOMAIN NoLists

VARIABLES
  orgs,        \* Organization rows
  seeds,       \* Seed rows: [org, kind, value, action, added, disabled]
  exclusions,  \* Exclusion rows: [org, kind, value, added]
  edits,       \* number of edits so far: the time of an edit
  scope,       \* scope.yaml
  now,         \* the process's monotonic clock
  triages,     \* triages begun so far
  run,         \* the triage under way
  audit,       \* AuditLog rows, those of the open transaction included
  evidence,    \* Evidence rows of verifications, likewise
  probes       \* history: what went out

administered == <<orgs, seeds, exclusions, edits>>
history == <<audit, evidence, probes>>
vars == <<administered, scope, now, triages, run, history>>

NotDisabled == 0

-----------------------------------------------------------------------------
(* Administration: api/routers and the org, seed and exclusion commands *)

Edit == edits < MaxEdits /\ edits' = edits + 1
OnlyRows == UNCHANGED <<scope, now, triages, run, history>>

\* A third party with active scanning, or a slug in use, is refused; two
\* creations at once are told apart by the unique constraint.
CreateOrg(slug, relationship, active) ==
  /\ Edit
  /\ ~(relationship = "third_party" /\ active)
  /\ \A o \in orgs : o.slug # slug
  /\ orgs' = orgs \cup {[slug |-> slug, relationship |-> relationship, active |-> active]}
  /\ UNCHANGED <<seeds, exclusions>>
  /\ OnlyRows

AddSeed(org, form) ==
  /\ Edit
  /\ seeds' = seeds \cup {[org |-> org.slug, kind |-> form.kind, value |-> form.value,
                           action |-> form.action, added |-> edits', disabled |-> NotDisabled]}
  /\ UNCHANGED <<orgs, exclusions>>
  /\ OnlyRows

\* Disabled, never deleted.
DisableSeed(seed) ==
  /\ Edit
  /\ seeds' = (seeds \ {seed}) \cup {[seed EXCEPT !.disabled = edits']}
  /\ UNCHANGED <<orgs, exclusions>>
  /\ OnlyRows

\* The command line offers fewer kinds than the API, which takes them all.
AddExclusion(org, form) ==
  /\ Edit
  /\ exclusions' = exclusions \cup {[org |-> org, kind |-> form.kind, value |-> form.value,
                                     added |-> edits']}
  /\ UNCHANGED <<orgs, seeds>>
  /\ OnlyRows

-----------------------------------------------------------------------------
(* A triage builds its guard: _resolve_org_scope *)

Idle == [phase |-> "idle"]

\* list_for_org leaves disabled seeds out.
EnabledSeeds(slug) == {s \in seeds : s.org = slug /\ s.disabled = NotDisabled}

\* Mutant: global exclusions are for global lists.
MutOwnExclusions(slug) == {e \in exclusions : e.org = slug}

\* list_for_org_and_global
ApplicableExclusions(slug) == {e \in exclusions : e.org \in {slug, NoOrg}}

Started(slug, flag, phase, org, lists) ==
  [phase |-> phase, number |-> triages + 1, org |-> slug, cliActive |-> flag,
   began |-> edits, allowed |-> org, lists |-> lists, seeds |-> {},
   round |-> 0, queue |-> <<>>, done |-> 0, deadline |-> 0, last |-> <<>>]

Begin(slug, flag) ==
  /\ run.phase = "idle"
  /\ triages < MaxTriages
  /\ triages' = triages + 1
  /\ IF slug = NoOrg
     THEN run' = Started(slug, flag, "asking", {}, Joined(scope.lists, NoLists))
     ELSE \E o \in orgs :
            /\ o.slug = slug
            /\ run' = Started(slug, flag, "reading_seeds", {o.active}, NoLists)
  /\ UNCHANGED <<administered, scope, now, history>>

OnlyRun == UNCHANGED <<administered, scope, now, triages, history>>

ReadSeeds ==
  /\ run.phase = "reading_seeds"
  /\ run' = [run EXCEPT !.phase = "reading_exclusions", !.seeds = EnabledSeeds(run.org)]
  /\ OnlyRun

ReadExclusions ==
  /\ run.phase = "reading_exclusions"
  /\ LET overlay == OrgScopeOverlay(run.seeds, ApplicableExclusions(run.org)) IN
     run' = [run EXCEPT !.phase = "asking", !.seeds = {},
                        !.lists = Joined(scope.lists, overlay)]
  /\ OnlyRun

-----------------------------------------------------------------------------
(* verify/safety.py *)

AllowedTools ==
  {"http_probe", "tcp_banner", "tls_handshake", "dns_resolve", "cert_chain", "nuclei_single"}
AllowedMethods == {"GET", "HEAD"}
AllowedTemplates ==
  {"tech-detect", "ssl-issuer", "waf-detect", "tls-version", "http-missing-security-headers"}

Arg(args, key, default) == IF key \in DOMAIN args THEN args[key] ELSE default

HostKey(tool) == IF tool = "dns_resolve" THEN "hostname" ELSE "host"
WithPort == {"tcp_banner", "tls_handshake", "cert_chain"}

\* Only tcp_banner has no default port.
Port(request) ==
  Arg(request.args, "port", IF request.tool = "tcp_banner" THEN 0 ELSE 443)

\* validate_request raises nothing.
Valid(request) ==
  LET args == request.args tool == request.tool IN
  /\ tool \in AllowedTools
  /\ HostKey(tool) \in DOMAIN args
  /\ tool \in WithPort => Port(request) \in 1..65535
  /\ tool = "http_probe" => /\ Arg(args, "method", "GET") \in AllowedMethods
                            /\ Arg(args, "path", "absolute") = "absolute"
  /\ tool = "dns_resolve" => Arg(args, "record_type", "A") \in {"A", "AAAA"}
  /\ tool = "nuclei_single" => Arg(args, "template_id", "") \in AllowedTemplates

\* Any text that is not empty.
Text(request) == request.args[HostKey(request.tool)]

\* ValidatedRequest.target: what the guard is asked about and the tool is given.
Target(request) ==
  IF request.tool \in WithPort THEN AtPort(Text(request), Port(request)) ELSE Text(request)

-----------------------------------------------------------------------------
(* The rounds: adjudicate_finding and execute_verifications *)

\* A cached or stored verdict ends the finding; so does the budget of rounds.
Conclude ==
  /\ run.phase = "asking"
  /\ run' = [run EXCEPT !.phase = "concluded"]
  /\ OnlyRun

\* Mutant: the cap on a round's calls is gone.
MutAskAll(requests) ==
  /\ run.phase = "asking"
  /\ run.round < MaxRounds
  /\ run' = [run EXCEPT !.phase = "checking", !.round = @ + 1, !.queue = requests, !.done = 0]
  /\ OnlyRun

Ask(requests) ==
  /\ run.phase = "asking"
  /\ run.round < MaxRounds
  /\ run' = [run EXCEPT !.phase = "checking", !.round = @ + 1, !.done = 0,
                        !.queue = SubSeq(requests, 1, Min({MaxToolCalls, Len(requests)}))]
  /\ OnlyRun

Request == run.queue[run.done + 1]
Key == [run |-> run.number, round |-> run.round, index |-> run.done + 1]

\* The next request, or the next round with the evidence of this one.
NextPhase == IF run.done + 1 = Len(run.queue) THEN "asking" ELSE "checking"

Record(status) == evidence' = evidence \cup {[key |-> Key, status |-> status]}
Log(decision) == audit' = audit \cup {[key |-> Key, decision |-> decision]}
Advance == run' = [run EXCEPT !.done = @ + 1, !.phase = NextPhase]

\* Refused before the guard is asked: evidence, but no decision.
Reject ==
  /\ run.phase = "checking"
  /\ ~Valid(Request)
  /\ Record("rejected")
  /\ Advance
  /\ UNCHANGED <<administered, scope, now, triages, audit, probes>>

Decision ==
  Decide(run.lists, Authorized(scope, run.cliActive, run.allowed), Target(Request), TRUE)

\* Mutant: a request the guard denies leaves no evidence behind.
MutCheckSilent ==
  /\ run.phase = "checking"
  /\ Valid(Request)
  /\ Log(Decision)
  /\ IF Decision = "allow"
     THEN run' = [run EXCEPT !.phase = "pacing"]
     ELSE Advance
  /\ UNCHANGED <<administered, scope, now, triages, evidence, probes>>

\* scope_guard.check, always as an active check, and its audit row; what is
\* not sendable is told to the model as evidence.
Check ==
  /\ run.phase = "checking"
  /\ Valid(Request)
  /\ Log(Decision)
  /\ IF Decision = "allow"
     THEN run' = [run EXCEPT !.phase = "pacing"] /\ UNCHANGED evidence
     ELSE Advance /\ Record("denied")
  /\ UNCHANGED <<administered, scope, now, triages, probes>>

Unported(text) == IF text.syntax = "at_port" THEN text.text ELSE text

\* target.split(":")[0]: the scheme of a text that has one, the first group of an
\* IPv6 address.
RateKey(text) ==
  LET t == Unported(text) IN
  CASE t.syntax = "url"                          -> t.scheme
    [] t.syntax = "bare" /\ t.host.form = "v6"   -> V6(t.host.leading, <<>>)
    [] OTHER                                     -> Reading(t)

\* Mutant: the limiter remembers a host the first time only.
MutRemembered(text) ==
  [h \in DOMAIN run.last \cup {RateKey(text)} |->
     IF h \in DOMAIN run.last THEN run.last[h] ELSE now]

\* _last_request_at, once the host of text is noted in it
Remembered(text) ==
  [h \in DOMAIN run.last \cup {RateKey(text)} |->
     IF h = RateKey(text) THEN now ELSE run.last[h]]

\* HostRateLimiter.acquire, then the tool's first packet.
Send ==
  LET text == Text(Request) IN
  /\ run.phase = "pacing"
  /\ RateKey(text) \in DOMAIN run.last => now >= run.last[RateKey(text)] + Interval
  /\ probes' = probes \cup {[key |-> Key, request |-> Request, at |-> now,
                             org |-> run.org, began |-> run.began]}
  /\ run' = [run EXCEPT !.phase = "probing", !.deadline = now + Timeout,
                        !.last = Remembered(text)]
  /\ UNCHANGED <<administered, scope, now, triages, audit, evidence>>

-----------------------------------------------------------------------------
(* verify/tools: whom a tool turns to, and when it raises *)

\* An HTTP client puts "https://" before the text, and so takes for the host what
\* ends at the first colon or slash; nuclei takes a URL for one.
HttpProbeContacts(text) ==
  LET t == Unported(text) IN {Lowered(IF t.syntax = "url" THEN t.scheme ELSE t.host)}
NucleiSingleContacts(text) == {Lowered(Unported(text).host)}
\* A text that is not a host is, to a resolver, nobody's name.
SocketContacts(text) == IF text.syntax = "bare" THEN {Lowered(text.host)} ELSE {}

Contacts(request) ==
  CASE request.tool = "http_probe"    -> HttpProbeContacts(Text(request))
    [] request.tool = "nuclei_single" -> NucleiSingleContacts(Text(request))
    [] OTHER                          -> SocketContacts(Text(request))

Goings == {"answers", "stays_silent", "no_handshake", "refuses", "hangs", "not_installed"}

HttpProbeRaises == {"stays_silent", "no_handshake", "refuses", "hangs"}
\* Nothing to read within the read time-out is an empty banner.
TcpBannerRaises == {"refuses", "hangs"}
\* An SSLError is what the tool is after: it tells whether a client certificate
\* is required.
TlsHandshakeRaises == {"refuses", "hangs"}
\* Failures and the time-out of the resolver read as "not resolved".
DnsResolveRaises == {}
CertChainRaises == {"stays_silent", "no_handshake", "refuses", "hangs"}
\* The binary's exit code is not looked at: no output is "not matched".
NucleiSingleRaises == {"hangs", "not_installed"}

ToolRaises(tool) ==
  CASE tool = "http_probe"    -> HttpProbeRaises
    [] tool = "tcp_banner"    -> TcpBannerRaises
    [] tool = "tls_handshake" -> TlsHandshakeRaises
    [] tool = "dns_resolve"   -> DnsResolveRaises
    [] tool = "cert_chain"    -> CertChainRaises
    [] tool = "nuclei_single" -> NucleiSingleRaises

\* A tool that raises, or is still at it when wait_for gives up, is a result.
Answered(going) ==
  /\ run.phase = "probing"
  /\ Record(IF going \in ToolRaises(Request.tool) THEN "failed" ELSE "executed")
  /\ Advance
  /\ UNCHANGED <<administered, scope, now, triages, audit, probes>>

Tick ==
  /\ now < MaxClock
  /\ run.phase = "probing" => now < run.deadline
  /\ now' = now + 1
  /\ UNCHANGED <<administered, scope, triages, run, history>>

\* Triage's one transaction.
Commit ==
  /\ run.phase = "concluded"
  /\ run' = Idle
  /\ UNCHANGED <<administered, scope, now, triages, history>>

Kept(rows) == {r \in rows : r.key.run # run.number}

\* A killed process, or an error nothing catches (a redaction backstop, a
\* provider without credentials): the rows go, what was sent was sent.
Abort ==
  /\ run.phase # "idle"
  /\ run' = Idle
  /\ audit' = Kept(audit)
  /\ evidence' = Kept(evidence)
  /\ UNCHANGED <<administered, scope, now, triages, probes>>

-----------------------------------------------------------------------------
Init ==
  /\ orgs = {} /\ seeds = {} /\ exclusions = {}
  /\ edits = 0
  /\ scope \in {s \in Scopes : Loadable(s)}
  /\ now = 0
  /\ triages = 0
  /\ run = Idle
  /\ audit = {} /\ evidence = {} /\ probes = {}

Administer ==
  \/ \E slug \in Slugs, r \in Relationships, a \in BOOLEAN : CreateOrg(slug, r, a)
  \/ \E org \in orgs, form \in SeedForms : AddSeed(org, form)
  \/ \E seed \in {s \in seeds : s.disabled = NotDisabled} : DisableSeed(seed)
  \/ \E org \in {o.slug : o \in orgs} \cup {NoOrg}, form \in ExclusionForms :
       AddExclusion(org, form)

Next ==
  \/ Administer
  \/ \E slug \in Slugs \cup {NoOrg}, flag \in BOOLEAN : Begin(slug, flag)
  \/ ReadSeeds
  \/ ReadExclusions
  \/ Conclude
  \/ \E requests \in Asked : Ask(requests)
  \/ Reject
  \/ Check
  \/ Send
  \/ \E going \in Goings : Answered(going)
  \/ Tick
  \/ Commit
  \/ Abort

Spec == Init /\ [][Next]_vars

-----------------------------------------------------------------------------
(* Correctness *)

TypeOK ==
  /\ \A o \in orgs : o.slug \in Slugs /\ o.relationship \in Relationships /\ o.active \in BOOLEAN
  /\ \A s \in seeds : s.org \in Slugs /\ s.kind \in SeedKinds /\ s.added \in 1..edits
                      /\ s.disabled \in {NotDisabled} \cup (s.added + 1)..edits
  /\ \A e \in exclusions : e.org \in Slugs \cup {NoOrg} /\ e.added \in 1..edits
  /\ edits \in 0..MaxEdits /\ now \in 0..MaxClock /\ triages \in 0..MaxTriages
  /\ run.phase \in {"idle", "reading_seeds", "reading_exclusions", "asking", "checking",
                    "pacing", "probing", "concluded"}
  /\ run.phase # "idle" => /\ run.round \in 0..MaxRounds
                           /\ run.done \in 0..MaxToolCalls
                           /\ Len(run.queue) <= MaxToolCalls

\* What a row is meant to say of a host.
Speaks(row, host) ==
  CASE row.kind \in Hostnames -> host = row.value
    [] row.kind = "wildcard"  -> Globs(row.value.labels, host)
    [] row.kind = "url"       -> host = Lowered(row.value.host)
    [] row.kind = "ip"        -> host = row.value
    [] row.kind = "cidr"      -> IsAddress(host) /\ InNetwork(host, row.value)
    [] OTHER                  -> FALSE

\* A name or an address in small letters and nothing else, an IPv6 address without
\* a port: the texts that the guard and the tools read alike.
Plain(request) ==
  LET text == Text(request) IN
  /\ text.syntax = "bare"
  /\ Lowered(text.host) = text.host
  /\ text.host.form = "v6" => request.tool \notin WithPort

\* What the guard reads in the text of a probe is a host that scope.yaml, or a
\* seed of the run's organization not disabled before the run began, names
\* outright; no exclusion that stood when the run began speaks of it, be it the
\* organization's or a global one, and no excluding seed; and the organization is
\* not a third party.  What was edited while the run was reading may count either
\* way.  Of a plain text, that host is the one contacted; who is contacted on
\* account of another, the code does not hold to what it read.
ProbesInScope ==
  \A p \in probes :
    LET target == Target(p.request)
        host == ExtractHost(target)
        own == {s \in seeds : s.org = p.org}
        standing == {s \in own : s.added <= p.began /\ s.disabled = NotDisabled}
        before == {e \in exclusions : e.org \in {p.org, NoOrg} /\ e.added <= p.began}
    IN /\ scope.active /\ scope.attestation
       /\ \/ Names(scope.lists, target)
          \/ \E s \in own : /\ s.action = "include"
                            /\ s.disabled = NotDisabled \/ s.disabled > p.began
                            /\ s.kind \notin {"ip", "cidr"}
                            /\ \/ Speaks(s, host)
                               \/ s.kind = "cloud_account" /\ MatchesCloudAccount(target, {s.value})
       /\ ~Excludes(scope.lists, host)
       /\ \A s \in standing : s.action = "exclude" => ~Speaks(s, host)
       /\ p.org # NoOrg =>
            /\ \A e \in before : ~Speaks(e, host)
            /\ \A o \in orgs : o.slug = p.org => o.active /\ o.relationship # "third_party"
       /\ Plain(p.request) => Contacts(p.request) = {host}

Keys(rows) == {r.key : r \in rows}
WithStatus(statuses) == Keys({e \in evidence : e.status \in statuses})

\* Every request of a round is answered by one evidence row, within the cap on
\* calls: a refusal, a denial with its audit row, or the outcome of a probe that
\* an audit row allows.  The model's next round therefore reads why it did not
\* get what it asked for.
EveryRequestAnswered ==
  /\ Cardinality(evidence) = Cardinality(Keys(evidence))
  /\ \A k \in Keys(evidence) : k.index \in 1..MaxToolCalls /\ k.round \in 1..MaxRounds
  /\ \A k \in Keys(evidence) : k.index > 1 => [k EXCEPT !.index = @ - 1] \in Keys(evidence)
  /\ WithStatus({"rejected"}) \cap Keys(audit) = {}
  /\ WithStatus({"denied"}) = Keys({a \in audit : a.decision # "allow"})
  /\ WithStatus({"executed", "failed"}) \subseteq
       Keys({a \in audit : a.decision = "allow"}) \cap Keys(probes)
  /\ run.phase = "asking" =>
       \A i \in DOMAIN run.queue :
         [run |-> run.number, round |-> run.round, index |-> i] \in Keys(evidence)

\* Two probes of one run whose texts name the host alike are at least Interval
\* apart, whatever ports and tools they use.
Paced ==
  \A p, q \in probes :
    /\ p.key.run = q.key.run /\ p # q
    /\ Unported(Text(p.request)) = Unported(Text(q.request))
    => p.at >= q.at + Interval \/ q.at >= p.at + Interval
===============================================================================
