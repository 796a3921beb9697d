------------------------------ MODULE Predicates ------------------------------
(***************************************************************************)
(* The predicate library of kiyooo/detect/predicates.py and the blocks     *)
(* kiyooo/detect/evaluate.py makes of it.                                  *)
(*                                                                         *)
(* An Evidence row is [id, kind, injected, content]; content is a record   *)
(* of the fields the predicates read, a field the tool did not report or   *)
(* reported with another type being absent.  A regular expression is the   *)
(* set of the values it is found in.  A body is [text, entropy].  "" is    *)
(* the discriminator None.  An asset is [value, type, host]: host is what  *)
(* urlsplit or split(":") reads from the value.                            *)
(***************************************************************************)
EXTENDS Integers, Sequences, SequencesExt, FiniteSetsExt

\* PredicateContext; catalog |-> <<>> is kev_catalog=None, <<known>> a catalog.
Context(catalog, scores, controls) ==
    [catalog |-> catalog, scores |-> scores, controls |-> controls]

Matched(ids, discriminator) == [matched |-> TRUE, ids |-> ids, discriminator |-> discriminator]
NoMatch == [matched |-> FALSE, ids |-> {}, discriminator |-> ""]

OfKind(evidence, kind) == SelectSeq(evidence, LAMBDA e : e.kind = kind)

Has(e, field) == field \in DOMAIN e.content

Ids(evidence) == {e.id : e \in Range(evidence)}

\* The first row of the kind that satisfies Test, in the order it was stored.
First(evidence, kind, Test(_), Discriminator(_)) ==
    LET hits == SelectSeq(OfKind(evidence, kind), Test) IN
    IF hits = <<>> THEN NoMatch
                   ELSE Matched({Head(hits).id}, Discriminator(Head(hits)))

Undistinguished(e) == ""

FieldIn(evidence, kind, field, values) ==
    First(evidence, kind, LAMBDA e : Has(e, field) /\ e.content[field] \in values,
          Undistinguished)

-----------------------------------------------------------------------------
(* Host names, headers, bodies, redirects *)

HostnameOf(asset) ==
    IF asset.type \in {"http_service", "url", "tcp_service", "cert"} THEN asset.host
                                                                     ELSE asset.value

HostnameMatches(asset, found) ==
    IF HostnameOf(asset) # "" /\ HostnameOf(asset) \in found THEN Matched({}, "") ELSE NoMatch

HttpHeaderMatches(evidence, found) ==
    First(evidence, "http_response",
          LAMBDA e : /\ Has(e, "header")
                     /\ \E h \in DOMAIN found \cap DOMAIN e.content.header :
                            e.content.header[h] \in found[h],
          Undistinguished)

HttpBodyMatches(evidence, found) ==
    First(evidence, "http_response",
          LAMBDA e : Has(e, "body") /\ e.content.body.text \in found, Undistinguished)

RedirectChainMatches(evidence, found) ==
    First(evidence, "http_response",
          LAMBDA e : Has(e, "chain") /\ Range(e.content.chain) \cap found # {},
          Undistinguished)

BodyEntropyAbove(evidence, threshold) ==
    First(evidence, "http_response",
          LAMBDA e : Has(e, "body") /\ e.content.body.text # ""
                                    /\ e.content.body.entropy > threshold,
          Undistinguished)

-----------------------------------------------------------------------------
(* Ports, reachability, authentication *)

PortIn(evidence, ports) == FieldIn(evidence, "port_banner", "port", ports)

ServiceBannerMatches(evidence, found) == FieldIn(evidence, "port_banner", "banner", found)

\* bool(rows) == bool(arg): a FALSE argument matches their absence.
AnyOf(rows, wanted) == IF (rows # <<>>) = wanted THEN Matched(Ids(rows), "") ELSE NoMatch

InternetReachable(evidence, wanted) ==
    AnyOf(OfKind(evidence, "http_response") \o OfKind(evidence, "port_banner"), wanted)

\* login: one of the login keywords is in the title.
RequiresAuth(e) ==
    \/ Has(e, "status_code") /\ e.content.status_code \in {401, 403}
    \/ Has(e, "login") /\ e.content.login

RespondsWithoutAuth(evidence, wanted) ==
    First(evidence, "http_response", LAMBDA e : ~RequiresAuth(e) = wanted, Undistinguished)

-----------------------------------------------------------------------------
(* TLS *)

TlsCertCnMatches(evidence, found) == FieldIn(evidence, "tls_cert", "subject_cn", found)

\* days_left: whole days from now to not_after, absent when it does not parse.
TlsCertExpiresWithinDays(evidence, days) ==
    First(evidence, "tls_cert",
          LAMBDA e : Has(e, "days_left") /\ e.content.days_left <= days,
          LAMBDA e : IF Has(e, "serial_number") THEN e.content.serial_number ELSE "")

TlsHandshakeRequiresClientCert(evidence, wanted) ==
    FieldIn(evidence, "tls_cert", "requires_client_cert", {wanted})

TlsProtocolVersionIn(evidence, versions) ==
    First(evidence, "tls_cert",
          LAMBDA e : Has(e, "protocol_version") /\ e.content.protocol_version \in versions,
          LAMBDA e : e.content.protocol_version)

-----------------------------------------------------------------------------
(* Networks, clouds, controls, injected text *)

ResolvedIpInAsn(evidence, asns) == FieldIn(evidence, "asn_record", "asn", asns)

CloudTagEquals(evidence, tags) ==
    First(evidence, "cloud_config",
          LAMBDA e : /\ Has(e, "tags")
                     /\ \A t \in DOMAIN tags : t \in DOMAIN e.content.tags
                                                /\ e.content.tags[t] = tags[t],
          Undistinguished)

HasControl(asset, context, id) ==
    LET rows == {r \in context.controls : r.asset = asset.value /\ r.control = id} IN
    IF rows = {} THEN NoMatch ELSE Matched(UNION {r.evidence : r \in rows}, "")

EvidenceInjectionSuspected(evidence, wanted) ==
    AnyOf(SelectSeq(evidence, LAMBDA e : e.injected), wanted)

-----------------------------------------------------------------------------
(* Nuclei results: tags, and CVE ids looked up in the catalogs *)

\* Tags are in alphabetical order: the least of those that are wanted tells one
\* finding from another.  CVE ids are in the order of the report.
NucleiTagsInclude(evidence, wanted) ==
    LET overlap(e) == SelectSeq(e.content.tags, LAMBDA t : t \in wanted) IN
    First(evidence, "nuclei_result",
          LAMBDA e : Has(e, "tags") /\ overlap(e) # <<>>,
          LAMBDA e : Head(overlap(e)))

CveIds(e) == IF Has(e, "cve_id") THEN e.content.cve_id ELSE <<>>

FirstCve(evidence, wanted) ==
    First(evidence, "nuclei_result",
          LAMBDA e : Range(CveIds(e)) \cap wanted # {},
          LAMBDA e : Head(SelectSeq(CveIds(e), LAMBDA cve : cve \in wanted)))

CveInKev(evidence, context, wanted) ==
    LET named == UNION {Range(CveIds(e)) : e \in Range(OfKind(evidence, "nuclei_result"))} IN
    IF context.catalog = <<>> THEN NoMatch
    ELSE FirstCve(evidence, {cve \in named : (cve \in Head(context.catalog)) = wanted})

EpssAbove(evidence, context, threshold) ==
    FirstCve(evidence, {cve \in DOMAIN context.scores : context.scores[cve] > threshold})

-----------------------------------------------------------------------------
(* Clauses and blocks *)

Clause(predicate, arg) == [predicate |-> predicate, arg |-> arg]

EvaluateClause(clause, asset, evidence, context) ==
    LET p == clause.predicate
        arg == clause.arg
    IN  CASE p = "hostname_matches" -> HostnameMatches(asset, arg)
          [] p = "http_header_matches" -> HttpHeaderMatches(evidence, arg)
          [] p = "http_body_matches" -> HttpBodyMatches(evidence, arg)
          [] p = "port_in" -> PortIn(evidence, arg)
          [] p = "service_banner_matches" -> ServiceBannerMatches(evidence, arg)
          [] p = "tls_cert_cn_matches" -> TlsCertCnMatches(evidence, arg)
          [] p = "tls_cert_expires_within_days" -> TlsCertExpiresWithinDays(evidence, arg)
          [] p = "tls_handshake_requires_client_cert" ->
                TlsHandshakeRequiresClientCert(evidence, arg)
          [] p = "internet_reachable" -> InternetReachable(evidence, arg)
          [] p = "resolved_ip_in_asn" -> ResolvedIpInAsn(evidence, arg)
          [] p = "cloud_tag_equals" -> CloudTagEquals(evidence, arg)
          [] p = "has_control" -> HasControl(asset, context, arg)
          [] p = "cve_in_kev" -> CveInKev(evidence, context, arg)
          [] p = "epss_above" -> EpssAbove(evidence, context, arg)
          [] p = "responds_without_auth" -> RespondsWithoutAuth(evidence, arg)
          [] p = "redirect_chain_matches" -> RedirectChainMatches(evidence, arg)
          [] p = "body_entropy_above" -> BodyEntropyAbove(evidence, arg)
          [] p = "evidence_injection_suspected" -> EvidenceInjectionSuspected(evidence, arg)
          [] p = "tls_protocol_version_in" -> TlsProtocolVersionIn(evidence, arg)
          [] p = "nuclei_tags_include" -> NucleiTagsInclude(evidence, arg)

EvaluateClauses(clauses, asset, evidence, context) ==
    [i \in DOMAIN clauses |-> EvaluateClause(clauses[i], asset, evidence, context)]

EvaluateClausesAny(clauses, asset, evidence, context) ==
    \E r \in Range(EvaluateClauses(clauses, asset, evidence, context)) : r.matched

Combine(all, any) ==
    LET some == SelectSeq(any, LAMBDA r : r.matched)
        told == SelectSeq(all \o some, LAMBDA r : r.discriminator # "")
    IN  IF \/ \E i \in DOMAIN all : ~all[i].matched
           \/ any # <<>> /\ some = <<>>
        THEN NoMatch
        ELSE Matched(UNION {r.ids : r \in Range(all \o some)},
                     IF told = <<>> THEN "" ELSE Head(told).discriminator)

EvaluateBlock(block, asset, evidence, context) ==
    Combine(EvaluateClauses(block.all_of, asset, evidence, context),
            EvaluateClauses(block.any_of, asset, evidence, context))
===============================================================================
