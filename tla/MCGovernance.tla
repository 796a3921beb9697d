----------------------------- MODULE MCGovernance -----------------------------
(* A TLC instance of Governance: two host names of one zone and a service. *)
EXTENDS Governance

Asset(value, type, host) ==
  [value |-> value, type |-> type, host |-> host, zone |-> "corp", below |-> TRUE]
SomeAssets ==
  <<Asset("api", "subdomain", ""), Asset("www", "subdomain", ""),
    Asset("https://www", "http_service", "www")>>

Row(id, kind, content) == [id |-> id, kind |-> kind, injected |-> FALSE, content |-> content]
Poisoned(row) == [row EXCEPT !.injected = TRUE]

Cert(days, requires) ==
  [subject_cn |-> "corp", days_left |-> days, serial_number |-> "s1",
   protocol_version |-> "1.0", requires_client_cert |-> requires]
Page(text) ==
  [header |-> [server |-> "nginx"], body |-> [text |-> text, entropy |-> 5],
   chain |-> <<"/login">>, status_code |-> 200, login |-> FALSE]
Closed == [status_code |-> 401]

\* Two hosts with the same report; a page behind single sign-on; a certificate.
Exposed ==
  [evidence |-> [v \in Values |->
     CASE v = "api" -> <<Row(1, "nuclei_result", [tags |-> <<"cve">>, cve_id |-> <<"cve1", "cve2">>]),
                         Row(2, "tls_cert", Cert(7, TRUE))>>
       [] v = "www" -> <<Poisoned(Row(3, "nuclei_result", [tags |-> <<"cve", "panel">>]))>>
       [] OTHER -> <<Row(4, "http_response", Page("admin"))>>],
   catalog |-> <<{"cve2"}>>, scores |-> [cve1 |-> 20]]
Guarded ==
  [evidence |-> [v \in Values |->
     CASE v = "api" -> <<Row(5, "port_banner", [port |-> 22, banner |-> "ssh"]),
                         Row(6, "asn_record", [asn |-> 64512]),
                         Row(7, "nuclei_result", [cve_id |-> <<"cve1">>])>>
       [] v = "www" -> <<>>
       [] OTHER -> <<Row(8, "http_response", Closed), Row(9, "http_response", Page("sso"))>>],
   catalog |-> <<>>, scores |-> [cve1 |-> 60]]
SomeWorlds == [exposed |-> Exposed, guarded |-> Guarded]

Block(all, some) == [all_of |-> all, any_of |-> some]

\* Every predicate of the library.
Library ==
  <<Clause("hostname_matches", {"intranet"}), Clause("http_header_matches", [server |-> {"iis"}]),
    Clause("http_body_matches", {"phpinfo"}), Clause("port_in", {3389}),
    Clause("service_banner_matches", {"telnet"}), Clause("tls_cert_cn_matches", {"localhost"}),
    Clause("tls_cert_expires_within_days", 0), Clause("tls_handshake_requires_client_cert", FALSE),
    Clause("internet_reachable", FALSE), Clause("resolved_ip_in_asn", {1}),
    Clause("cloud_tag_equals", [env |-> "prod"]), Clause("has_control", "none"),
    Clause("cve_in_kev", TRUE), Clause("epss_above", 90), Clause("responds_without_auth", TRUE),
    Clause("redirect_chain_matches", {"/setup"}), Clause("body_entropy_above", 7),
    Clause("evidence_injection_suspected", TRUE), Clause("tls_protocol_version_in", {"1.0"}),
    Clause("nuclei_tags_include", {"panel"})>>

Category(applies, severity, detect, suppress_if, assign_to, sla) ==
  [enabled |-> TRUE, applies_to |-> applies, severity |-> severity, detect |-> detect,
   suppress_if |-> suppress_if,
   route |-> [assign_to |-> assign_to, cc |-> <<"manager_of_owner">>,
              channels |-> <<"team_channel">>, sla |-> sla]]
SomeCategories ==
  [known_cve |->
     Category({"subdomain"}, "critical",
              Block(<<>>, <<Clause("cve_in_kev", TRUE), Clause("epss_above", 50)>>),
              <<Clause("has_control", "sso")>>, "owner_of_asset", [critical |-> 7]),
   panel |->
     Category({"http_service"}, "medium", Block(<<Clause("responds_without_auth", TRUE)>>, <<>>),
              <<>>, "owner_of_asset", [critical |-> 7]),
   reported |->
     Category({"subdomain"}, "low", Block(<<Clause("nuclei_tags_include", {"cve"})>>, Library),
              <<>>, "manager_of_owner", <<>>),
   retired |->
     [Category({"subdomain"}, "info", Block(<<>>, <<>>), <<>>, "secops", <<>>)
        EXCEPT !.enabled = FALSE]]

Control(detect, action, confirm, mitigates, never) ==
  [detect |-> detect, action |-> action, confirm |-> confirm,
   mitigates |-> mitigates, never |-> never]
SomeControls ==
  [sso |-> Control(Block(<<Clause("http_body_matches", {"sso"})>>, <<>>),
                   "suppress", FALSE, {"*"}, {"known_cve"}),
   mtls |-> Control(Block(<<Clause("tls_handshake_requires_client_cert", TRUE)>>, <<>>),
                    "suppress", TRUE, {"*"}, {})]

Team(id, manager, members, dns) ==
  [id |-> id, manager |-> manager, members |-> members, slack |-> <<id>>, system |-> <<id>>,
   dns |-> dns, accounts |-> {"123"}, tags |-> [service |-> id]]
SomeTeams ==
  <<Team("secops", "sue", {"sam"}, {}), Team("web", "wes", {"sam", "wim"}, {"www"})>>

SomeOwners == {Owner("team", "web"), Owner("user", "sam")}

SomeEntries == {[category |-> "panel", reason |-> "known", assets |-> {"https://www"}]}

Cloud(asset, tags) == [asset |-> asset, account |-> "0", tags |-> tags]
Bucket == [type |-> "aws_lb", module |-> "edge", instances |-> <<[dns_name |-> "api"]>>]
Owned == <<[glob |-> {"edge"}, owners |-> <<"secops">>], [glob |-> {}, owners |-> <<>>]>>
SomeInventories ==
  {[clouds |-> <<Cloud("api", [Owner |-> "web"]), Cloud("https://www", [service |-> "web"])>>,
    state |-> <<>>, codeowners |-> <<>>, committer |-> <<>>],
   [clouds |-> <<>>, state |-> <<Bucket>>, codeowners |-> Owned, committer |-> <<"wim">>]}

\* Ownership shares no variable with detection and feedback: each is taken alone, the
\* product of the two says nothing more.  People's edits of suppressions.yaml and
\* sweeps together are MaxSweeps: two sweeps, or one and an edit.
MCNext ==
  \/ /\ answers + enrichments = 0
     /\ DetectionNext \/ FeedbackNext
     /\ sweepings' + edits' <= MaxSweeps
  \/ scans = 0 /\ OwnershipNext

SweepersAlike == Permutations(Sweepers)

MCSpec == Init /\ [][MCNext]_vars
===============================================================================
