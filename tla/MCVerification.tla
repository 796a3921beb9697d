---------------------------- MODULE MCVerification ----------------------------
(* TLC instances of Verification: one organization, texts and hosts of every form. *)
EXTENDS Verification

CONSTANTS corp, app, App, www, https, acme

Site == Name(<<app, corp>>)
Page == Name(<<www, app, corp>>)
Box == V4(5)
Six == V6("2001:db8", <<1>>)
Https == Name(<<https>>)

SmallLetters == [l \in {corp, app, App, www, https} |-> IF l = App THEN app ELSE l]

\* The label of a page begins with an account's, that of a site is one.
InAPart(account, target) ==
  LET text == Unported(Unported(target)) IN
  /\ text.host.form = "name"
  /\ Range(text.host.labels) \cap {app, www} # {}
  /\ account = Name(<<app>>)

Row(kind, value) == [kind |-> kind, value |-> value]
Seed(kind, value, action) == [kind |-> kind, value |-> value, action |-> action]

SomeSeeds ==
  {Seed("wildcard", Glob(<<corp>>), "include"), Seed("ip", Box, "include"),
   Seed("cloud_account", Name(<<app>>), "include"), Seed("url", Url(Https, Site), "exclude")}
SomeExclusions ==
  {Row("wildcard", Glob(<<app, corp>>)), Row("cidr", Network(4, 2)),
   Row("url", Url(Https, Site))}

File(relationship, active, names, exclude) ==
  [relationship |-> relationship, active |-> active, attestation |-> TRUE,
   lists |-> [NoLists EXCEPT !.names = names, !.exclude = exclude]]
SomeScopes ==
  {File("first_party", TRUE, {Exact(Box)}, {}),
   File("first_party", TRUE, {Exact(Page)}, {Exact(Page)}),
   File("third_party", TRUE, {Exact(Site)}, {})}

Request1(tool, args) == [tool |-> tool, args |-> args]
Get(text) == Request1("http_probe", [host |-> text])
Post(text) == Request1("http_probe", [host |-> text, method |-> "POST"])
Tls(text) == Request1("tls_handshake", [host |-> text])
Dns(text) == Request1("dns_resolve", [hostname |-> text])
Issuer(text) == Request1("nuclei_single", [host |-> text, template_id |-> "ssl-issuer"])
Call(text) == Request1("tools/call", [host |-> text])
SomeRequests ==
  {<<Get(Bare(Site)), Tls(AtPort(Bare(Site), 80)), Call(Bare(Page))>>,
   <<Post(Bare(Site)), Tls(Bare(Box))>>,
   <<Issuer(Slashed(Site, <<www, corp>>)), Tls(Bare(Six))>>,
   <<Dns(Bare(Name(<<www, App, corp>>))), Get(Url(Https, Page))>>}
===============================================================================
