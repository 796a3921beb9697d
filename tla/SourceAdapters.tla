--------------------------- MODULE SourceAdapters ---------------------------
(***************************************************************************)
(* What the adapters and importers of `ingest/` make of one record of a    *)
(* vendor's report: nothing, an ImportedFinding, or an exception that ends *)
(* the whole import.  A record keeps the fields the parser branches on and *)
(* those that end up in an identity; titles, severities and payloads are   *)
(* left out.  An absent or empty field is Missing, which Python's `or`     *)
(* skips; an f-string that joins fields is their tuple.                    *)
(***************************************************************************)
EXTENDS Naturals, FiniteSets

Missing == ""

Or(a, b) == IF a # Missing THEN a ELSE b

Imported(ext, issue, type, asset) ==
    [ext |-> ext, issue |-> issue, type |-> type, asset |-> asset]

-----------------------------------------------------------------------------
(* Tools run by kiyooo itself.  A check that passed is not a finding.      *)

ProwlerFinding(r) ==
    LET check    == Or(Or(r.event_code, r.info_uid), "unknown-check")
        resource == Or(Or(r.uid, r.name), "unknown-resource")
    IN  IF r.status_code # "FAIL" THEN {}
        ELSE {Imported(<<check, resource>>, check, "cloud_resource", resource)}

\* A block of `trivy k8s` belongs to a workload, which may go without a name; one
\* of `trivy image` does not.
TrivyAsset(r) ==
    [type  |-> IF r.k8s THEN "k8s_workload" ELSE "container_image",
     value |-> IF r.k8s THEN Or(r.workload, r.artifact) ELSE r.artifact]

\* Mutant: a vulnerability is identified without the workload it was found in.
MutTrivyVulnerability(r) ==
    LET asset == TrivyAsset(r)
    IN  {Imported(<<Or(r.id, "unknown-cve"), Or(r.pkg, "unknown-package")>>,
                  "trivy-vulnerable-package", asset.type, asset.value)}

TrivyVulnerability(r) ==
    LET asset == TrivyAsset(r)
    IN  {Imported(<<Or(r.id, "unknown-cve"), Or(r.pkg, "unknown-package"), asset.value>>,
                  "trivy-vulnerable-package", asset.type, asset.value)}

TrivyMisconfiguration(r) ==
    LET asset == TrivyAsset(r)
        check == Or(r.id, "unknown-check")
    IN  IF r.status # "FAIL" THEN {}
        ELSE {Imported(<<check, asset.value>>, check, asset.type, asset.value)}

TrivyFinding(r) ==
    IF r.class = "vulnerability" THEN TrivyVulnerability(r) ELSE TrivyMisconfiguration(r)

TrufflehogFinding(r) ==
    {Imported(<<Or(r.detector, "unknown-detector"), Or(r.commit, "unknown-commit"),
                Or(r.file, "unknown-file"), r.line>>,
              "trufflehog-verified-secret", "repo", Or(r.repository, "unknown-repo"))}

\* A component without `exported` counts as exported when it has an intent filter.
EffectivelyExported(r) ==
    \/ r.exported = "true"
    \/ r.exported = Missing /\ r.filter

ExportedComponent(r) ==
    IF r.permission # Missing \/ ~EffectivelyExported(r) THEN {}
    ELSE {Imported(<<"exported-component", r.tag, Or(r.name, "unknown-component")>>,
                   "mobile-exported-component-no-permission", "mobile_app", r.apk)}

CleartextTraffic(r) ==
    IF r.cleartext # "true" THEN {}
    ELSE {Imported(<<"cleartext-traffic-allowed">>, "mobile-cleartext-traffic-allowed",
                   "mobile_app", r.apk)}

OutdatedTargetSdkBelow == 30

TargetSdk(r) ==
    IF r.target >= OutdatedTargetSdkBelow THEN {}
    ELSE {Imported(<<"outdated-target-sdk">>, "mobile-outdated-target-sdk", "mobile_app", r.apk)}

\* Other elements of a manifest are not looked at.
ManifestFinding(r) ==
    CASE r.class = "component"   -> ExportedComponent(r)
      [] r.class = "application" -> CleartextTraffic(r)
      [] r.class = "uses-sdk"    -> TargetSdk(r)
      [] OTHER                   -> {}

FirebaseFinding(r) ==
    {Imported(<<"firebase-config", r.url>>, "mobile-exposed-firebase-config",
              "mobile_app", r.apk)}

HardcodedSecret(r) ==
    {Imported(<<"hardcoded-secret", Or(r.detector, "unknown-detector"),
                Or(r.file, "unknown-file")>>,
              "mobile-hardcoded-secret", "mobile_app", r.apk)}

MobileFinding(r) ==
    CASE r.class = "firebase" -> FirebaseFinding(r)
      [] r.class = "secret"   -> HardcodedSecret(r)
      [] OTHER                -> ManifestFinding(r)

-----------------------------------------------------------------------------
(* How a tool's run ends: whether its binary was found, with which exit    *)
(* code, and whether it left any output.  An import of a run that does not *)
(* count as one raises.                                                    *)

ToolEnds == [found : BOOLEAN, code : {0, 1}, output : BOOLEAN]

\* Prowler exits with an error when a check failed: only its report counts.
ProwlerRan(end) == end.found /\ end.output

TrivyRan(end) == end.found /\ end.output

\* No output is a clean repository, unless TruffleHog says it failed.
TrufflehogRan(end) == end.found /\ (end.code = 0 \/ end.output)

FilesystemScanRan(end) == end.found /\ (end.code = 0 \/ end.output)

\* apktool has to decode the file before anything is read from it.
ApkDecoded(end) == end.found /\ end.code = 0

-----------------------------------------------------------------------------
(* Vendors' interfaces.  An item without an identity or an asset raises.   *)

TenableRaises(r) == r.hostname = Missing /\ r.ipv4 = Missing

TenableFinding(r) ==
    LET type  == IF r.hostname # Missing THEN "subdomain" ELSE "ip"
        asset == Or(r.hostname, r.ipv4)
    IN  {Imported(<<Or(r.plugin, "unknown"), Or(r.uuid, asset)>>, Or(r.plugin, "unknown"),
                  type, asset)}

MandiantRaises(r) == r.domain = Missing /\ r.ip = Missing

MandiantFinding(r) ==
    LET type == IF r.domain # Missing THEN "subdomain" ELSE "ip"
    IN  {Imported(<<Or(r.id, r.uid)>>, Or(Or(r.issueType, r.headline), "unknown"), type,
                  Or(r.domain, r.ip))}

GenericRaises(r) == r.external_id = Missing \/ r.asset_value = Missing

GenericFinding(r) ==
    {Imported(<<r.external_id>>, Or(r.issue, "unknown"), "ip", r.asset_value)}

-----------------------------------------------------------------------------
(* Files.  A line that lacks what the format needs is skipped, and a line  *)
(* of a CSV export is identified by its position unless a column with ids  *)
(* is configured and the line has one.                                     *)

CsvFinding(r) ==
    LET ext == IF r.id # Missing THEN <<r.id>> ELSE <<"csv-row", r.row>>
    IN  IF r.asset = Missing \/ r.issue = Missing THEN {}
        ELSE {Imported(ext, r.issue, "ip", r.asset)}

NucleiFinding(r) ==
    LET matched == Or(r.matched_at, r.host)
    IN  IF matched = Missing THEN {}
        ELSE {Imported(<<Or(r.template, "unknown"), matched>>, Or(r.template, "unknown"),
                       "url", matched)}

-----------------------------------------------------------------------------
Systems == {"custom", "prowler", "trivy", "trufflehog", "mobile_static", "tenable",
            "mandiant_asm", "nuclei_json", "csv"}

Files == {"nuclei_json", "csv"}

\* Systems whose interface is asked only for what is later than a given instant.
Incremental == {"custom", "mandiant_asm"}

Tools == {"prowler", "trivy", "trufflehog", "mobile_static"}

Ran(system, decode, end) ==
    CASE system = "prowler"       -> ProwlerRan(end)
      [] system = "trivy"         -> TrivyRan(end)
      [] system = "trufflehog"    -> TrufflehogRan(end)
      [] system = "mobile_static" -> ApkDecoded(decode) /\ FilesystemScanRan(end)

Raises(system, r) ==
    CASE system = "tenable"      -> TenableRaises(r)
      [] system = "mandiant_asm" -> MandiantRaises(r)
      [] system = "custom"       -> GenericRaises(r)
      [] OTHER                   -> FALSE

Parse(system, r) ==
    CASE system = "prowler"       -> ProwlerFinding(r)
      [] system = "trivy"         -> TrivyFinding(r)
      [] system = "trufflehog"    -> TrufflehogFinding(r)
      [] system = "mobile_static" -> MobileFinding(r)
      [] system = "tenable"       -> TenableFinding(r)
      [] system = "mandiant_asm"  -> MandiantFinding(r)
      [] system = "custom"        -> GenericFinding(r)
      [] system = "nuclei_json"   -> NucleiFinding(r)
      [] system = "csv"           -> CsvFinding(r)

ParseAll(system, records) == UNION {Parse(system, r) : r \in records}
=============================================================================
