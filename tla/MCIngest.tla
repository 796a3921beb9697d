------------------------------ MODULE MCIngest ------------------------------
(* Instances of Ingest: a source of any system beside a generic one.       *)
EXTENDS Ingest, TLC

CONSTANTS vendor, generic

Prowler(status, uid) ==
    [status_code |-> status, event_code |-> "s3-public", info_uid |-> "", uid |-> uid, name |-> ""]

Component(name, exported, filter) ==
    [class |-> "component", tag |-> "activity", name |-> name, exported |-> exported,
     filter |-> filter, permission |-> "", apk |-> "app"]

\* For each system, reports that share an identity field, pass, or are malformed.
MCReportable == [sys \in Systems |->
    CASE sys = "prowler" -> {Prowler("FAIL", "r1"), Prowler("FAIL", "r2"), Prowler("PASS", "r2")}
      [] sys = "trivy" ->
           {[class |-> "vulnerability", id |-> "cve", pkg |-> "ssl", status |-> "",
             k8s |-> TRUE, workload |-> w, artifact |-> "cluster"] : w \in {"w1", "w2", ""}}
           \cup {[class |-> "misconfiguration", id |-> "ksv", pkg |-> "", status |-> "FAIL",
                  k8s |-> TRUE, workload |-> "w1", artifact |-> "cluster"]}
      [] sys = "trufflehog" ->
           {[detector |-> "aws", commit |-> c, file |-> "f", line |-> 1, repository |-> "repo"] :
                c \in {"c1", "c2"}}
      [] sys = "mobile_static" ->
           {Component("main", "", TRUE), Component("main", "false", TRUE),
            [class |-> "firebase", url |-> "u", apk |-> "app"]}
      [] sys = "tenable" ->
           {[plugin |-> "p", uuid |-> u, hostname |-> h, ipv4 |-> ""] :
                u \in {"u1"}, h \in {"", "h1"}}
           \cup {[plugin |-> "p", uuid |-> "", hostname |-> "", ipv4 |-> "H1"]}
      [] sys = "mandiant_asm" ->
           {[id |-> i, uid |-> "", issueType |-> "open-db", headline |-> "", domain |-> "h1",
             ip |-> ""] : i \in {"m1", "m2"}}
      [] sys = "custom" ->
           {[external_id |-> x, issue |-> "open-db", asset_value |-> "h1"] : x \in {"x1", "x2"}}
           \cup {[external_id |-> "x3", issue |-> "other", asset_value |-> ""]}
      [] sys = "nuclei_json" ->
           {[template |-> "open-db", matched_at |-> "", host |-> h] : h \in {"h1", ""}}
      [] sys = "csv" ->
           {[row |-> 0, id |-> "", asset |-> a, issue |-> "open-db"] : a \in {"h1", "h2"}}
           \cup {[row |-> 1, id |-> "c1", asset |-> "h1", issue |-> "open-db"]}]

ASSUME IdentityAssumption == VendorIdsAreStable

MCSpelling == [v \in {"H1"} |-> "h1"]

Category(enabled, granularity) ==
    [enabled |-> enabled, granularity |-> granularity,
     applies_to |-> {"cloud_resource", "k8s_workload", "container_image", "repo",
                     "mobile_app", "subdomain", "ip"}]

Context(enabled) ==
    [mapping |-> ("s3-public" :> "exposure" @@ "open-db" :> "exposure" @@ "p" :> "exposure"
                  @@ "trivy-vulnerable-package" :> "bucket" @@ "ksv" :> "removed"
                  @@ "trufflehog-verified-secret" :> "bucket"
                  @@ "mobile-exported-component-no-permission" :> "bucket"),
     categories |-> ("exposure" :> Category(enabled, "one_per_asset")
                     @@ "bucket" :> Category(TRUE, "one_per_vendor_finding"))]

MCOrgs == {Context(TRUE), Context(FALSE)}

\* kiyooo's own detection reports the exposure of h1 as well.
MCDetectable == {Fingerprint("exposure", [type |-> "ip", asset |-> "h1"], <<>>)}

MCInit == Init /\ system[generic] = "custom" /\ org = Context(TRUE)

\* Every system is imported; beside one of them org-context is edited, beside
\* another a worker runs.
MCNext ==
    /\ Next
    /\ system[vendor] # "trivy" => edits' = edits
    /\ system[vendor] # "tenable" => chain' = chain

MCSpec == MCInit /\ [][MCNext]_vars

Symmetry == Permutations(Jobs)
=============================================================================
