------------------------------ MODULE Revisions ------------------------------
(***************************************************************************)
(* The eighteen revisions under alembic/versions: the statements each one  *)
(* runs on the way up and on the way down.  A type is created with the     *)
(* first table of its revision that has a column of it; the migration      *)
(* context remembers it for the tables after.                              *)
(***************************************************************************)
EXTENDS Metadata, Sequences

NoTypes == [type \in {} |-> {}]

CreateTable(table, required, nullable, typed, types, unique) ==
    [op |-> "create table", table |-> table, types |-> types,
     shape |-> Table(required, nullable, typed, unique)]
DropTables(tables) == [op |-> "drop tables", tables |-> tables]
DropTypes(types) == [op |-> "drop types", types |-> types]
AddLabels(type, labels) == [op |-> "add labels", type |-> type, labels |-> labels]
AddUnique(table, columns) == [op |-> "add unique", table |-> table, columns |-> columns]
DropUnique(table, columns) == [op |-> "drop unique", table |-> table, columns |-> columns]

\* filled: a server default gives the stored rows a value.
AddColumn(table, column, required, filled) ==
    [op |-> "add column", table |-> table, column |-> column, required |-> required,
     filled |-> filled]
AddNullable(table, column) == AddColumn(table, column, FALSE, FALSE)
Fill(table, column) == [op |-> "fill", table |-> table, column |-> column]
Require(table, column) == [op |-> "require", table |-> table, column |-> column]
DropColumn(table, column) == [op |-> "drop column", table |-> table, column |-> column]
Insert(table) == [op |-> "insert", table |-> table]

-----------------------------------------------------------------------------
(* 0001 - 0002 *)

CreateAsset == CreateTable("asset",
    {"id", "type", "value", "first_seen", "last_seen", "is_active", "confidence_in_scope",
     "attributes"}, {"scope_reason"}, [type |-> "asset_type"],
    [asset_type |-> {"DOMAIN", "SUBDOMAIN", "IP", "URL", "HTTP_SERVICE", "TCP_SERVICE",
     "CLOUD_RESOURCE", "REPO", "CERT", "ASN", "NETBLOCK", "SAAS_TENANT", "MOBILE_APP",
     "LLM_ENDPOINT", "VECTOR_DB", "MCP_SERVER", "MODEL_REGISTRY", "AI_AGENT_WEBHOOK"}],
    {{"type", "value"}})
CreateExternalFindingSource == CreateTable("external_finding_source",
    {"id", "system", "config", "enabled"}, {"last_sync_at", "last_cursor"},
    [system |-> "external_finding_system"],
    [external_finding_system |-> {"MANDIANT_ASM", "QUALYS", "TENABLE", "WIZ",
     "DEFENDER_EASM", "NUCLEI_JSON", "NESSUS", "CUSTOM"}], {})
CreateModelPin == CreateTable("model_pin",
    {"id", "role", "provider", "model", "digest", "pinned_at", "pinned_by",
     "changelog_note"}, {"eval_run_id", "superseded_by"}, [role |-> "model_pin_role"],
    [model_pin_role |-> {"BULK", "ESCALATION", "EMBEDDING"}], {})
CreateScanRun == CreateTable("scan_run",
    {"id", "started_at", "status", "scope_hash", "config_hash", "trigger"},
    {"finished_at"}, [status |-> "scan_run_status", trigger |-> "scan_trigger"],
    [scan_run_status |-> {"PENDING", "RUNNING", "COMPLETED", "FAILED", "CANCELLED"},
     scan_trigger |-> {"MANUAL", "SCHEDULED", "WEBHOOK", "EVENT"}], {})
CreateAssetEdge == CreateTable("asset_edge",
    {"id", "src_asset_id", "dst_asset_id", "relation", "confidence", "discovered_by",
     "first_seen", "last_seen"}, {}, [relation |-> "asset_edge_relation"],
    [asset_edge_relation |-> {"RESOLVES_TO", "HOSTED_ON", "SERVES", "REDIRECTS_TO",
     "CNAME_TO", "ISSUED_FOR", "OWNED_BY", "DEPLOYED_FROM", "SAME_ORG_AS"}], {})
CreateAssetSnapshot == CreateTable("asset_snapshot",
    {"id", "scan_run_id", "asset_id", "state_hash", "state", "observed_at"}, {}, Untyped,
    NoTypes, {})
CreateChangeEvent == CreateTable("change_event",
    {"id", "scan_run_id", "asset_id", "kind", "occurred_at"},
    {"before", "after", "severity_hint"},
    [kind |-> "change_event_kind", severity_hint |-> "severity"],
    [change_event_kind |-> {"ASSET_NEW", "ASSET_GONE", "PORT_OPENED", "PORT_CLOSED",
     "TECH_CHANGED", "DECOMMISSION_CANDIDATE", "CERT_CHANGED", "DNS_CHANGED",
     "TAKEOVER_RISK", "AUTH_REMOVED", "WENT_PUBLIC", "CONTENT_CHANGED"},
     severity |-> {"CRITICAL", "HIGH", "MEDIUM", "LOW", "INFO"}], {})
CreateEvidence == CreateTable("evidence",
    {"id", "scan_run_id", "asset_id", "kind", "source_tool", "collected_at",
     "content_hash", "redacted"}, {"content_ref", "content_inline", "size_bytes"},
    [kind |-> "evidence_kind"],
    [evidence_kind |-> {"HTTP_RESPONSE", "TLS_CERT", "DNS_RECORD", "PORT_BANNER",
     "SCREENSHOT", "NUCLEI_RESULT", "GIT_SECRET", "CLOUD_CONFIG", "WHOIS", "ASN_RECORD",
     "FAVICON_HASH", "JS_ENDPOINT", "VERIFICATION_RESULT"}], {})
CreateFinding == CreateTable("finding",
    {"id", "scan_run_id", "asset_id", "category_id", "raw_severity", "title", "detector",
     "fingerprint", "status", "first_seen", "last_seen"},
    {"description", "detector_ref", "cluster_id", "resolved_at"},
    [raw_severity |-> "severity", detector |-> "finding_detector",
     status |-> "finding_status"],
    [finding_detector |-> {"RULE", "NUCLEI", "LLM", "MANUAL"}, finding_status |-> {"NEW",
     "TRIAGING", "TRIAGED", "ROUTED", "ACCEPTED_RISK", "VERIFICATION_PENDING", "FIXED",
     "REGRESSED", "SUPPRESSED"}], {{"fingerprint"}})
CreateOwnership == CreateTable("ownership",
    {"id", "asset_id", "owner_type", "owner_ref", "source", "confidence",
     "verified_by_human"}, {"manager_ref", "evidence_note"},
    [owner_type |-> "owner_type", source |-> "ownership_source"],
    [owner_type |-> {"USER", "TEAM"}, ownership_source |-> {"CLOUD_TAG", "IAC",
     "CODEOWNERS", "DNS_AUDIT", "INFERENCE", "MANUAL"}], {})
CreateApproval == CreateTable("approval",
    {"id", "finding_id", "draft_kind", "rendered_body", "target_cc", "status"},
    {"rendered_subject", "target_assignee", "reviewer", "reviewed_at", "edit_diff",
     "sent_at", "external_key"},
    [draft_kind |-> "approval_draft_kind", status |-> "approval_status"],
    [approval_draft_kind |-> {"TICKET", "EMAIL", "SLACK", "COMMENT"},
     approval_status |-> {"PENDING", "APPROVED", "EDITED", "REJECTED", "EXPIRED"}], {})
CreateControl == CreateTable("control",
    {"id", "asset_id", "control_id", "detected_by", "detected_at"}, {"evidence_id"},
    Untyped, NoTypes, {})
CreateExternalFindingRaw == CreateTable("external_finding_raw",
    {"id", "source_id", "external_id", "payload", "ingested_at", "mapping_status"},
    {"mapped_finding_id", "mapping_notes"}, Untyped, NoTypes,
    {{"source_id", "external_id"}})
CreateFindingEvidence == CreateTable("finding_evidence",
    {"finding_id", "evidence_id", "role"}, {}, [role |-> "finding_evidence_role"],
    [finding_evidence_role |-> {"PRIMARY", "SUPPORTING", "CONTEXT"}], {})
CreateHumanReview == CreateTable("human_review",
    {"id", "finding_id", "reviewer", "agreed_with_model", "final_verdict", "rationale",
     "created_at", "promote_to_rule"}, {}, [final_verdict |-> "verdict_value"],
    [verdict_value |-> {"TRUE_POSITIVE", "FALSE_POSITIVE", "NOT_EXPLOITABLE",
     "NEEDS_HUMAN"}], {})
CreateIdentifierVerification == CreateTable("identifier_verification",
    {"id", "finding_id", "kind", "claimed_value", "source", "resolved", "status",
     "checked_at"}, {"authority", "resolved_value"},
    [kind |-> "identifier_kind", source |-> "identifier_source",
     authority |-> "identifier_authority", status |-> "identifier_status"],
    [identifier_kind |-> {"CVE", "CVSS_VECTOR", "VERSION", "HOSTNAME", "PACKAGE", "CWE"},
     identifier_source |-> {"EVIDENCE", "MODEL"}, identifier_authority |-> {"NVD", "KEV",
     "OSV", "DNS", "EVIDENCE"}, identifier_status |-> {"VERIFIED", "NOT_FOUND",
     "MISMATCH", "HALLUCINATED"}], {})
CreateLlmCallLog == CreateTable("llm_call_log",
    {"id", "purpose", "provider", "model", "prompt_version", "system_prompt_hash",
     "messages", "refused", "tokens_in", "tokens_out", "cost_usd", "latency_ms",
     "created_at"},
    {"scan_run_id", "finding_id", "model_digest", "raw_response", "refusal_reason",
     "retry_of_id"}, [purpose |-> "llm_call_purpose"],
    [llm_call_purpose |-> {"ADJUDICATE", "VERIFY_PLAN", "OWNERSHIP", "REMEDIATION"}], {})
CreateTicket == CreateTable("ticket",
    {"id", "finding_id", "system", "cc", "status", "created_at"},
    {"external_key", "assignee", "sla_due_at"}, [system |-> "ticket_system"],
    [ticket_system |-> {"JIRA", "LINEAR", "GITHUB", "SERVICENOW"}], {})
CreateVerdict == CreateTable("verdict",
    {"id", "finding_id", "model", "model_version", "prompt_version", "pass_type",
     "verdict", "confidence", "adjusted_severity", "reasoning", "citations",
     "compensating_controls", "input_hash", "tokens_in", "tokens_out", "cost_usd",
     "latency_ms", "created_at"}, {"exploitability", "remediation"},
    [pass_type |-> "verdict_pass_type", verdict |-> "verdict_value",
     adjusted_severity |-> "severity"], [verdict_pass_type |-> {"BULK", "ESCALATION"}], {})

Upgrade0001 ==
    <<CreateAsset, CreateExternalFindingSource, CreateModelPin, CreateScanRun,
      CreateAssetEdge, CreateAssetSnapshot, CreateChangeEvent, CreateEvidence,
      CreateFinding, CreateOwnership, CreateApproval, CreateControl,
      CreateExternalFindingRaw, CreateFindingEvidence, CreateHumanReview,
      CreateIdentifierVerification, CreateLlmCallLog, CreateTicket, CreateVerdict>>

\* The types stay behind.
Downgrade0001 ==
    <<DropTables({"verdict", "ticket", "llm_call_log", "identifier_verification",
                  "human_review", "finding_evidence", "external_finding_raw", "control",
                  "approval", "ownership", "finding", "evidence", "change_event",
                  "asset_snapshot", "asset_edge", "scan_run", "model_pin",
                  "external_finding_source", "asset"})>>

CreateAuditLog == CreateTable("audit_log",
    {"id", "tool", "target", "is_active", "decision", "reason", "occurred_at"},
    {"scan_run_id"}, [decision |-> "scope_decision"],
    [scope_decision |-> {"ALLOW", "DENY", "REQUIRES_CONFIRM"}], {})
Upgrade0002 == <<CreateAuditLog>>
Downgrade0002 == <<DropTables({"audit_log"})>>

-----------------------------------------------------------------------------
(* 0003 - 0010 *)

Upgrade0003 ==
    <<AddLabels("ownership_source", {"TEAM_PATTERN", "GIT_BLAME", "SIBLING_ASSET"}),
      AddUnique("ownership", {"asset_id", "source"})>>
Downgrade0003 == <<DropUnique("ownership", {"asset_id", "source"})>>

Upgrade0004 == <<AddUnique("control", {"asset_id", "control_id"})>>
Downgrade0004 == <<DropUnique("control", {"asset_id", "control_id"})>>

Upgrade0005 ==
    <<AddNullable("human_review", "embedding"),
      AddColumn("evidence", "injection_suspected", TRUE, TRUE)>>
Downgrade0005 ==
    <<DropColumn("evidence", "injection_suspected"), DropColumn("human_review", "embedding")>>

Upgrade0006 == <<AddNullable("audit_log", "finding_id")>>
Downgrade0006 == <<DropColumn("audit_log", "finding_id")>>

Upgrade0007 ==
    <<AddLabels("evidence_kind", {"EXTERNAL_FINDING"}),
      AddLabels("finding_detector", {"EXTERNAL"}),
      AddLabels("scan_trigger", {"INGEST"})>>

\* The default only serves the rows already there: it is dropped right after.
Upgrade0008 == <<AddColumn("verdict", "business_impact_hypothesis", TRUE, TRUE)>>
Downgrade0008 == <<DropColumn("verdict", "business_impact_hypothesis")>>

Upgrade0009 == <<AddLabels("ticket_system", {"WEBHOOK"})>>
Upgrade0010 == <<AddLabels("asset_type", {"NOTEBOOK", "AI_APP", "AI_SAAS_TENANT"})>>

\* ALTER TYPE has no DROP VALUE: 0007, 0009, 0010 and 0014 to 0017 undo nothing.
LabelsStay == <<>>

-----------------------------------------------------------------------------
(* 0011 - 0018 *)

CreateOrganization == CreateTable("organization",
    {"id", "name", "slug", "relationship", "active_scanning_allowed", "created_at",
     "created_by"}, {"parent_org_id", "legal_entity_name", "country", "authorization_id"},
    [relationship |-> "org_relationship"],
    [org_relationship |-> {"SELF", "SUBSIDIARY", "ACQUISITION", "BRAND", "THIRD_PARTY",
     "PROSPECT"}], {{"slug"}})
CreateSeed == CreateTable("seed",
    {"id", "org_id", "kind", "value", "scope_action", "verified", "added_by", "added_at"},
    {"active_scan_allowed", "note", "disabled_at"},
    [kind |-> "seed_kind", scope_action |-> "scope_action"],
    [seed_kind |-> {"APEX_DOMAIN", "WILDCARD", "SUBDOMAIN", "URL", "IP", "CIDR", "ASN",
     "CLOUD_ACCOUNT", "GITHUB_ORG", "SAAS_TENANT", "BRAND_TERM", "EMAIL_DOMAIN"},
     scope_action |-> {"INCLUDE", "EXCLUDE"}], {})
CreateExclusion == CreateTable("exclusion",
    {"id", "kind", "value", "reason", "source", "created_at"}, {"org_id"},
    [kind |-> "seed_kind", source |-> "exclusion_source"],
    [exclusion_source |-> {"SHIPPED_DEFAULT", "USER", "AUTO_CDN", "AUTO_SHARED_HOST"}], {})
Upgrade0011 == <<CreateOrganization, CreateSeed, CreateExclusion>>

\* Mutant: the types stay behind, as those of 0001 and 0002 do.
Downgrade0011Orphaning == <<DropTables({"exclusion", "seed", "organization"})>>

Downgrade0011 ==
    <<DropTables({"exclusion", "seed", "organization"}),
      DropTypes({"exclusion_source", "scope_action", "seed_kind", "org_relationship"})>>

Upgrade0012 ==
    <<AddNullable("model_pin", "endpoint_url"), AddNullable("model_pin", "credential_ref")>>
Downgrade0012 ==
    <<DropColumn("model_pin", "credential_ref"), DropColumn("model_pin", "endpoint_url")>>

Upgrade0013 ==
    <<AddNullable("external_finding_source", "name"),
      Fill("external_finding_source", "name"),
      Require("external_finding_source", "name")>>
Downgrade0013 == <<DropColumn("external_finding_source", "name")>>

Upgrade0014 == <<AddLabels("external_finding_system", {"PROWLER"})>>
Upgrade0015 ==
    <<AddLabels("asset_type", {"CONTAINER_IMAGE", "K8S_CLUSTER", "K8S_WORKLOAD"}),
      AddLabels("external_finding_system", {"TRIVY"})>>
Upgrade0016 == <<AddLabels("external_finding_system", {"TRUFFLEHOG"})>>
Upgrade0017 == <<AddLabels("external_finding_system", {"MOBILE_STATIC"})>>

CreateModuleToggle == CreateTable("module_toggle",
    {"module_key", "enabled", "updated_at"}, {}, Untyped, NoTypes, {})
Upgrade0018 == <<CreateModuleToggle, Insert("module_toggle")>>
Downgrade0018 == <<DropTables({"module_toggle"})>>

-----------------------------------------------------------------------------
Upgrades ==
    <<Upgrade0001, Upgrade0002, Upgrade0003, Upgrade0004, Upgrade0005, Upgrade0006,
      Upgrade0007, Upgrade0008, Upgrade0009, Upgrade0010, Upgrade0011, Upgrade0012,
      Upgrade0013, Upgrade0014, Upgrade0015, Upgrade0016, Upgrade0017, Upgrade0018>>
Downgrades ==
    <<Downgrade0001, Downgrade0002, Downgrade0003, Downgrade0004, Downgrade0005,
      Downgrade0006, LabelsStay, Downgrade0008, LabelsStay, LabelsStay, Downgrade0011,
      Downgrade0012, Downgrade0013, LabelsStay, LabelsStay, LabelsStay, LabelsStay,
      Downgrade0018>>
Latest == Len(Upgrades)
===============================================================================
