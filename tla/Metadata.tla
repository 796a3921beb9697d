------------------------------- MODULE Metadata -------------------------------
(***************************************************************************)
(* The tables and enum types kiyooo/db/models.py declares: what the        *)
(* program of this commit reads and writes.  Of a column, its name,        *)
(* whether it may be null and the enum type it has; of a table, the        *)
(* column sets that are unique.  Widths, defaults, foreign keys and plain  *)
(* indexes are left out.  SQLAlchemy names an enum's labels after the      *)
(* members of the Python class, not after their values.                    *)
(***************************************************************************)

Table(required, nullable, typed, unique) ==
    [required |-> required, nullable |-> nullable, typed |-> typed, unique |-> unique]

Untyped == [column \in {} |-> ""]

-----------------------------------------------------------------------------
(* Enum types *)

ScanRunStatus == {"PENDING", "RUNNING", "COMPLETED", "FAILED", "CANCELLED"}
ScanTrigger == {"MANUAL", "SCHEDULED", "WEBHOOK", "EVENT", "INGEST"}
AssetType == {"DOMAIN", "SUBDOMAIN", "IP", "URL", "HTTP_SERVICE", "TCP_SERVICE",
              "CLOUD_RESOURCE", "REPO", "CERT", "ASN", "NETBLOCK", "SAAS_TENANT",
              "MOBILE_APP", "LLM_ENDPOINT", "VECTOR_DB", "MCP_SERVER", "MODEL_REGISTRY",
              "AI_AGENT_WEBHOOK", "NOTEBOOK", "AI_APP", "AI_SAAS_TENANT",
              "CONTAINER_IMAGE", "K8S_CLUSTER", "K8S_WORKLOAD"}
AssetEdgeRelation == {"RESOLVES_TO", "HOSTED_ON", "SERVES", "REDIRECTS_TO", "CNAME_TO",
                      "ISSUED_FOR", "OWNED_BY", "DEPLOYED_FROM", "SAME_ORG_AS"}
ChangeEventKind == {"ASSET_NEW", "ASSET_GONE", "PORT_OPENED", "PORT_CLOSED",
                    "TECH_CHANGED", "DECOMMISSION_CANDIDATE", "CERT_CHANGED",
                    "DNS_CHANGED", "TAKEOVER_RISK", "AUTH_REMOVED", "WENT_PUBLIC",
                    "CONTENT_CHANGED"}
Severity == {"CRITICAL", "HIGH", "MEDIUM", "LOW", "INFO"}
EvidenceKind == {"HTTP_RESPONSE", "TLS_CERT", "DNS_RECORD", "PORT_BANNER", "SCREENSHOT",
                 "NUCLEI_RESULT", "GIT_SECRET", "CLOUD_CONFIG", "WHOIS", "ASN_RECORD",
                 "FAVICON_HASH", "JS_ENDPOINT", "VERIFICATION_RESULT", "EXTERNAL_FINDING"}
FindingDetector == {"RULE", "NUCLEI", "LLM", "MANUAL", "EXTERNAL"}
FindingStatus == {"NEW", "TRIAGING", "TRIAGED", "ROUTED", "ACCEPTED_RISK",
                  "VERIFICATION_PENDING", "FIXED", "REGRESSED", "SUPPRESSED"}
FindingEvidenceRole == {"PRIMARY", "SUPPORTING", "CONTEXT"}
VerdictPassType == {"BULK", "ESCALATION"}
VerdictValue == {"TRUE_POSITIVE", "FALSE_POSITIVE", "NOT_EXPLOITABLE", "NEEDS_HUMAN"}
OwnerType == {"USER", "TEAM"}
OwnershipSource == {"CLOUD_TAG", "IAC", "CODEOWNERS", "DNS_AUDIT", "TEAM_PATTERN",
                    "GIT_BLAME", "SIBLING_ASSET", "INFERENCE", "MANUAL"}
TicketSystem == {"JIRA", "LINEAR", "GITHUB", "SERVICENOW", "WEBHOOK"}
ExternalFindingSystem == {"MANDIANT_ASM", "QUALYS", "TENABLE", "WIZ", "DEFENDER_EASM",
                          "NUCLEI_JSON", "NESSUS", "CUSTOM", "PROWLER", "TRIVY",
                          "TRUFFLEHOG", "MOBILE_STATIC"}
ApprovalDraftKind == {"TICKET", "EMAIL", "SLACK", "COMMENT"}
ApprovalStatus == {"PENDING", "APPROVED", "EDITED", "REJECTED", "EXPIRED"}
LlmCallPurpose == {"ADJUDICATE", "VERIFY_PLAN", "OWNERSHIP", "REMEDIATION"}
IdentifierKind == {"CVE", "CVSS_VECTOR", "VERSION", "HOSTNAME", "PACKAGE", "CWE"}
IdentifierSource == {"EVIDENCE", "MODEL"}
IdentifierAuthority == {"NVD", "KEV", "OSV", "DNS", "EVIDENCE"}
IdentifierStatus == {"VERIFIED", "NOT_FOUND", "MISMATCH", "HALLUCINATED"}
ModelPinRole == {"BULK", "ESCALATION", "EMBEDDING"}
ScopeDecision == {"ALLOW", "DENY", "REQUIRES_CONFIRM"}
OrgRelationship == {"SELF", "SUBSIDIARY", "ACQUISITION", "BRAND", "THIRD_PARTY",
                    "PROSPECT"}
SeedKind == {"APEX_DOMAIN", "WILDCARD", "SUBDOMAIN", "URL", "IP", "CIDR", "ASN",
             "CLOUD_ACCOUNT", "GITHUB_ORG", "SAAS_TENANT", "BRAND_TERM", "EMAIL_DOMAIN"}
ScopeAction == {"INCLUDE", "EXCLUDE"}
ExclusionSource == {"SHIPPED_DEFAULT", "USER", "AUTO_CDN", "AUTO_SHARED_HOST"}

-----------------------------------------------------------------------------
(* Tables *)

ScanRun == Table(
    {"id", "started_at", "status", "scope_hash", "config_hash", "trigger"},
    {"finished_at"}, [status |-> "scan_run_status", trigger |-> "scan_trigger"], {})
Asset == Table(
    {"id", "type", "value", "first_seen", "last_seen", "is_active", "confidence_in_scope",
     "attributes"}, {"scope_reason"}, [type |-> "asset_type"], {{"type", "value"}})
AssetEdge == Table(
    {"id", "src_asset_id", "dst_asset_id", "relation", "confidence", "discovered_by",
     "first_seen", "last_seen"}, {}, [relation |-> "asset_edge_relation"], {})
AssetSnapshot == Table(
    {"id", "scan_run_id", "asset_id", "state_hash", "state", "observed_at"}, {}, Untyped,
    {})
ChangeEvent == Table(
    {"id", "scan_run_id", "asset_id", "kind", "occurred_at"},
    {"before", "after", "severity_hint"},
    [kind |-> "change_event_kind", severity_hint |-> "severity"], {})
Evidence == Table(
    {"id", "scan_run_id", "asset_id", "kind", "source_tool", "collected_at",
     "content_hash", "redacted", "injection_suspected"},
    {"content_ref", "content_inline", "size_bytes"}, [kind |-> "evidence_kind"], {})
Finding == Table(
    {"id", "scan_run_id", "asset_id", "category_id", "raw_severity", "title", "detector",
     "fingerprint", "status", "first_seen", "last_seen"},
    {"description", "detector_ref", "cluster_id", "resolved_at"},
    [raw_severity |-> "severity", detector |-> "finding_detector",
     status |-> "finding_status"], {{"fingerprint"}})
FindingEvidence == Table(
    {"finding_id", "evidence_id", "role"}, {}, [role |-> "finding_evidence_role"], {})
Verdict == Table(
    {"id", "finding_id", "model", "model_version", "prompt_version", "pass_type",
     "verdict", "confidence", "adjusted_severity", "reasoning",
     "business_impact_hypothesis", "citations", "compensating_controls", "input_hash",
     "tokens_in", "tokens_out", "cost_usd", "latency_ms", "created_at"},
    {"exploitability", "remediation"},
    [pass_type |-> "verdict_pass_type", verdict |-> "verdict_value",
     adjusted_severity |-> "severity"], {})
HumanReview == Table(
    {"id", "finding_id", "reviewer", "agreed_with_model", "final_verdict", "rationale",
     "created_at", "promote_to_rule"}, {"embedding"}, [final_verdict |-> "verdict_value"],
    {})
Ownership == Table(
    {"id", "asset_id", "owner_type", "owner_ref", "source", "confidence",
     "verified_by_human"}, {"manager_ref", "evidence_note"},
    [owner_type |-> "owner_type", source |-> "ownership_source"], {{"asset_id", "source"}})
Control == Table(
    {"id", "asset_id", "control_id", "detected_by", "detected_at"}, {"evidence_id"},
    Untyped, {{"asset_id", "control_id"}})
Ticket == Table(
    {"id", "finding_id", "system", "cc", "status", "created_at"},
    {"external_key", "assignee", "sla_due_at"}, [system |-> "ticket_system"], {})
ExternalFindingSource == Table(
    {"id", "name", "system", "config", "enabled"}, {"last_sync_at", "last_cursor"},
    [system |-> "external_finding_system"], {})
ExternalFindingRaw == Table(
    {"id", "source_id", "external_id", "payload", "ingested_at", "mapping_status"},
    {"mapped_finding_id", "mapping_notes"}, Untyped, {{"source_id", "external_id"}})
Approval == Table(
    {"id", "finding_id", "draft_kind", "rendered_body", "target_cc", "status"},
    {"rendered_subject", "target_assignee", "reviewer", "reviewed_at", "edit_diff",
     "sent_at", "external_key"},
    [draft_kind |-> "approval_draft_kind", status |-> "approval_status"], {})
LlmCallLog == Table(
    {"id", "purpose", "provider", "model", "prompt_version", "system_prompt_hash",
     "messages", "refused", "tokens_in", "tokens_out", "cost_usd", "latency_ms",
     "created_at"},
    {"scan_run_id", "finding_id", "model_digest", "raw_response", "refusal_reason",
     "retry_of_id"}, [purpose |-> "llm_call_purpose"], {})
IdentifierVerification == Table(
    {"id", "finding_id", "kind", "claimed_value", "source", "resolved", "status",
     "checked_at"}, {"authority", "resolved_value"},
    [kind |-> "identifier_kind", source |-> "identifier_source",
     authority |-> "identifier_authority", status |-> "identifier_status"], {})
ModelPin == Table(
    {"id", "role", "provider", "model", "digest", "pinned_at", "pinned_by",
     "changelog_note"},
    {"endpoint_url", "credential_ref", "eval_run_id", "superseded_by"},
    [role |-> "model_pin_role"], {})
ModuleToggle == Table({"module_key", "enabled", "updated_at"}, {}, Untyped, {})
AuditLog == Table(
    {"id", "tool", "target", "is_active", "decision", "reason", "occurred_at"},
    {"scan_run_id", "finding_id"}, [decision |-> "scope_decision"], {})
Organization == Table(
    {"id", "name", "slug", "relationship", "active_scanning_allowed", "created_at",
     "created_by"}, {"parent_org_id", "legal_entity_name", "country", "authorization_id"},
    [relationship |-> "org_relationship"], {{"slug"}})
Seed == Table(
    {"id", "org_id", "kind", "value", "scope_action", "verified", "added_by", "added_at"},
    {"active_scan_allowed", "note", "disabled_at"},
    [kind |-> "seed_kind", scope_action |-> "scope_action"], {})
Exclusion == Table(
    {"id", "kind", "value", "reason", "source", "created_at"}, {"org_id"},
    [kind |-> "seed_kind", source |-> "exclusion_source"], {})

DeclaredTables == [scan_run |-> ScanRun, asset |-> Asset, asset_edge |-> AssetEdge,
             asset_snapshot |-> AssetSnapshot, change_event |-> ChangeEvent,
             evidence |-> Evidence, finding |-> Finding,
             finding_evidence |-> FindingEvidence, verdict |-> Verdict,
             human_review |-> HumanReview, ownership |-> Ownership, control |-> Control,
             ticket |-> Ticket, external_finding_source |-> ExternalFindingSource,
             external_finding_raw |-> ExternalFindingRaw, approval |-> Approval,
             llm_call_log |-> LlmCallLog,
             identifier_verification |-> IdentifierVerification, model_pin |-> ModelPin,
             module_toggle |-> ModuleToggle, audit_log |-> AuditLog,
             organization |-> Organization, seed |-> Seed, exclusion |-> Exclusion]

DeclaredTypes == [scan_run_status |-> ScanRunStatus, scan_trigger |-> ScanTrigger,
                  asset_type |-> AssetType, asset_edge_relation |-> AssetEdgeRelation,
                  change_event_kind |-> ChangeEventKind, severity |-> Severity,
                  evidence_kind |-> EvidenceKind, finding_detector |-> FindingDetector,
                  finding_status |-> FindingStatus,
                  finding_evidence_role |-> FindingEvidenceRole,
                  verdict_pass_type |-> VerdictPassType, verdict_value |-> VerdictValue,
                  owner_type |-> OwnerType, ownership_source |-> OwnershipSource,
                  ticket_system |-> TicketSystem,
                  external_finding_system |-> ExternalFindingSystem,
                  approval_draft_kind |-> ApprovalDraftKind,
                  approval_status |-> ApprovalStatus,
                  llm_call_purpose |-> LlmCallPurpose,
                  identifier_kind |-> IdentifierKind,
                  identifier_source |-> IdentifierSource,
                  identifier_authority |-> IdentifierAuthority,
                  identifier_status |-> IdentifierStatus,
                  model_pin_role |-> ModelPinRole, scope_decision |-> ScopeDecision,
                  org_relationship |-> OrgRelationship, seed_kind |-> SeedKind,
                  scope_action |-> ScopeAction, exclusion_source |-> ExclusionSource]
===============================================================================
