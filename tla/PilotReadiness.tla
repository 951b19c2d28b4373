---------------------------- MODULE PilotReadiness ----------------------------
(* The go/no-go gate of a pilot profile (services/pilot_readiness.py): the   *)
(* findings of its validation, the gates of its report, and the decision.    *)
(* Pure operators on a profile.                                              *)
EXTENDS FiniteSets

CONSTANT Demanded   \* the pilot_readiness_require_* settings that are on

Demands == {"dmsa_onboarding", "sandbox_smoke", "admin_auth", "storage_review",
            "migration_safety", "support_diagnostics", "rollback_plan",
            "webhook_review", "operator_approvals"}

ASSUME DemandAssumption == Demanded \subseteq Demands

EvidenceStatus == {"passed", "failed", "needs_review", "not_applicable", "missing"}

(* The status fields of a profile that come with an evidence reference, with *)
(* the setting that demands each; the last four are always demanded.         *)
DemandedBy ==
    [dmsa_onboarding      |-> "dmsa_onboarding",
     gc_owner_permission  |-> "dmsa_onboarding",
     private_app_install  |-> "dmsa_onboarding",
     sandbox_smoke        |-> "sandbox_smoke",
     storage_review       |-> "storage_review",
     migration_safety     |-> "migration_safety",
     support_diagnostics  |-> "support_diagnostics",
     rollback_plan        |-> "rollback_plan",
     backup_plan          |-> "rollback_plan",
     customer_profile     |-> "always",
     incident_response    |-> "always",
     data_handling        |-> "always",
     project_scope        |-> "always"]

Referenced == DOMAIN DemandedBy
Webhooks   == {"webhook_docs", "webhook_signature", "webhook_verification"}
Approvals  == {"customer_approval", "internal_approval"}

Fields == Referenced \cup Webhooks \cup Approvals
              \cup {"admin_auth", "secret_provider", "database_migration",
                    "support_redaction", "monitoring_plan"}

Profile ==
    [status     : [Fields -> EvidenceStatus],
     ref        : [Fields -> {"none", "placeholder", "other"}],
     pilotLike  : BOOLEAN,      \* environment is not local
     localOnly  : BOOLEAN,      \* local_only_dry_run
     tokenAdmin : BOOLEAN,      \* admin_auth_mode is token_required
     stubs      : SUBSET {"secret", "storage"},   \* external_placeholder kinds
     localDb    : BOOLEAN,      \* database_profile is sqlite or local
     webhooks   : BOOLEAN,      \* webhooks_planned
     limited    : BOOLEAN,      \* known_limitations is not empty
     unsafe     : BOOLEAN]      \* any finding with one of the safety codes

Passed(p, fields) == \A f \in fields : p.status[f] = "passed"

(* _check_ref of one field.                                                  *)
RefFinding(p, f) ==
    \/ p.status[f] # "passed"
    \/ p.ref[f] # "placeholder"

SmokeExcused(p) ==
    p.localOnly /\ ~p.pilotLike /\ p.status["sandbox_smoke"] = "not_applicable"

RequiredFields(p) ==
    {f \in Referenced :
        /\ DemandedBy[f] \in Demanded \cup {"always"}
        /\ f = "sandbox_smoke" => ~SmokeExcused(p)}

(* Mutant: a verified webhook is taken for a reviewed one.                   *)
VerificationIsEnough(p) ==
    /\ p.webhooks
    /\ "webhook_review" \in Demanded
    /\ RefFinding(p, "webhook_verification")

WebhookFinding(p) ==
    /\ p.webhooks
    /\ "webhook_review" \in Demanded
    /\ ~Passed(p, Webhooks) \/ RefFinding(p, "webhook_verification")

(* The parts of the validation after the references.                         *)
PostureFinding(p) ==
    \/ "admin_auth" \in Demanded /\ p.pilotLike
          /\ ~(Passed(p, {"admin_auth"}) /\ p.tokenAdmin)
    \/ ~Passed(p, {"secret_provider", "storage_review"})
    \/ p.stubs # {}
    \/ "migration_safety" \in Demanded
          /\ ~Passed(p, {"database_migration", "migration_safety"})
    \/ p.pilotLike /\ ~p.localOnly /\ p.localDb
    \/ "sandbox_smoke" \in Demanded
          /\ ~Passed(p, {"sandbox_smoke"}) /\ ~SmokeExcused(p)
    \/ "support_diagnostics" \in Demanded
          /\ ~Passed(p, {"support_diagnostics", "support_redaction"})
    \/ WebhookFinding(p)
    \/ "operator_approvals" \in Demanded
          /\ \E a \in Approvals : p.status[a] # "passed" \/ p.ref[a] = "none"

Blocking(p) == PostureFinding(p) \/ \E f \in RequiredFields(p) : RefFinding(p, f)

Warning(p) == p.status["monitoring_plan"] = "needs_review" \/ p.limited

Decision(p) ==
    IF p.unsafe THEN "BLOCKED"
    ELSE IF Blocking(p) THEN "NO_GO"
    ELSE IF Warning(p) THEN "NEEDS_REVIEW"
    ELSE "GO"

(* The gates of the report and the fields each looks at.                     *)
GateFields ==
    [customer_deployment_profile |-> {"customer_profile"},
     dmsa_onboarding      |-> {"dmsa_onboarding", "gc_owner_permission",
                               "private_app_install"},
     admin_authentication |-> {"admin_auth"},
     secret_provider      |-> {"secret_provider"},
     database_migration   |-> {"database_migration", "migration_safety"},
     attachment_storage   |-> {"storage_review"},
     webhook_review       |-> Webhooks,
     sandbox_smoke        |-> {"sandbox_smoke"},
     support_diagnostics  |-> {"support_diagnostics", "support_redaction"},
     rollback_backup      |-> {"rollback_plan", "backup_plan"},
     incident_response    |-> {"incident_response"},
     data_handling        |-> {"data_handling"},
     project_allowlist    |-> {"project_scope"},
     operator_approvals   |-> Approvals,
     known_limitations    |-> {"monitoring_plan"}]

Gates == DOMAIN GateFields

GateStatus(p, g) ==
    LET seen == {p.status[f] : f \in GateFields[g]} IN
    IF seen \cap {"failed", "missing"} # {} THEN "failed"
    ELSE IF "needs_review" \in seen THEN "needs_review"
    ELSE "passed"

ReadinessReport(p) ==
    [blocked  |-> Decision(p) \in {"NO_GO", "BLOCKED"},
     decision |-> Decision(p),
     gates    |-> [g \in Gates |-> GateStatus(p, g)]]
===============================================================================
