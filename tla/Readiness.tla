------------------------------ MODULE Readiness ------------------------------
(***************************************************************************)
(* What a start of the service decides before it touches the database:     *)
(* the deployment readiness report (app/services/deployment_readiness.py), *)
(* the migration status and the database posture it reads                  *)
(* (migration_status.py, database_readiness.py) and the startup check that *)
(* raises on its production blockers (startup_checks.py).                  *)
(*                                                                         *)
(* A settings record s stands for one Settings object of app/config.py.    *)
(* Each field says of a setting what the checks ask of it: a list of hosts *)
(* is explicit or not, a path is safe or not, a reference is absent,       *)
(* invalid or valid.  What a secret or storage provider answers to its     *)
(* health check is a field as well (the providers are outside this         *)
(* module).  A finding keeps its check, its severity and the environments  *)
(* it blocks; its message is left out, and equal findings are one.         *)
(***************************************************************************)
EXTENDS Naturals

Environments == {"local", "staging", "production"}

\* The planning services whose check is a posture and an output directory.
Planning == {"customer", "pilot", "evidence", "review", "approval"}

HeadRevision == 3                      \* revisions 0001, 0002 and 0003

SecretProviders ==
    {"env", "file", "test", "disabled", "external_placeholder",
     "aws_secrets_manager", "azure_key_vault", "gcp_secret_manager"}

Refs == {"absent", "invalid", "valid"}

Answers == {"found", "missing", "unavailable"}

Settings ==
    [environment : Environments, explicitHosts : BOOLEAN, explicitOrigins : BOOLEAN,
     sqliteUrl : BOOLEAN, live : BOOLEAN,
     adminEnabled : BOOLEAN, adminMode : {"local_optional", "token_required", "disabled"},
     adminToken : BOOLEAN, adminRef : Refs, adminName : Refs, rotationRef : Refs,
     adminFailClosed : BOOLEAN, adminAnswer : Answers, protectRoutes : BOOLEAN,
     webhooks : BOOLEAN, signature : BOOLEAN, webhookRef : Refs,
     webhookDocs : {"unverified", "verified", "needs_review", "deprecated"},
     defaultPosture : [Planning -> BOOLEAN], safeOutput : [Planning -> BOOLEAN],
     workspacePosture : BOOLEAN,
     storage : {"local", "test", "disabled", "external_placeholder"},
     storageBackend : {"", "local", "test", "disabled", "external_placeholder", "s3"},
     positiveSize : BOOLEAN, safeKeys : BOOLEAN, fixtureOnly : BOOLEAN,
     storageHealth : BOOLEAN, storagePosture : BOOLEAN,
     postgres : BOOLEAN, sqliteAllowed : BOOLEAN, postgresAllowed : BOOLEAN,
     databaseRef : BOOLEAN, postgresForPilot : BOOLEAN, requireSsl : BOOLEAN,
     migrationCheck : BOOLEAN, planRequired : BOOLEAN, autoMigrate : BOOLEAN,
     destructive : BOOLEAN, failOnPending : BOOLEAN, recipeReady : BOOLEAN,
     secretProvider : SecretProviders, secretHealth : BOOLEAN, secretAnswer : Answers,
     storageOutside : BOOLEAN, packetsOutside : BOOLEAN,
     startupChecks : BOOLEAN, requireSafe : BOOLEAN, failUnsafe : BOOLEAN]

(***************************************************************************)
(* Findings.                                                               *)
(***************************************************************************)
Finding(check, severity, blocks) ==
    [check |-> check, severity |-> severity, blocks |-> blocks]

Info(check) == Finding(check, "info", {})
Warning(check) == Finding(check, "warning", {})
Blocking(check, blocks) == Finding(check, "blocking", blocks)

When(condition, finding) == IF condition THEN {finding} ELSE {}
OrInfo(check, findings) == IF findings = {} THEN {Info(check)} ELSE findings

Hosted == {"staging", "production"}
Production == {"production"}

(***************************************************************************)
(* The checks, in the order of the report.                                 *)
(***************************************************************************)
check_environment_profile(s) ==
    {Info("environment")}
    \cup When(~s.explicitHosts, Blocking("allowed_hosts", Production))
    \cup When(~s.explicitOrigins, Blocking("cors_origins", Production))

check_database_url(s) ==
    OrInfo("database", When(s.sqliteUrl, Blocking("database", Production)))

check_live_mode_safety(s) ==
    OrInfo("live_mode", When(s.live, Blocking("live_mode", Production)))

effective_admin_auth_mode(s) ==
    IF ~s.adminEnabled \/ s.adminMode = "disabled" THEN "disabled"
    ELSE IF s.adminMode = "token_required" \/ s.adminToken THEN "token_required"
    ELSE "local_optional"

primary_admin_ref(s) == IF s.adminRef # "absent" THEN s.adminRef ELSE s.adminName

TokenFindings(s) ==
    LET primary == primary_admin_ref(s)
    IN  When(primary = "absent", Blocking("admin_auth", Hosted))
        \cup When("invalid" \in {primary, s.rotationRef},
                  IF s.adminFailClosed THEN Blocking("admin_auth", Hosted)
                  ELSE Warning("admin_auth"))
        \cup When(primary # "absent" /\ s.secretHealth /\ s.adminAnswer # "found",
                  Blocking("admin_auth", Hosted))

check_admin_dashboard_safety(s) ==
    LET mode == effective_admin_auth_mode(s)
    IN  IF mode = "disabled" THEN {Info("admin_dashboard")}
        ELSE OrInfo("admin_auth",
               (IF mode = "local_optional" THEN {Blocking("admin_dashboard", Hosted)}
                ELSE TokenFindings(s))
               \cup When(~s.protectRoutes, Blocking("admin_auth", Hosted)))

check_webhook_signature_safety(s) ==
    OrInfo("webhook_signature",
        When(s.webhooks /\ (~s.signature \/ s.webhookRef = "absent"),
             Blocking("webhook_signature", Production)))

check_webhook_verification_safety(s) ==
    {IF s.webhooks /\ s.webhookDocs \in {"unverified", "deprecated"}
       THEN Blocking("webhook_verification", Production)
     ELSE IF s.webhooks /\ s.webhookDocs = "needs_review"
       THEN Finding("webhook_verification", "warning", Production)
     ELSE Info("webhook_verification")}

\* A warning for every allowance that is not the default, and the output path.
PlanningPattern(s, service) ==
    {IF s.defaultPosture[service] THEN Info(service) ELSE Warning(service),
     IF s.safeOutput[service] THEN Info(service) ELSE Blocking(service, Environments)}

check_customer_deployment_pattern(s) == PlanningPattern(s, "customer")
check_pilot_readiness_pattern(s) == PlanningPattern(s, "pilot")
check_private_evidence_pattern(s) == PlanningPattern(s, "evidence")
check_evidence_review_pattern(s) == PlanningPattern(s, "review")
check_pilot_approval_packet_pattern(s) == PlanningPattern(s, "approval")

check_private_workspace_bootstrap(s) ==
    {IF s.workspacePosture THEN Info("private_workspace_bootstrap")
     ELSE Warning("private_workspace_bootstrap")}

get_attachment_storage_provider_name(s) ==
    IF s.storage = "local" /\ s.storageBackend \notin {"", "local"}
    THEN s.storageBackend ELSE s.storage

\* The health of the chosen provider: the disabled one and the placeholder
\* answer that they are not available, an unknown name cannot be built.
StorageHealth(s) ==
    LET name == get_attachment_storage_provider_name(s)
    IN  IF ~s.storageHealth THEN Warning("attachment_storage_health")
        ELSE IF name \in {"local", "test"} THEN Info("attachment_storage_health")
        ELSE IF name \in {"disabled", "external_placeholder"}
          THEN Blocking("attachment_storage_health", Production)
        ELSE Blocking("attachment_storage_health", Hosted)

check_attachment_storage_safety(s) ==
    LET name == get_attachment_storage_provider_name(s)
    IN  When(~s.positiveSize, Blocking("attachment_storage", Hosted))
        \cup When(~s.safeKeys, Blocking("attachment_storage", Hosted))
        \cup {Blocking("attachment_storage",
                       IF name \in {"local", "disabled"} THEN Production ELSE Hosted)}
        \cup {IF s.fixtureOnly THEN Info("attachment_storage")
              ELSE Blocking("attachment_storage", Production)}
        \cup {StorageHealth(s)}

check_storage_provider_posture(s) ==
    {IF s.storagePosture THEN Info("storage_provider_posture")
     ELSE Warning("storage_provider_posture")}

\* The severities of build_database_readiness_report, which this check is
\* called with as pilot for staging and production and as demo otherwise.
MigrationReady(s) == s.migrationCheck /\ s.planRequired /\ ~s.autoMigrate

ProviderSeverities(s, pilot) ==
    IF ~s.postgres
    THEN {IF ~s.sqliteAllowed \/ (pilot /\ s.postgresForPilot) THEN "blocking" ELSE "info"}
    ELSE {"info"}
         \cup (IF s.postgresAllowed /\ s.databaseRef THEN {} ELSE {"blocking"})
         \cup (IF s.requireSsl THEN {"warning"} ELSE {})

DatabaseSeverities(s, pilot) ==
    ProviderSeverities(s, pilot)
    \cup (IF MigrationReady(s) THEN {} ELSE {IF pilot THEN "blocking" ELSE "warning"})

check_database_provider_posture(s) ==
    {Finding("database_provider_posture", severity,
             IF severity = "blocking" THEN Hosted ELSE {}) :
        severity \in DatabaseSeverities(s, s.environment \in Hosted)}

check_deployment_recipe_posture(s) ==
    OrInfo("deployment_recipe_posture",
        When(~s.recipeReady, Blocking("deployment_recipe_posture", Hosted)))

\* The references this check asks for: the name of the admin token, not the
\* newer reference to it, and the webhook secret.
RequiredRefs(s) ==
    (IF s.adminToken THEN {s.adminName} ELSE {})
    \cup (IF s.signature THEN {s.webhookRef} ELSE {})

check_secret_provider_safety(s) ==
    When(s.secretProvider \in
           {"env", "file", "test", "disabled", "external_placeholder"},
         Blocking("secret_provider", Production))
    \cup When("invalid" \in RequiredRefs(s), Blocking("secret_reference", Production))
    \cup {IF ~s.secretHealth THEN Warning("secret_provider_health")
          ELSE IF s.secretAnswer = "found" THEN Info("secret_provider_health")
          ELSE Blocking("secret_provider_health", Production)}

check_output_paths(s) ==
    OrInfo("output_paths",
        When(~s.storageOutside, Blocking("attachment_storage_root", Production))
        \cup When(~s.packetsOutside, Blocking("packet_output_root", Production)))

\* migration_status: the inspection knows SQLite alone, and looks at the
\* stamped revision, never at the tables.
build_migration_status_report(s, revision) ==
    [is_at_head |-> s.migrationCheck /\ s.sqliteUrl /\ revision = HeadRevision,
     pending    |-> s.migrationCheck /\ s.sqliteUrl /\ revision # HeadRevision,
     error      |-> s.migrationCheck /\ ~s.sqliteUrl]

check_migration_safety(s, revision) ==
    LET status == build_migration_status_report(s, revision)
    IN  When(s.autoMigrate, Blocking("migrations", Production))
        \cup When(s.destructive, Blocking("migrations", Production))
        \cup {IF ~status.error /\ ~status.pending THEN Info("migrations")
              ELSE IF s.environment = "production" /\ s.failOnPending
                THEN Blocking("migrations", Production)
              ELSE Warning("migrations")}

(***************************************************************************)
(* The report and the decision of a start.                                 *)
(***************************************************************************)
Findings(s, revision) ==
    check_environment_profile(s) \cup check_database_url(s)
    \cup check_live_mode_safety(s) \cup check_admin_dashboard_safety(s)
    \cup check_webhook_signature_safety(s) \cup check_webhook_verification_safety(s)
    \cup check_customer_deployment_pattern(s) \cup check_pilot_readiness_pattern(s)
    \cup check_private_workspace_bootstrap(s) \cup check_private_evidence_pattern(s)
    \cup check_evidence_review_pattern(s) \cup check_pilot_approval_packet_pattern(s)
    \cup check_attachment_storage_safety(s) \cup check_storage_provider_posture(s)
    \cup check_database_provider_posture(s) \cup check_deployment_recipe_posture(s)
    \cup check_secret_provider_safety(s) \cup check_output_paths(s)
    \cup check_migration_safety(s, revision)

Blockers(s, revision, place) ==
    {f \in Findings(s, revision) : f.severity = "blocking" /\ place \in f.blocks}

build_deployment_readiness_report(s, revision) ==
    [ready_for_local      |-> TRUE,
     ready_for_staging    |-> Blockers(s, revision, "staging") = {},
     ready_for_production |-> Blockers(s, revision, "production") = {}]

run_startup_checks_raises(s, revision) ==
    /\ s.startupChecks
    /\ s.environment = "production"
    /\ s.requireSafe
    /\ s.failUnsafe
    /\ ~build_deployment_readiness_report(s, revision).ready_for_production
=============================================================================
