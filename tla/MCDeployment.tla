---------------------------- MODULE MCDeployment ----------------------------
(***************************************************************************)
(* Two tables of revision 0001 and the two of 0002.  create_all takes      *)
(* parents first, and children of one parent as the models are defined     *)
(* (app/models/__init__.py): the review states and events stand between    *)
(* the attachment objects and the intake attachments of 0001.              *)
(***************************************************************************)
EXTENDS Deployment, TLC

CONSTANTS a, b, c

AsNumbered == [t \in 1 .. 4 |-> t]

Found(tables, stamp, legacy) ==
    [tables |-> tables, indexed |-> tables, stamp |-> stamp, legacy |-> legacy]

\* A new file; the tables an older release created, without a stamp; the
\* database of the first Demo seed; a migrated one; the same after the seed.
EarlierDatabases ==
    {Found({}, 0, {}), Found({1, 4}, 0, {}), Found(1 .. 4, 0, {2, 3}),
     Found({1, 4}, 1, {}), Found(1 .. 4, 2, {2, 3})}

\* The defaults of app/config.py.
LocalSettings ==
    [environment |-> "local", explicitHosts |-> TRUE, explicitOrigins |-> TRUE,
     sqliteUrl |-> TRUE, live |-> FALSE,
     adminEnabled |-> TRUE, adminMode |-> "local_optional", adminToken |-> FALSE,
     adminRef |-> "absent", adminName |-> "absent", rotationRef |-> "absent",
     adminFailClosed |-> TRUE, adminAnswer |-> "found", protectRoutes |-> TRUE,
     webhooks |-> TRUE, signature |-> FALSE, webhookRef |-> "absent",
     webhookDocs |-> "unverified",
     defaultPosture |-> [x \in Planning |-> TRUE],
     safeOutput |-> [x \in Planning |-> TRUE],
     workspacePosture |-> TRUE, storage |-> "local", storageBackend |-> "local",
     positiveSize |-> TRUE, safeKeys |-> TRUE, fixtureOnly |-> TRUE,
     storageHealth |-> TRUE, storagePosture |-> TRUE,
     postgres |-> FALSE, sqliteAllowed |-> TRUE, postgresAllowed |-> TRUE,
     databaseRef |-> TRUE, postgresForPilot |-> TRUE, requireSsl |-> TRUE,
     migrationCheck |-> TRUE, planRequired |-> TRUE, autoMigrate |-> FALSE,
     destructive |-> FALSE, failOnPending |-> FALSE, recipeReady |-> TRUE,
     secretProvider |-> "env", secretHealth |-> TRUE, secretAnswer |-> "found",
     storageOutside |-> FALSE, packetsOutside |-> FALSE,
     startupChecks |-> TRUE, requireSafe |-> TRUE, failUnsafe |-> TRUE]

\* Production with all that the deployment document asks for.
SuppliedSettings ==
    [LocalSettings EXCEPT
        !.environment = "production", !.sqliteUrl = FALSE, !.postgres = TRUE,
        !.adminMode = "token_required", !.adminRef = "valid",
        !.signature = TRUE, !.webhookRef = "valid", !.webhookDocs = "verified",
        !.secretProvider = "aws_secrets_manager",
        !.storageOutside = TRUE, !.packetsOutside = TRUE]

ProductionSettings ==
    {SuppliedSettings, [SuppliedSettings EXCEPT !.failUnsafe = FALSE],
     [SuppliedSettings EXCEPT !.storage = "disabled", !.storageHealth = FALSE],
     [SuppliedSettings EXCEPT !.storage = "external_placeholder"],
     [SuppliedSettings EXCEPT !.storage = "test"],
     [SuppliedSettings EXCEPT !.storageBackend = "s3", !.storageHealth = FALSE],
     [LocalSettings EXCEPT !.environment = "production", !.requireSafe = FALSE]}

LocalAndProduction == {LocalSettings} \cup ProductionSettings

\* Settings the reports are not honest about.
Careless ==
    {[LocalSettings EXCEPT !.safeOutput["customer"] = FALSE],
     SuppliedSettings}

ProcessSymmetry == Permutations({a, b, c})
=============================================================================
