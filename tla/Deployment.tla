------------------------------ MODULE Deployment ------------------------------
(***************************************************************************)
(* How the tables of the SQLite database come to be, and who may count on  *)
(* them.  Two mechanisms make the same tables: every start of the service  *)
(* and the scripts call create_all (app/database.py, app/main.py), which   *)
(* looks at all tables first and then creates the missing ones, and the    *)
(* operator runs the Alembic revisions of migrations/versions by hand,     *)
(* which stamp the revision they reach.  Neither looks at the other's      *)
(* traces: create_all stamps nothing, a revision creates its tables        *)
(* without asking whether they are there.                                  *)
(*                                                                         *)
(* SQLite commits every DDL statement on its own, so a table and its       *)
(* indexes are two steps, the stamp is a third, and a crash stays between  *)
(* them.  Tables are numbered in the order in which create_all takes them; *)
(* Rank is the order of the revisions.  One Alembic command runs at a      *)
(* time; any number of starts may run beside it.                           *)
(***************************************************************************)
EXTENDS Readiness

CONSTANTS
    Processes,          \* service processes and scripts that share the database
    Configured,         \* the settings a process may be started with
    LastTable,          \* the tables are 1 .. LastTable
    InitialTables,      \* those revision 0001 creates; 0002 creates the others
    Rank,               \* the order in which a revision creates its tables
    Stored,             \* the databases found at the beginning
    MaxCommands,        \* bound: Alembic commands
    MaxCrashes          \* bound: processes and commands that die half-way

Tables == 1 .. LastTable
LifecycleTables == Tables \ InitialTables

Created(revision) ==
    CASE revision = 1 -> InitialTables
      [] revision = 2 -> LifecycleTables
      [] OTHER -> {}

ASSUME DeploymentAssumption ==
    /\ LastTable \in Nat \ {0}
    /\ InitialTables \subseteq Tables
    /\ Rank \in [Tables -> Nat]
    /\ \A t, u \in Tables : Rank[t] = Rank[u] => t = u
    /\ Configured \subseteq Settings
    /\ MaxCommands \in Nat
    /\ MaxCrashes \in Nat

Databases ==
    [tables  : SUBSET Tables, indexed : SUBSET Tables,
     stamp   : 0 .. HeadRevision,      \* alembic_version; 0 when there is none
     legacy  : SUBSET LifecycleTables] \* tables that hold labels of the first seed

\* What an earlier run can have left: every table has its indexes, and the
\* tables of the stamped revisions are there.
ASSUME StoredAssumption ==
    \A d \in Stored :
        /\ d \in Databases
        /\ d.indexed = d.tables
        /\ d.legacy \subseteq d.tables
        /\ \A r \in 1 .. d.stamp : Created(r) \subseteq d.tables
        /\ d.stamp = HeadRevision => d.legacy = {}

VARIABLES
    db,
    proc,               \* proc[p]: a start, from the checks to its last table
    alembic,            \* the migration command under way
    commands, crashes,  \* how many there have been
    lowered,            \* a downgrade has been started
    spoiled,            \* a downgrade ended before its stamp
    undermined          \* processes under which a downgrade dropped a table

vars == <<db, proc, alembic, commands, crashes, lowered, spoiled, undermined>>

Down == [pc |-> "down", at |-> 1, missing |-> {}, half |-> FALSE]
Idle == [doing |-> "nothing", revision |-> 0, to |-> 0, left |-> {}, half |-> FALSE]

Running == {"inspecting", "creating", "serving", "elsewhere"}

Starts ==
    [pc : Running \cup {"down", "refused", "failed"},
     at : 1 .. LastTable + 1, missing : SUBSET Tables, half : BOOLEAN]

Commands ==
    [doing : {"nothing", "upgrade", "downgrade"}, revision : 0 .. HeadRevision,
     to : 0 .. HeadRevision, left : SUBSET Tables, half : BOOLEAN]

Init ==
    /\ db \in Stored
    /\ proc = [p \in Processes |-> Down]
    /\ alembic = Idle
    /\ commands = 0
    /\ crashes = 0
    /\ lowered = FALSE
    /\ spoiled = FALSE
    /\ undermined = {}

\* The table of S whose turn it is in create_all, an upgrade, a downgrade.
Least(t, S) == t \in S /\ \A u \in S : t <= u
First(t, S) == t \in S /\ \A u \in S : Rank[t] <= Rank[u]
Last(t, S) == t \in S /\ \A u \in S : Rank[u] <= Rank[t]

(***************************************************************************)
(* A process starts.                                                       *)
(***************************************************************************)
\* The service: the lifespan runs the startup checks, which read the stamp
\* of the database, and goes on to create_all unless they raise.  With
\* another database than SQLite it goes on elsewhere.
StartService(p) ==
    /\ proc[p].pc = "down"
    /\ \E s \in Configured :
         proc' = [proc EXCEPT
            ![p].pc = IF run_startup_checks_raises(s, db.stamp) THEN "refused"
                      ELSE IF s.sqliteUrl THEN "inspecting" ELSE "elsewhere"]
    /\ UNCHANGED <<db, alembic, commands, crashes, lowered, spoiled, undermined>>

\* A script creates the tables without any check.
StartScript(p) ==
    /\ proc[p].pc = "down"
    /\ proc' = [proc EXCEPT ![p].pc = "inspecting"]
    /\ UNCHANGED <<db, alembic, commands, crashes, lowered, spoiled, undermined>>

\* Mutant: the last model is imported after create_all, which neither asks
\* for its table nor creates it.
InspectImported(p) ==
    /\ proc[p].pc = "inspecting"
    /\ LET t == proc[p].at
           missing == proc[p].missing \cup ({t} \ (db.tables \cup {LastTable}))
       IN  proc' = [proc EXCEPT
              ![p].at = t + 1,
              ![p].missing = missing,
              ![p].pc = IF t < LastTable THEN "inspecting"
                        ELSE IF missing = {} THEN "serving" ELSE "creating"]
    /\ UNCHANGED <<db, alembic, commands, crashes, lowered, spoiled, undermined>>

\* create_all asks for one table after the other before it creates any.
Inspect(p) ==
    /\ proc[p].pc = "inspecting"
    /\ LET t == proc[p].at
           missing == proc[p].missing \cup ({t} \ db.tables)
       IN  proc' = [proc EXCEPT
              ![p].at = t + 1,
              ![p].missing = missing,
              ![p].pc = IF t < LastTable THEN "inspecting"
                        ELSE IF missing = {} THEN "serving" ELSE "creating"]
    /\ UNCHANGED <<db, alembic, commands, crashes, lowered, spoiled, undermined>>

CreateTable(p) ==
    /\ proc[p].pc = "creating"
    /\ ~proc[p].half
    /\ \E t \in Tables :
         /\ Least(t, proc[p].missing)
         /\ t \notin db.tables
         /\ db' = [db EXCEPT !.tables = @ \cup {t}]
    /\ proc' = [proc EXCEPT ![p].half = TRUE]
    /\ UNCHANGED <<alembic, commands, crashes, lowered, spoiled, undermined>>

CreateIndexes(p) ==
    /\ proc[p].pc = "creating"
    /\ proc[p].half
    /\ \E t \in Tables :
         /\ Least(t, proc[p].missing)
         /\ t \in db.tables \ db.indexed
         /\ db' = [db EXCEPT !.indexed = @ \cup {t}]
         /\ proc' = [proc EXCEPT
               ![p].half = FALSE,
               ![p].missing = @ \ {t},
               ![p].pc = IF proc[p].missing = {t} THEN "serving" ELSE "creating"]
    /\ UNCHANGED <<alembic, commands, crashes, lowered, spoiled, undermined>>

\* Mutant: a table that exists by now is taken for a sign that all do.
FailureSwallowed(p) ==
    /\ proc[p].pc = "creating"
    /\ \E t \in Tables :
         /\ Least(t, proc[p].missing)
         /\ IF proc[p].half THEN t \notin db.tables \ db.indexed ELSE t \in db.tables
    /\ proc' = [proc EXCEPT ![p].pc = "serving"]
    /\ UNCHANGED <<db, alembic, commands, crashes, lowered, spoiled, undermined>>

\* The statement fails: somebody else created the table in between, or
\* dropped it again before it had its indexes.  The exception ends the start.
CreateFails(p) ==
    /\ proc[p].pc = "creating"
    /\ \E t \in Tables :
         /\ Least(t, proc[p].missing)
         /\ IF proc[p].half THEN t \notin db.tables \ db.indexed ELSE t \in db.tables
    /\ proc' = [proc EXCEPT ![p] = [Down EXCEPT !.pc = "failed"]]
    /\ undermined' = undermined \ {p}
    /\ UNCHANGED <<db, alembic, commands, crashes, lowered, spoiled>>

\* The process ends, or the operator tries again after a refused start.
Stop(p) ==
    /\ proc[p].pc \in {"serving", "elsewhere", "refused", "failed"}
    /\ proc' = [proc EXCEPT ![p] = Down]
    /\ undermined' = undermined \ {p}
    /\ UNCHANGED <<db, alembic, commands, crashes, lowered, spoiled>>

Die(p) ==
    /\ proc[p].pc \in {"inspecting", "creating"}
    /\ crashes < MaxCrashes
    /\ crashes' = crashes + 1
    /\ proc' = [proc EXCEPT ![p] = Down]
    /\ undermined' = undermined \ {p}
    /\ UNCHANGED <<db, alembic, commands, lowered, spoiled>>

(***************************************************************************)
(* The operator runs Alembic.                                              *)
(***************************************************************************)
At(doing, revision, to) ==
    [doing |-> doing, revision |-> revision, to |-> to,
     left |-> Created(revision), half |-> FALSE]

Upgrade ==
    /\ alembic = Idle
    /\ commands < MaxCommands
    /\ db.stamp < HeadRevision
    /\ commands' = commands + 1
    /\ alembic' = At("upgrade", db.stamp + 1, HeadRevision)
    /\ UNCHANGED <<db, proc, crashes, lowered, spoiled, undermined>>

UpgradeTable ==
    /\ alembic.doing = "upgrade"
    /\ ~alembic.half
    /\ \E t \in Tables :
         /\ First(t, alembic.left)
         /\ t \notin db.tables
         /\ db' = [db EXCEPT !.tables = @ \cup {t}]
    /\ alembic' = [alembic EXCEPT !.half = TRUE]
    /\ UNCHANGED <<proc, commands, crashes, lowered, spoiled, undermined>>

UpgradeIndexes ==
    /\ alembic.doing = "upgrade"
    /\ alembic.half
    /\ \E t \in Tables :
         /\ First(t, alembic.left)
         /\ t \in db.tables \ db.indexed
         /\ db' = [db EXCEPT !.indexed = @ \cup {t}]
         /\ alembic' = [alembic EXCEPT !.half = FALSE, !.left = @ \ {t}]
    /\ UNCHANGED <<proc, commands, crashes, lowered, spoiled, undermined>>

\* Mutant: the stamp does not wait for the statements.
StampEarly ==
    /\ alembic.doing = "upgrade"
    /\ alembic.revision < HeadRevision
    /\ db' = [db EXCEPT !.stamp = alembic.revision]
    /\ alembic' = At("upgrade", alembic.revision + 1, HeadRevision)
    /\ UNCHANGED <<proc, commands, crashes, lowered, spoiled, undermined>>

\* The statements of 0001 and 0002 are done: the stamp is written and the
\* next revision begins.
UpgradeStamp ==
    /\ alembic.doing = "upgrade"
    /\ alembic.left = {}
    /\ alembic.revision < HeadRevision
    /\ db' = [db EXCEPT !.stamp = alembic.revision]
    /\ alembic' = At("upgrade", alembic.revision + 1, HeadRevision)
    /\ UNCHANGED <<proc, commands, crashes, lowered, spoiled, undermined>>

\* 0003 rewrites the labels and its stamp in one transaction.
Normalize ==
    /\ alembic.doing = "upgrade"
    /\ alembic.revision = HeadRevision
    /\ LifecycleTables \subseteq db.tables
    /\ db' = [db EXCEPT !.legacy = {}, !.stamp = HeadRevision]
    /\ alembic' = Idle
    /\ UNCHANGED <<proc, commands, crashes, lowered, spoiled, undermined>>

UpgradeFails ==
    /\ alembic.doing = "upgrade"
    /\ \/ alembic.revision = HeadRevision /\ ~(LifecycleTables \subseteq db.tables)
       \/ \E t \in Tables :
            /\ First(t, alembic.left)
            /\ IF alembic.half THEN t \notin db.tables \ db.indexed ELSE t \in db.tables
    /\ alembic' = Idle
    /\ UNCHANGED <<db, proc, commands, crashes, lowered, spoiled, undermined>>

\* 0003 takes nothing back; 0002 and 0001 drop their tables in reverse, each
\* after its indexes, and the stamp follows every revision.
Downgrade ==
    /\ alembic = Idle
    /\ commands < MaxCommands
    /\ \E to \in 0 .. HeadRevision :
         /\ to < db.stamp
         /\ alembic' = At("downgrade", db.stamp, to)
    /\ commands' = commands + 1
    /\ lowered' = TRUE
    /\ UNCHANGED <<db, proc, crashes, spoiled, undermined>>

DropIndexes ==
    /\ alembic.doing = "downgrade"
    /\ ~alembic.half
    /\ \E t \in Tables :
         /\ Last(t, alembic.left)
         /\ t \in db.indexed
         /\ db' = [db EXCEPT !.indexed = @ \ {t}]
    /\ alembic' = [alembic EXCEPT !.half = TRUE]
    /\ UNCHANGED <<proc, commands, crashes, lowered, spoiled, undermined>>

DropTable ==
    /\ alembic.doing = "downgrade"
    /\ alembic.half
    /\ \E t \in Tables :
         /\ Last(t, alembic.left)
         /\ t \in db.tables
         /\ db' = [db EXCEPT !.tables = @ \ {t}, !.indexed = @ \ {t}, !.legacy = @ \ {t}]
         /\ alembic' = [alembic EXCEPT !.half = FALSE, !.left = @ \ {t}]
    /\ undermined' = {p \in Processes : proc[p].pc \in Running}
    /\ UNCHANGED <<proc, commands, crashes, lowered, spoiled>>

DowngradeStamp ==
    LET below == alembic.revision - 1
    IN  /\ alembic.doing = "downgrade"
        /\ alembic.left = {}
        /\ db' = [db EXCEPT !.stamp = below]
        /\ alembic' = IF below = alembic.to THEN Idle
                      ELSE At("downgrade", below, alembic.to)
        /\ UNCHANGED <<proc, commands, crashes, lowered, spoiled, undermined>>

\* A table or an index that is not there ends the downgrade.
DowngradeFails ==
    /\ alembic.doing = "downgrade"
    /\ \E t \in Tables :
         /\ Last(t, alembic.left)
         /\ t \notin (IF alembic.half THEN db.tables ELSE db.indexed)
    /\ alembic' = Idle
    /\ spoiled' = TRUE
    /\ UNCHANGED <<db, proc, commands, crashes, lowered, undermined>>

AlembicDies ==
    /\ alembic # Idle
    /\ crashes < MaxCrashes
    /\ crashes' = crashes + 1
    /\ spoiled' = (spoiled \/ alembic.doing = "downgrade")
    /\ alembic' = Idle
    /\ UNCHANGED <<db, proc, commands, lowered, undermined>>

AlembicNext ==
    \/ Upgrade \/ UpgradeTable \/ UpgradeIndexes \/ UpgradeStamp
    \/ Normalize \/ UpgradeFails
    \/ Downgrade \/ DropIndexes \/ DropTable \/ DowngradeStamp
    \/ DowngradeFails \/ AlembicDies

ProcessNext(p) ==
    \/ StartService(p) \/ StartScript(p) \/ Inspect(p)
    \/ CreateTable(p) \/ CreateIndexes(p) \/ CreateFails(p)
    \/ Stop(p) \/ Die(p)

Next == AlembicNext \/ \E p \in Processes : ProcessNext(p)

Spec == Init /\ [][Next]_vars

(***************************************************************************)
(* Properties.                                                             *)
(***************************************************************************)
\* Every variable stays in its set.
TypeOK ==
    /\ db \in Databases
    /\ proc \in [Processes -> Starts]
    /\ alembic \in Commands
    /\ commands \in 0 .. MaxCommands
    /\ crashes \in 0 .. MaxCrashes
    /\ lowered \in BOOLEAN
    /\ spoiled \in BOOLEAN
    /\ undermined \subseteq Processes

\* A process that has come through its start finds all its tables, whoever
\* else was starting, upgrading or dying meanwhile (app/main.py, the lifespan
\* creates the tables before the first request), unless an operator has
\* dropped tables under it.
ServingHasTables ==
    \A p \in Processes :
        proc[p].pc = "serving" /\ p \notin undermined => db.tables = Tables

\* The revisions the stamp vouches for: the one a downgrade is taking back is
\* no longer among them.
Vouched == IF alembic.doing = "downgrade" THEN alembic.revision - 1 ELSE db.stamp

\* The stamp, which is all that the migration status, the readiness report and
\* the strict CLI look at, never says more than the database holds: the tables
\* of every stamped revision are there, and at head no legacy label is left.
\* A downgrade that ended before its stamp is the exception.
StampVouches ==
    ~spoiled =>
        /\ \A r \in 1 .. Vouched : Created(r) \subseteq db.tables
        /\ Vouched = HeadRevision => db.legacy = {}

AtRest ==
    /\ alembic = Idle
    /\ \A p \in Processes : proc[p].pc \notin {"inspecting", "creating"}

\* Starts that collide cost one of them its start and nothing else: when all
\* has come to rest, nothing died and nobody has asked for a downgrade, a
\* failed start leaves a database with every table and index, so that the next
\* one succeeds.
FailedStartIsHarmless ==
    AtRest /\ crashes = 0 /\ ~lowered /\ (\E p \in Processes : proc[p].pc = "failed")
        => db.tables = Tables /\ db.indexed = Tables

\* docs/operations-runbook.md tells to apply 0002 and 0003 through the
\* migration process; beside the tables of an earlier start no upgrade ever
\* gets there.
UpgradeIsPossible ==
    alembic = Idle /\ db.stamp < HeadRevision /\ crashes = 0 /\ ~lowered
        => \A r \in db.stamp + 1 .. HeadRevision : Created(r) \cap db.tables = {}

\* docs/deployment-hardening.md names what an operator has to supply for
\* production; with all of it the report is still not ready.
Supplied(s) ==
    /\ s.environment = "production"
    /\ ~s.sqliteUrl /\ s.postgres /\ s.explicitHosts
    /\ effective_admin_auth_mode(s) = "token_required"
    /\ primary_admin_ref(s) = "valid" /\ s.adminAnswer = "found" /\ s.protectRoutes
    /\ s.signature /\ s.webhookRef = "valid" /\ s.webhookDocs = "verified"
    /\ s.storageOutside /\ s.packetsOutside

SuppliedIsReady ==
    \A s \in Configured :
        Supplied(s) =>
            build_deployment_readiness_report(s, db.stamp).ready_for_production

\* A report that calls the service ready for an environment has no finding
\* that blocks it there.
LocalReadinessIsHonest ==
    \A s \in Configured :
        build_deployment_readiness_report(s, db.stamp).ready_for_local
            => Blockers(s, db.stamp, "local") = {}

\* At head every table is there, whatever was interrupted on the way.
HeadIsComplete == db.stamp = HeadRevision => db.tables = Tables
=============================================================================
