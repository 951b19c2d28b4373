-------------------------- MODULE DeploymentProofs --------------------------
(***************************************************************************)
(* Type correctness of Deployment, and that its starts, its stamp and its  *)
(* startup checks keep their word, for every set of processes, settings,   *)
(* tables and databases of the assumptions.                                *)
(*                                                                         *)
(* Inv adds to the type invariant what each step relies on.  A process     *)
(* that is down carries nothing over (Fresh), an inspection has a table    *)
(* left to ask for (Inspecting), and the tables it has passed are there or *)
(* noted as missing (Accounted).  A migration works on the revision next   *)
(* to the stamp (Migrating), and an upgrade has made or still has to make  *)
(* the tables of its revision (Upgrading).                                 *)
(***************************************************************************)
EXTENDS Deployment, TLAPS

Fresh == \A p \in Processes : proc[p].pc = "down" => proc[p] = Down

Inspecting == \A p \in Processes : proc[p].pc = "inspecting" => proc[p].at \in Tables

Passed(p) == IF proc[p].pc = "inspecting" THEN {t \in Tables : t < proc[p].at} ELSE Tables

Accounted ==
    \A p \in Processes :
        p \notin undermined =>
            /\ proc[p].pc \in {"inspecting", "creating"} =>
                   Passed(p) \subseteq db.tables \cup proc[p].missing
            /\ proc[p].pc = "serving" => Tables \subseteq db.tables

Migrating ==
    /\ alembic.doing = "downgrade" =>
           /\ alembic.to < alembic.revision
           /\ alembic.revision = db.stamp
           /\ alembic.left \subseteq Created(alembic.revision)
    /\ alembic.doing = "upgrade" => alembic.revision = db.stamp + 1

Upgrading ==
    alembic.doing = "upgrade" =>
        Created(alembic.revision) \subseteq db.tables \cup alembic.left

Types == TypeOK /\ Fresh /\ Inspecting /\ Migrating

Inv ==
    /\ Types
    /\ Accounted
    /\ Upgrading
    /\ StampVouches

LEMMA CreatedTables ==
    /\ \A r \in 0 .. HeadRevision : Created(r) \subseteq Tables
    /\ \A r, q \in Nat : r # q => Created(r) \cap Created(q) = {}
    /\ Created(HeadRevision) = {}
    /\ InitialTables \subseteq Tables
    /\ LifecycleTables \subseteq Tables
    /\ LastTable \in Nat \ {0}
    /\ MaxCommands \in Nat
    /\ MaxCrashes \in Nat
BY DeploymentAssumption DEF Created, LifecycleTables, HeadRevision

LEMMA InitTypes == Init => Types
<1> SUFFICES ASSUME Init PROVE Types
  OBVIOUS
<1> USE CreatedTables
<1>1. db \in Databases
  BY StoredAssumption DEF Init
<1>2. alembic \in Commands
  BY DEF Init, Idle, Commands, HeadRevision
<1>3. proc \in [Processes -> Starts]
  BY DEF Init, Down, Starts, Tables
<1>4. TypeOK
  <2>1. commands \in 0 .. MaxCommands /\ crashes \in 0 .. MaxCrashes
    BY DEF Init
  <2>2. lowered \in BOOLEAN /\ spoiled \in BOOLEAN /\ undermined \subseteq Processes
    BY DEF Init
  <2> QED
    BY <1>1, <1>2, <1>3, <2>1, <2>2 DEF TypeOK
<1> QED
  BY <1>4 DEF Init, Types, Fresh, Inspecting, Migrating, Idle, Down

LEMMA AtCommands ==
    ASSUME NEW doing \in {"upgrade", "downgrade"}, NEW r \in 0 .. HeadRevision, NEW to \in 0 .. HeadRevision
    PROVE  /\ At(doing, r, to) \in Commands
           /\ At(doing, r, to).doing = doing
           /\ At(doing, r, to).revision = r
           /\ At(doing, r, to).to = to
           /\ At(doing, r, to).left = Created(r)
BY CreatedTables DEF At, Commands

\* A step of p moves p alone, and to where a start may be.
LEMMA OwnStep ==
    ASSUME proc \in [Processes -> Starts], Inspecting,
           NEW p \in Processes, ProcessNext(p)
    PROVE  /\ proc' \in [Processes -> Starts]
           /\ \A q \in Processes \ {p} : proc'[q] = proc[q]
<1>0. /\ proc[p] \in Starts
      /\ Down \in Starts
      /\ [Down EXCEPT !.pc = "failed"] \in Starts
  <2>1. 1 \in 1 .. LastTable + 1
    BY CreatedTables
  <2> QED
    BY <2>1 DEF Starts, Down
<1> SUFFICES \E new \in Starts : proc' = [proc EXCEPT ![p] = new]
  OBVIOUS
<1>1. CASE StartService(p)
  <2>1. PICK s \in Configured :
          proc' = [proc EXCEPT
             ![p].pc = IF run_startup_checks_raises(s, db.stamp) THEN "refused"
                       ELSE IF s.sqliteUrl THEN "inspecting" ELSE "elsewhere"]
    BY <1>1 DEF StartService
  <2>2. PICK pc \in {"refused", "inspecting", "elsewhere"} :
          proc' = [proc EXCEPT ![p] = [proc[p] EXCEPT !.pc = pc]]
    BY <2>1
  <2>3. [proc[p] EXCEPT !.pc = pc] \in Starts
    BY <1>0 DEF Starts, Running
  <2> QED
    BY <2>2, <2>3
<1>2. CASE StartScript(p)
  <2>1. [proc[p] EXCEPT !.pc = "inspecting"] \in Starts
    BY <1>0 DEF Starts, Running
  <2> QED
    BY <1>2, <2>1 DEF StartScript
<1>3. CASE Inspect(p)
  <2>1. proc[p].pc = "inspecting" /\ proc[p].at \in Tables
    BY <1>3 DEF Inspect, Inspecting
  <2>2. proc[p].at + 1 \in 1 .. LastTable + 1
    BY <2>1, CreatedTables DEF Tables
  <2>3. PICK missing \in SUBSET Tables, pc \in {"inspecting", "serving", "creating"} :
          proc' = [proc EXCEPT ![p] =
            [proc[p] EXCEPT !.at = proc[p].at + 1, !.missing = missing, !.pc = pc]]
    <3>1. proc[p].missing \cup ({proc[p].at} \ db.tables) \in SUBSET Tables
      BY <1>0, <2>1 DEF Starts
    <3> QED
      BY <1>3, <3>1, ZenonT(60) DEF Inspect
  <2>4. [proc[p] EXCEPT !.at = proc[p].at + 1, !.missing = missing, !.pc = pc] \in Starts
    BY <1>0, <2>2 DEF Starts, Running
  <2> QED
    BY <2>3, <2>4
<1>4. CASE CreateTable(p)
  <2>1. [proc[p] EXCEPT !.half = TRUE] \in Starts
    BY <1>0 DEF Starts
  <2> QED
    BY <1>4, <2>1 DEF CreateTable
<1>5. CASE CreateIndexes(p)
  <2>0. PICK t \in Tables :
          proc' = [proc EXCEPT
            ![p].half = FALSE, ![p].missing = @ \ {t},
            ![p].pc = IF proc[p].missing = {t} THEN "serving" ELSE "creating"]
    BY <1>5 DEF CreateIndexes
  <2>1. PICK pc \in {"serving", "creating"} :
          proc' = [proc EXCEPT ![p] =
            [proc[p] EXCEPT !.half = FALSE, !.missing = @ \ {t}, !.pc = pc]]
    BY <2>0
  <2>2. [proc[p] EXCEPT !.half = FALSE, !.missing = @ \ {t}, !.pc = pc] \in Starts
    BY <1>0 DEF Starts, Running
  <2> QED
    BY <2>1, <2>2
<1>6. CASE CreateFails(p) \/ Stop(p) \/ Die(p)
  BY <1>0, <1>6 DEF CreateFails, Stop, Die
<1> QED
  BY <1>1, <1>2, <1>3, <1>4, <1>5, <1>6 DEF ProcessNext

LEMMA ProcessTypes ==
    ASSUME Types, NEW p \in Processes, ProcessNext(p)
    PROVE  Types'
<1>0. proc \in [Processes -> Starts] /\ Inspecting /\ Fresh
  BY DEF Types, TypeOK
<1>1. /\ proc' \in [Processes -> Starts]
      /\ \A q \in Processes \ {p} : proc'[q] = proc[q]
  BY <1>0, OwnStep
<1>2. /\ proc'[p].pc = "down" => proc'[p] = Down
      /\ proc'[p].pc = "inspecting" => proc'[p].at \in Tables
  <2>1. CASE StartService(p) \/ StartScript(p)
    <3>1. proc[p] = Down /\ Down.at = 1
      BY <1>0, <2>1 DEF StartService, StartScript, Fresh, Down
    <3>2. proc'[p].at = proc[p].at /\ proc'[p].pc # "down"
      <4>1. CASE StartService(p)
        BY <1>0, <4>1 DEF StartService, Starts
      <4>2. CASE StartScript(p)
        BY <1>0, <4>2 DEF StartScript, Starts
      <4> QED
        BY <2>1, <4>1, <4>2
    <3> QED
      BY <3>1, <3>2, CreatedTables DEF Tables
  <2>2. CASE Inspect(p)
    <3>1. proc[p].at \in Tables /\ proc[p] \in Starts
      BY <1>0, <2>2 DEF Inspect, Inspecting
    <3>2. /\ proc'[p].at = proc[p].at + 1
          /\ proc'[p].pc # "down"
          /\ proc'[p].pc = "inspecting" => proc[p].at < LastTable
      BY <1>0, <2>2 DEF Inspect, Starts
    <3> QED
      BY <3>1, <3>2, CreatedTables DEF Tables
  <2>3. CASE CreateTable(p)
    BY <1>0, <2>3 DEF CreateTable, Starts
  <2>5. CASE CreateIndexes(p)
    BY <1>0, <2>5 DEF CreateIndexes, Starts
  <2>4. CASE CreateFails(p) \/ Stop(p) \/ Die(p)
    <3>1. proc'[p] = Down \/ proc'[p] = [Down EXCEPT !.pc = "failed"]
      BY <1>0, <2>4 DEF CreateFails, Stop, Die
    <3> QED
      BY <3>1 DEF Down
  <2> QED
    BY <2>1, <2>2, <2>3, <2>4, <2>5 DEF ProcessNext
<1>3. Fresh' /\ Inspecting'
  BY <1>0, <1>1, <1>2 DEF Fresh, Inspecting
<1>4. db' \in Databases /\ db'.stamp = db.stamp
  <2>1. db \in Databases
    BY DEF Types, TypeOK
  <2>2. CASE CreateTable(p)
    BY <2>1, <2>2 DEF CreateTable, Databases
  <2>3. CASE CreateIndexes(p)
    BY <2>1, <2>3 DEF CreateIndexes, Databases
  <2> QED
    BY <2>1, <2>2, <2>3 DEF ProcessNext, StartService, StartScript, Inspect,
       CreateFails, Stop, Die
<1>5. UNCHANGED <<alembic, commands, lowered, spoiled>>
  BY DEF ProcessNext, StartService, StartScript, Inspect, CreateTable, CreateIndexes,
     CreateFails, Stop, Die
<1>6. \/ crashes' = crashes
      \/ crashes < MaxCrashes /\ crashes' = crashes + 1
  <2>1. CASE Die(p)
    BY <2>1 DEF Die
  <2>2. CASE ~Die(p)
    BY <2>2 DEF ProcessNext, StartService, StartScript, Inspect, CreateTable,
       CreateIndexes, CreateFails, Stop
  <2> QED
    BY <2>1, <2>2
<1>7. crashes' \in 0 .. MaxCrashes
  BY <1>6, CreatedTables DEF Types, TypeOK
<1>8. undermined' \subseteq undermined
  BY DEF ProcessNext, StartService, StartScript, Inspect, CreateTable, CreateIndexes,
     CreateFails, Stop, Die
<1>9. TypeOK'
  BY <1>1, <1>4, <1>5, <1>7, <1>8, Zenon DEF Types, TypeOK
<1>10. Migrating'
  BY <1>4, <1>5 DEF Types, Migrating
<1> QED
  BY <1>3, <1>9, <1>10 DEF Types

\* Each step of a command, with the database and the command it leaves.
LEMMA AlembicStep ==
    ASSUME db \in Databases, alembic \in Commands, Migrating, AlembicNext
    PROVE  db' \in Databases /\ alembic' \in Commands /\ Migrating'
<1>0. /\ Idle \in Commands
      /\ Idle.doing = "nothing"
  BY DEF Idle, Commands, HeadRevision
<1>1. CASE Upgrade
  <2>1. db.stamp + 1 \in 0 .. HeadRevision /\ HeadRevision \in 0 .. HeadRevision
    BY <1>1 DEF Upgrade, Databases, HeadRevision
  <2> QED
    BY <1>1, <2>1, AtCommands DEF Upgrade, Migrating
<1>2. CASE UpgradeTable
  <2>1. db' \in Databases /\ db'.stamp = db.stamp
    BY <1>2 DEF UpgradeTable, Databases
  <2>2. /\ alembic' \in Commands
        /\ alembic'.doing = "upgrade"
        /\ alembic'.revision = alembic.revision
    BY <1>2 DEF UpgradeTable, Commands
  <2> QED
    BY <1>2, <2>1, <2>2 DEF UpgradeTable, Migrating
<1>3. CASE UpgradeIndexes
  <2>1. db' \in Databases /\ db'.stamp = db.stamp
    BY <1>3 DEF UpgradeIndexes, Databases
  <2>2. /\ alembic' \in Commands
        /\ alembic'.doing = "upgrade"
        /\ alembic'.revision = alembic.revision
    BY <1>3 DEF UpgradeIndexes, Commands
  <2> QED
    BY <1>3, <2>1, <2>2 DEF UpgradeIndexes, Migrating
<1>4. CASE UpgradeStamp
  <2>1. /\ alembic.revision + 1 \in 0 .. HeadRevision
        /\ alembic.revision \in 0 .. HeadRevision
        /\ HeadRevision \in 0 .. HeadRevision
    BY <1>4 DEF UpgradeStamp, Commands, HeadRevision
  <2>2. db' \in Databases /\ db'.stamp = alembic.revision
    BY <1>4, <2>1 DEF UpgradeStamp, Databases
  <2> QED
    BY <1>4, <2>1, <2>2, AtCommands DEF UpgradeStamp, Migrating
<1>5. CASE Normalize
  <2>1. HeadRevision \in 0 .. HeadRevision
    BY DEF HeadRevision
  <2>2. db' \in Databases
    BY <1>5, <2>1 DEF Normalize, Databases
  <2> QED
    BY <1>0, <1>5, <2>2 DEF Normalize, Migrating
<1>6. CASE UpgradeFails \/ DowngradeFails \/ AlembicDies
  BY <1>0, <1>6 DEF UpgradeFails, DowngradeFails, AlembicDies, Migrating
<1>7. CASE Downgrade
  <2>1. PICK to \in 0 .. HeadRevision :
          to < db.stamp /\ alembic' = At("downgrade", db.stamp, to)
    BY <1>7 DEF Downgrade
  <2>2. db.stamp \in 0 .. HeadRevision
    BY DEF Databases
  <2> QED
    BY <1>7, <2>1, <2>2, AtCommands DEF Downgrade, Migrating
<1>8. CASE DropIndexes
  <2>1. db' \in Databases /\ db'.stamp = db.stamp
    BY <1>8 DEF DropIndexes, Databases
  <2>2. /\ alembic' \in Commands
        /\ alembic'.doing = "downgrade"
        /\ alembic'.revision = alembic.revision
        /\ alembic'.to = alembic.to
        /\ alembic'.left = alembic.left
    BY <1>8 DEF DropIndexes, Commands
  <2> QED
    BY <1>8, <2>1, <2>2 DEF DropIndexes, Migrating
<1>9. CASE DropTable
  <2>1. PICK t \in Tables :
          /\ db' = [db EXCEPT !.tables = @ \ {t}, !.indexed = @ \ {t}, !.legacy = @ \ {t}]
          /\ alembic' = [alembic EXCEPT !.half = FALSE, !.left = @ \ {t}]
    BY <1>9 DEF DropTable
  <2>2. db' \in Databases /\ db'.stamp = db.stamp
    BY <2>1 DEF Databases
  <2>3. /\ alembic' \in Commands
        /\ alembic'.doing = alembic.doing
        /\ alembic'.revision = alembic.revision
        /\ alembic'.to = alembic.to
        /\ alembic'.left \subseteq alembic.left
    BY <2>1 DEF Commands
  <2> QED
    BY <1>9, <2>2, <2>3 DEF DropTable, Migrating
<1>10. CASE DowngradeStamp
  <2>1. /\ alembic.revision \in 0 .. HeadRevision
        /\ alembic.to \in 0 .. HeadRevision
        /\ alembic.to < alembic.revision
    BY <1>10 DEF DowngradeStamp, Migrating, Commands
  <2>2. alembic.revision - 1 \in 0 .. HeadRevision
    BY <2>1 DEF HeadRevision
  <2>3. db' \in Databases /\ db'.stamp = alembic.revision - 1
    BY <1>10, <2>2 DEF DowngradeStamp, Databases
  <2>4. CASE alembic.revision - 1 = alembic.to
    BY <1>0, <1>10, <2>3, <2>4 DEF DowngradeStamp, Migrating
  <2>5. CASE alembic.revision - 1 # alembic.to
    <3>1. alembic.to < alembic.revision - 1
      BY <2>1, <2>5 DEF HeadRevision
    <3> QED
      BY <1>10, <2>1, <2>2, <2>3, <2>5, <3>1, AtCommands DEF DowngradeStamp, Migrating
  <2> QED
    BY <2>4, <2>5
<1> QED
  BY <1>1, <1>2, <1>3, <1>4, <1>5, <1>6, <1>7, <1>8, <1>9, <1>10 DEF AlembicNext

LEMMA AlembicTypes ==
    ASSUME Types, AlembicNext
    PROVE  Types'
<1>1. db' \in Databases /\ alembic' \in Commands /\ Migrating'
  BY AlembicStep DEF Types, TypeOK
<1>2. proc' = proc
  BY DEF AlembicNext, Upgrade, UpgradeTable, UpgradeIndexes, UpgradeStamp, Normalize,
     UpgradeFails, Downgrade, DropIndexes, DropTable, DowngradeStamp,
     DowngradeFails, AlembicDies
<1>3. commands' \in 0 .. MaxCommands
  <2>1. \/ commands' = commands
        \/ commands < MaxCommands /\ commands' = commands + 1
    BY DEF AlembicNext, Upgrade, UpgradeTable, UpgradeIndexes, UpgradeStamp, Normalize,
       UpgradeFails, Downgrade, DropIndexes, DropTable, DowngradeStamp,
       DowngradeFails, AlembicDies
  <2> QED
    BY <2>1, CreatedTables DEF Types, TypeOK
<1>4. crashes' \in 0 .. MaxCrashes
  <2>1. \/ crashes' = crashes
        \/ crashes < MaxCrashes /\ crashes' = crashes + 1
    BY DEF AlembicNext, Upgrade, UpgradeTable, UpgradeIndexes, UpgradeStamp, Normalize,
       UpgradeFails, Downgrade, DropIndexes, DropTable, DowngradeStamp,
       DowngradeFails, AlembicDies
  <2> QED
    BY <2>1, CreatedTables DEF Types, TypeOK
<1>5. /\ lowered' \in {lowered, TRUE}
      /\ spoiled' \in BOOLEAN
      /\ undermined' = undermined \/ undermined' \subseteq Processes
  <2>1. spoiled \in BOOLEAN
    BY DEF Types, TypeOK
  <2> QED
    BY <2>1 DEF AlembicNext, Upgrade, UpgradeTable, UpgradeIndexes, UpgradeStamp,
       Normalize, UpgradeFails, Downgrade, DropIndexes, DropTable, DowngradeStamp,
       DowngradeFails, AlembicDies
<1> QED
  BY <1>1, <1>2, <1>3, <1>4, <1>5 DEF Types, TypeOK, Fresh, Inspecting

LEMMA StutterTypes == Types /\ UNCHANGED vars => Types'
BY DEF Types, TypeOK, Fresh, Inspecting, Migrating, vars

\* Every variable of Deployment stays in its set.
THEOREM DeploymentTypeOK == Spec => []TypeOK
<1>1. Types /\ [Next]_vars => Types'
  BY ProcessTypes, AlembicTypes, StutterTypes DEF Next
<1>2. Types => TypeOK
  BY DEF Types
<1> QED
  BY <1>1, <1>2, InitTypes, PTL DEF Spec

(***************************************************************************)
(* The tables of a start, and the stamp.                                   *)
(***************************************************************************)
LEMMA InitInv == Init => Inv
<1> SUFFICES ASSUME Init PROVE Inv
  OBVIOUS
<1>1. proc = [p \in Processes |-> Down] /\ Down.pc = "down"
  BY DEF Init, Down
<1>2. Accounted
  BY <1>1 DEF Accounted
<1>3. alembic.doing = "nothing"
  BY DEF Init, Idle
<1>4. StampVouches
  BY <1>3, StoredAssumption DEF Init, StampVouches, Vouched
<1> QED
  BY <1>2, <1>3, <1>4, InitTypes DEF Inv, Upgrading

\* Without a downgrade the tables only grow.
LEMMA TablesGrow ==
    ASSUME db \in Databases, [Next]_vars, ~DropTable
    PROVE  db.tables \subseteq db'.tables
<1>1. CASE UpgradeTable
  BY <1>1 DEF UpgradeTable, Databases
<1>2. CASE UpgradeIndexes \/ DropIndexes \/ UpgradeStamp \/ DowngradeStamp \/ Normalize
  <2>1. CASE UpgradeIndexes
    BY <2>1 DEF UpgradeIndexes, Databases
  <2>2. CASE DropIndexes
    BY <2>2 DEF DropIndexes, Databases
  <2>3. CASE UpgradeStamp
    BY <2>3 DEF UpgradeStamp, Databases
  <2>4. CASE DowngradeStamp
    BY <2>4 DEF DowngradeStamp, Databases
  <2>5. CASE Normalize
    BY <2>5 DEF Normalize, Databases
  <2> QED
    BY <1>2, <2>1, <2>2, <2>3, <2>4, <2>5
<1>3. CASE Upgrade \/ Downgrade \/ UpgradeFails \/ DowngradeFails \/ AlembicDies
  BY <1>3 DEF Upgrade, Downgrade, UpgradeFails, DowngradeFails, AlembicDies
<1>4. ASSUME NEW p \in Processes, ProcessNext(p)
      PROVE  db.tables \subseteq db'.tables
  <2>1. CASE CreateTable(p)
    BY <2>1 DEF CreateTable, Databases
  <2>2. CASE CreateIndexes(p)
    BY <2>2 DEF CreateIndexes, Databases
  <2>3. CASE StartService(p) \/ StartScript(p) \/ Inspect(p)
    BY <2>3 DEF StartService, StartScript, Inspect
  <2>4. CASE CreateFails(p) \/ Stop(p) \/ Die(p)
    BY <2>4 DEF CreateFails, Stop, Die
  <2> QED
    BY <1>4, <2>1, <2>2, <2>3, <2>4 DEF ProcessNext
<1> QED
  BY <1>1, <1>2, <1>3, <1>4 DEF Next, AlembicNext, vars

\* What a start has passed in its inspection is there or noted as missing, and
\* only a downgrade takes it away.
LEMMA AccountedStep ==
    ASSUME Types, Accounted, [Next]_vars
    PROVE  Accounted'
<1>0. /\ proc \in [Processes -> Starts]
      /\ db \in Databases
      /\ Inspecting
      /\ Fresh
  BY DEF Types, TypeOK
<1>1. CASE DropTable
  <2>1. /\ proc' = proc
        /\ undermined' = {p \in Processes : proc[p].pc \in Running}
    BY <1>1 DEF DropTable
  <2> QED
    BY <2>1 DEF Accounted, Running
<1>2. CASE ~DropTable /\ UNCHANGED <<proc, undermined>>
  <2>1. db.tables \subseteq db'.tables
    BY <1>0, <1>2, TablesGrow
  <2> QED
    BY <1>2, <2>1 DEF Accounted, Passed
<1>3. AlembicNext => DropTable \/ UNCHANGED <<proc, undermined>>
  BY DEF AlembicNext, Upgrade, UpgradeTable, UpgradeIndexes, UpgradeStamp, Normalize,
     UpgradeFails, Downgrade, DropIndexes, DowngradeStamp, DowngradeFails, AlembicDies
<1>4. ASSUME NEW p \in Processes, ProcessNext(p), ~DropTable
      PROVE  Accounted'
  <2>1. /\ proc' \in [Processes -> Starts]
        /\ \A q \in Processes \ {p} : proc'[q] = proc[q]
    BY <1>0, <1>4, OwnStep
  <2>2. db.tables \subseteq db'.tables
    BY <1>0, <1>4, TablesGrow
  <2>3. undermined \ {p} \subseteq undermined'
    BY <1>4 DEF ProcessNext, StartService, StartScript, Inspect, CreateTable,
       CreateIndexes, CreateFails, Stop, Die
  <2>4. p \notin undermined' =>
          /\ proc'[p].pc \in {"inspecting", "creating"} =>
                 Passed(p)' \subseteq db'.tables \cup proc'[p].missing
          /\ proc'[p].pc = "serving" => Tables \subseteq db'.tables
    <3>1. CASE StartService(p)
      <4>1. /\ proc'[p].pc \in {"refused", "inspecting", "elsewhere"}
            /\ proc'[p].at = 1
        BY <1>0, <3>1 DEF StartService, Starts, Fresh, Down
      <4>2. Passed(p)' = {} \/ proc'[p].pc # "inspecting"
        BY <4>1, CreatedTables DEF Passed, Tables
      <4> QED
        BY <4>1, <4>2
    <3>2. CASE StartScript(p)
      <4>1. proc'[p].pc = "inspecting" /\ proc'[p].at = 1
        BY <1>0, <3>2 DEF StartScript, Starts, Fresh, Down
      <4>2. Passed(p)' = {}
        BY <4>1, CreatedTables DEF Passed, Tables
      <4> QED
        BY <4>1, <4>2
    <3>3. CASE Inspect(p)
      <4>1. /\ proc[p].pc = "inspecting"
            /\ proc[p].at \in Tables
            /\ db' = db
            /\ undermined' = undermined
        BY <1>0, <3>3 DEF Inspect, Inspecting
      <4>2. /\ proc'[p].at = proc[p].at + 1
            /\ proc'[p].missing = proc[p].missing \cup ({proc[p].at} \ db.tables)
            /\ proc'[p].pc = IF proc[p].at < LastTable THEN "inspecting"
                             ELSE IF proc'[p].missing = {} THEN "serving" ELSE "creating"
        BY <1>0, <3>3 DEF Inspect, Starts
      <4>3. Passed(p)' \subseteq Passed(p) \cup {proc[p].at}
        BY <4>1, <4>2, CreatedTables DEF Passed, Tables
      <4>4. p \notin undermined => Passed(p)' \subseteq db.tables \cup proc'[p].missing
        BY <4>1, <4>2, <4>3 DEF Accounted
      <4>5. proc'[p].pc = "serving" => Passed(p)' = Tables /\ proc'[p].missing = {}
        BY <4>2 DEF Passed
      <4> QED
        BY <4>1, <4>2, <4>4, <4>5
    <3>4. CASE CreateTable(p)
      <4>1. /\ proc[p].pc = "creating"
            /\ proc'[p].pc = "creating"
            /\ proc'[p].missing = proc[p].missing
            /\ undermined' = undermined
        BY <1>0, <3>4 DEF CreateTable, Starts
      <4> QED
        BY <2>2, <4>1 DEF Accounted, Passed
    <3>5. CASE CreateIndexes(p)
      <4>1. PICK t \in Tables :
              /\ t \in db.tables
              /\ proc' = [proc EXCEPT
                    ![p].half = FALSE, ![p].missing = @ \ {t},
                    ![p].pc = IF proc[p].missing = {t} THEN "serving" ELSE "creating"]
        BY <3>5 DEF CreateIndexes
      <4>2. /\ proc'[p].missing = proc[p].missing \ {t}
            /\ proc'[p].pc \in {"serving", "creating"}
            /\ proc'[p].pc = "serving" => proc'[p].missing = {}
        BY <1>0, <4>1 DEF Starts
      <4>3. proc[p].pc = "creating" /\ undermined' = undermined
        BY <3>5 DEF CreateIndexes
      <4>4. p \notin undermined => Tables \subseteq db'.tables \cup proc'[p].missing
        BY <2>2, <4>1, <4>2, <4>3 DEF Accounted, Passed
      <4> QED
        BY <4>2, <4>3, <4>4 DEF Passed
    <3>6. CASE CreateFails(p) \/ Stop(p) \/ Die(p)
      <4>1. proc'[p] = Down \/ proc'[p] = [Down EXCEPT !.pc = "failed"]
        BY <1>0, <3>6 DEF CreateFails, Stop, Die
      <4> QED
        BY <4>1 DEF Down
    <3> QED
      BY <1>4, <3>1, <3>2, <3>3, <3>4, <3>5, <3>6 DEF ProcessNext
  <2>5. ASSUME NEW q \in Processes \ {p}, q \notin undermined'
        PROVE  /\ proc'[q].pc \in {"inspecting", "creating"} =>
                      Passed(q)' \subseteq db'.tables \cup proc'[q].missing
               /\ proc'[q].pc = "serving" => Tables \subseteq db'.tables
    BY <2>1, <2>2, <2>3, <2>5 DEF Accounted, Passed
  <2> QED
    BY <2>4, <2>5 DEF Accounted
<1> QED
  BY <1>1, <1>2, <1>3, <1>4 DEF Next, vars

\* The stamp and the upgrade that is on its way to the next one.
LEMMA StampStep ==
    ASSUME Types, Upgrading, StampVouches, [Next]_vars
    PROVE  Upgrading' /\ StampVouches'
<1>0. /\ db \in Databases
      /\ alembic \in Commands
      /\ Migrating
      /\ db' \in Databases
  BY ProcessTypes, AlembicTypes, StutterTypes DEF Types, TypeOK, Next
<1>1. CASE /\ UNCHANGED alembic
           /\ db'.stamp = db.stamp
           /\ db'.legacy \subseteq db.legacy
           /\ db.tables \subseteq db'.tables
           /\ spoiled' = spoiled
  BY <1>1 DEF Upgrading, StampVouches, Vouched
<1>2. ASSUME NEW p \in Processes, ProcessNext(p)
      PROVE  Upgrading' /\ StampVouches'
  <2>1. /\ UNCHANGED <<alembic, spoiled>>
        /\ db' = db \/ CreateTable(p) \/ CreateIndexes(p)
    BY <1>2 DEF ProcessNext, StartService, StartScript, Inspect, CreateTable,
       CreateIndexes, CreateFails, Stop, Die
  <2>2. db'.stamp = db.stamp /\ db'.legacy = db.legacy /\ db.tables \subseteq db'.tables
    BY <1>0, <2>1 DEF CreateTable, CreateIndexes, Databases
  <2> QED
    BY <1>1, <2>1, <2>2
<1>3. CASE Upgrade
  <2>1. db.stamp + 1 \in 0 .. HeadRevision /\ HeadRevision \in 0 .. HeadRevision
    BY <1>0, <1>3 DEF Upgrade, Databases, HeadRevision
  <2>2. /\ alembic'.doing = "upgrade"
        /\ alembic'.left = Created(alembic'.revision)
        /\ alembic.doing = "nothing"
    BY <1>3, <2>1, AtCommands DEF Upgrade, Idle
  <2> QED
    BY <1>3, <2>2 DEF Upgrade, Upgrading, StampVouches, Vouched
<1>4. CASE UpgradeTable
  <2>1. /\ alembic'.doing = "upgrade" /\ alembic.doing = "upgrade"
        /\ alembic'.revision = alembic.revision
        /\ alembic'.left = alembic.left
    BY <1>0, <1>4 DEF UpgradeTable, Commands
  <2>2. /\ db'.stamp = db.stamp
        /\ db'.legacy = db.legacy
        /\ db.tables \subseteq db'.tables
        /\ spoiled' = spoiled
    BY <1>0, <1>4 DEF UpgradeTable, Databases
  <2> QED
    BY <2>1, <2>2 DEF Upgrading, StampVouches, Vouched
<1>5. CASE UpgradeIndexes
  <2>1. PICK t \in Tables :
          /\ t \in db.tables
          /\ alembic' = [alembic EXCEPT !.half = FALSE, !.left = @ \ {t}]
    BY <1>5 DEF UpgradeIndexes
  <2>2. /\ alembic'.doing = "upgrade" /\ alembic.doing = "upgrade"
        /\ alembic'.revision = alembic.revision
        /\ alembic'.left = alembic.left \ {t}
    BY <1>0, <1>5, <2>1 DEF UpgradeIndexes, Commands
  <2>3. /\ db'.stamp = db.stamp
        /\ db'.legacy = db.legacy
        /\ db.tables = db'.tables
        /\ spoiled' = spoiled
    BY <1>0, <1>5 DEF UpgradeIndexes, Databases
  <2> QED
    BY <2>1, <2>2, <2>3 DEF Upgrading, StampVouches, Vouched
<1>6. CASE UpgradeStamp
  <2>1. /\ alembic.doing = "upgrade"
        /\ alembic.left = {}
        /\ alembic.revision < HeadRevision
        /\ alembic.revision = db.stamp + 1
        /\ spoiled' = spoiled
    BY <1>0, <1>6 DEF UpgradeStamp, Migrating
  <2>2. /\ alembic.revision + 1 \in 0 .. HeadRevision
        /\ HeadRevision \in 0 .. HeadRevision
        /\ db.stamp \in Nat
    BY <1>0, <2>1 DEF Commands, Databases, HeadRevision
  <2>3. /\ alembic'.doing = "upgrade"
        /\ alembic'.left = Created(alembic'.revision)
    BY <1>6, <2>2, AtCommands DEF UpgradeStamp
  <2>4. /\ db'.stamp = alembic.revision
        /\ db'.stamp # HeadRevision
        /\ db'.tables = db.tables
    BY <1>0, <1>6, <2>2 DEF UpgradeStamp, Databases, HeadRevision
  <2>5. Created(alembic.revision) \subseteq db.tables
    BY <2>1 DEF Upgrading
  <2>6. \A r \in 1 .. db'.stamp : r = alembic.revision \/ r \in 1 .. db.stamp
    BY <2>1, <2>2, <2>4
  <2> QED
    BY <2>1, <2>3, <2>4, <2>5, <2>6 DEF Upgrading, StampVouches, Vouched
<1>7. CASE Normalize
  <2>1. /\ alembic.doing = "upgrade"
        /\ alembic.revision = HeadRevision
        /\ alembic.revision = db.stamp + 1
        /\ alembic'.doing = "nothing"
        /\ spoiled' = spoiled
    BY <1>0, <1>7 DEF Normalize, Migrating, Idle
  <2>2. /\ db'.stamp = HeadRevision
        /\ db'.legacy = {}
        /\ db'.tables = db.tables
        /\ db.stamp \in Nat
    BY <1>0, <1>7 DEF Normalize, Databases, HeadRevision
  <2>3. \A r \in 1 .. HeadRevision : r = HeadRevision \/ r \in 1 .. db.stamp
    BY <2>1, <2>2 DEF HeadRevision
  <2> QED
    BY <2>1, <2>2, <2>3, CreatedTables DEF Upgrading, StampVouches, Vouched
<1>8. CASE UpgradeFails
  <2>1. /\ db' = db /\ spoiled' = spoiled
        /\ alembic.doing = "upgrade" /\ alembic'.doing = "nothing"
    BY <1>8 DEF UpgradeFails, Idle
  <2> QED
    BY <2>1 DEF Upgrading, StampVouches, Vouched
<1>9. CASE DowngradeFails \/ AlembicDies
  <2>1. /\ db' = db
        /\ alembic'.doing = "nothing"
        /\ alembic.doing = "downgrade" => spoiled'
        /\ spoiled => spoiled'
    <3>1. CASE DowngradeFails
      BY <3>1 DEF DowngradeFails, Idle
    <3>2. CASE AlembicDies
      BY <3>2 DEF AlembicDies, Idle
    <3> QED
      BY <1>9, <3>1, <3>2
  <2> QED
    BY <2>1 DEF Upgrading, StampVouches, Vouched
<1>10. CASE Downgrade
  <2>1. PICK to \in 0 .. HeadRevision :
          to < db.stamp /\ alembic' = At("downgrade", db.stamp, to)
    BY <1>10 DEF Downgrade
  <2>2. db.stamp \in 0 .. HeadRevision
    BY <1>0 DEF Databases
  <2>3. /\ alembic'.doing = "downgrade"
        /\ alembic'.revision = db.stamp
        /\ alembic.doing = "nothing"
        /\ db' = db
        /\ spoiled' = spoiled
    BY <1>10, <2>1, <2>2, AtCommands DEF Downgrade, Idle
  <2>4. /\ \A r \in 1 .. db.stamp - 1 : r \in 1 .. db.stamp
        /\ db.stamp - 1 # HeadRevision
    BY <2>2 DEF HeadRevision
  <2> QED
    BY <2>3, <2>4 DEF Upgrading, StampVouches, Vouched
<1>11. CASE DropIndexes
  <2>1. /\ alembic'.doing = "downgrade" /\ alembic.doing = "downgrade"
        /\ alembic'.revision = alembic.revision
    BY <1>0, <1>11 DEF DropIndexes, Commands
  <2>2. /\ db'.legacy = db.legacy
        /\ db.tables = db'.tables
        /\ spoiled' = spoiled
    BY <1>0, <1>11 DEF DropIndexes, Databases
  <2> QED
    BY <2>1, <2>2 DEF Upgrading, StampVouches, Vouched
<1>12. CASE DropTable
  <2>1. PICK t \in Tables :
          /\ t \in alembic.left
          /\ db' = [db EXCEPT !.tables = @ \ {t}, !.indexed = @ \ {t}, !.legacy = @ \ {t}]
          /\ alembic' = [alembic EXCEPT !.half = FALSE, !.left = @ \ {t}]
    BY <1>12 DEF DropTable, Last
  <2>2. /\ alembic'.doing = "downgrade" /\ alembic.doing = "downgrade"
        /\ alembic'.revision = alembic.revision
        /\ spoiled' = spoiled
    BY <1>0, <1>12, <2>1 DEF DropTable, Commands
  <2>3. db'.legacy \subseteq db.legacy /\ db'.tables = db.tables \ {t}
    BY <1>0, <2>1 DEF Databases
  <2>4. t \in Created(alembic.revision) /\ alembic.revision \in Nat
    BY <1>0, <2>1, <2>2 DEF Migrating, Commands
  <2>5. \A r \in 1 .. alembic.revision - 1 : t \notin Created(r)
    <3> SUFFICES ASSUME NEW r \in 1 .. alembic.revision - 1 PROVE t \notin Created(r)
      OBVIOUS
    <3>1. r \in Nat /\ r # alembic.revision
      BY <2>4
    <3> QED
      BY <2>4, <3>1, CreatedTables
  <2> QED
    BY <2>2, <2>3, <2>5 DEF Upgrading, StampVouches, Vouched
<1>13. CASE DowngradeStamp
  <2>1. /\ alembic.doing = "downgrade"
        /\ alembic.revision \in 1 .. HeadRevision
        /\ alembic.to \in 0 .. HeadRevision
        /\ alembic.revision - 1 \in 0 .. HeadRevision
        /\ spoiled' = spoiled
    BY <1>0, <1>13 DEF DowngradeStamp, Migrating, Commands, HeadRevision
  <2>2. db'.stamp = alembic.revision - 1 /\ db'.tables = db.tables /\ db'.legacy = db.legacy
    BY <1>0, <1>13 DEF DowngradeStamp, Databases
  <2>3. CASE alembic' = Idle
    BY <2>1, <2>2, <2>3 DEF Idle, Upgrading, StampVouches, Vouched
  <2>4. CASE alembic' = At("downgrade", alembic.revision - 1, alembic.to)
    <3>1. alembic'.doing = "downgrade" /\ alembic'.revision = alembic.revision - 1
      BY <2>1, <2>4, AtCommands
    <3>2. /\ \A r \in 1 .. alembic.revision - 1 - 1 : r \in 1 .. alembic.revision - 1
          /\ alembic.revision - 1 - 1 # HeadRevision
      BY <2>1 DEF HeadRevision
    <3> QED
      BY <2>1, <2>2, <3>1, <3>2 DEF Upgrading, StampVouches, Vouched
  <2> QED
    BY <1>13, <2>3, <2>4 DEF DowngradeStamp
<1>14. CASE UNCHANGED vars
  BY <1>14 DEF vars, Upgrading, StampVouches, Vouched
<1> QED
  BY <1>2, <1>3, <1>4, <1>5, <1>6, <1>7, <1>8, <1>9, <1>10, <1>11, <1>12, <1>13, <1>14
  DEF Next, AlembicNext

LEMMA DeploymentInv == Spec => []Inv
<1>1. Inv /\ [Next]_vars => Inv'
  BY ProcessTypes, AlembicTypes, StutterTypes, AccountedStep, StampStep
  DEF Inv, Next
<1> QED
  BY <1>1, InitInv, PTL DEF Spec

\* A process that serves finds every table, however many others start beside
\* it, die half-way or migrate, unless a downgrade dropped tables under it.
THEOREM ServingFindsTables == Spec => []ServingHasTables
<1>1. Inv => ServingHasTables
  <2>1. Inv => db.tables \subseteq Tables
    BY DEF Inv, Types, TypeOK, Databases
  <2> QED
    BY <2>1 DEF Inv, Accounted, ServingHasTables
<1> QED
  BY <1>1, DeploymentInv, PTL

\* The stamp never says more than the database holds, as long as no downgrade
\* ended before its stamp.
THEOREM StampIsHonest == Spec => []StampVouches
<1>1. Inv => StampVouches
  BY DEF Inv
<1> QED
  BY <1>1, DeploymentInv, PTL

(***************************************************************************)
(* Failed starts.  As long as nothing has died and nobody downgrades, the  *)
(* database is Undisturbed.  A table without its indexes is in the hands   *)
(* of the one start or upgrade that made it (Halves).  Unless every table  *)
(* is there or nobody has been hurt by another yet, somebody is on the way *)
(* who will not fail on a table that is there by now, or two are: an       *)
(* upgrade that makes the rest of 0001, and a start that has the tables of *)
(* 0002 before it and only then what the upgrade takes away (Live).        *)
(* Segment, Turned, Ahead and Begun say in which order tables appear:      *)
(* a start makes one when all before it are there, an upgrade one of 0002  *)
(* when all of 0001 are.                                                   *)
(***************************************************************************)
\* create_all and 0001 take the tables of 0001 alike, none of them between those
\* of 0002, of which there are no more than two.
SameOrder ==
    /\ \A t \in InitialTables, u, v \in LifecycleTables : ~(u < t /\ t < v)
    /\ \A t, u \in InitialTables : t < u => Rank[t] < Rank[u]
    /\ \A t, u, v \in LifecycleTables : t = u \/ u = v \/ t = v

\* A database found is a new one or what a release leaves.
WholeReleases == \A d \in Stored : d.tables \in {{}, InitialTables, Tables}

HalfMade == db.tables \ db.indexed

Making(p, t) == proc[p].pc = "creating" /\ proc[p].half /\ Least(t, proc[p].missing)

Upgrades(t) == alembic.doing = "upgrade" /\ alembic.half /\ First(t, alembic.left)

Halves ==
    /\ db.indexed \subseteq db.tables
    /\ \A p \in Processes : proc[p].half => \E t \in Tables : Making(p, t)
    /\ alembic.half => \E t \in Tables : Upgrades(t)
    /\ \A t \in Tables : Upgrades(t) => t \in HalfMade
    /\ \A p \in Processes, t \in Tables : Making(p, t) => t \in HalfMade /\ ~Upgrades(t)
    /\ \A p, q \in Processes, t \in Tables : Making(p, t) /\ Making(q, t) => p = q
    /\ \A t \in HalfMade : Upgrades(t) \/ \E p \in Processes : Making(p, t)

Segment == \A t \in InitialTables, u \in db.tables : t < u => t \in db.tables

Working ==
    /\ alembic.doing # "downgrade"
    /\ alembic.doing = "upgrade" => alembic.left \subseteq Created(alembic.revision)

Unhurt ==
    \A p \in Processes : proc[p].pc # "failed" /\ proc[p].missing \cap db.tables = {}

Steady(p) ==
    /\ proc[p].pc = "creating"
    /\ \A t \in proc[p].missing \cap db.tables : Making(p, t)

SteadyUpgrade ==
    /\ alembic.doing = "upgrade"
    /\ alembic.revision \in {1, 2}
    /\ alembic.revision = 1 => db.tables \subseteq InitialTables
    /\ \A t \in alembic.left \cap db.tables : Upgrades(t)

Behind(t) == t \in InitialTables /\ \A u \in LifecycleTables : u < t

Onward(p) ==
    /\ proc[p].pc = "creating"
    /\ \A t \in proc[p].missing \cap db.tables : Making(p, t) \/ Behind(t)

FirstSafe ==
    \/ InitialTables \subseteq db.tables
    \/ /\ alembic.doing = "upgrade"
       /\ alembic.revision = 1
       /\ \A t \in alembic.left \cap db.tables : Upgrades(t)

SecondSafe == LifecycleTables \subseteq db.tables \/ \E p \in Processes : Onward(p)

Live ==
    \/ db.tables = Tables
    \/ Unhurt
    \/ SteadyUpgrade
    \/ \E p \in Processes : Steady(p)
    \/ FirstSafe /\ SecondSafe

Turned ==
    \A t, u \in LifecycleTables :
        t < u /\ u \in db.tables => t \in db.tables \/ InitialTables \subseteq db.tables

Ahead ==
    \A t \in LifecycleTables, u \in InitialTables \cap db.tables :
        t < u => t \in db.tables \/ FirstSafe

Begun ==
    LifecycleTables \cap db.tables # {} => InitialTables \subseteq db.tables \/ SecondSafe

Appearing == Segment /\ Turned /\ Ahead /\ Begun

Calm == crashes = 0 /\ ~lowered

Undisturbed == undermined = {} /\ ~spoiled /\ Working /\ Appearing /\ Halves /\ Live

LEMMA OneLeast ==
    ASSUME NEW S, NEW t \in Tables, NEW u \in Tables
    PROVE  /\ Least(t, S) /\ Least(u, S) => t = u
           /\ First(t, S) /\ First(u, S) => t = u
BY DeploymentAssumption DEF Least, First, Tables

LEMMA InitUndisturbed ==
    ASSUME Init, SameOrder, WholeReleases
    PROVE  Undisturbed
<1>1. /\ db \in Stored
      /\ proc = [p \in Processes |-> Down]
      /\ alembic.doing = "nothing" /\ ~alembic.half
      /\ undermined = {} /\ ~spoiled
  BY DEF Init, Idle
<1>2. db \in Databases /\ db.indexed = db.tables /\ db.tables \in {{}, InitialTables, Tables}
  BY <1>1, StoredAssumption DEF WholeReleases
<1>3. \A p \in Processes : ~proc[p].half /\ proc[p].missing = {} /\ proc[p].pc = "down"
  BY <1>1 DEF Down
<1>4. Appearing
  BY <1>2, CreatedTables
  DEF Appearing, Segment, Turned, Ahead, Begun, FirstSafe, SecondSafe, LifecycleTables, Tables
<1>5. Halves
  BY <1>1, <1>2, <1>3 DEF Halves, HalfMade, Making, Upgrades
<1>6. Unhurt
  BY <1>3 DEF Unhurt
<1> QED
  BY <1>1, <1>4, <1>5, <1>6 DEF Undisturbed, Working, Live

\* Crashes and downgrades are not taken back.
LEMMA CalmBefore ==
    ASSUME Types, [Next]_vars, Calm'
    PROVE  /\ Calm
           /\ ~AlembicDies /\ ~Downgrade
           /\ \A p \in Processes : ~Die(p)
<1>1. crashes \in Nat
  BY CreatedTables DEF Types, TypeOK
<1>2. ~AlembicDies /\ ~Downgrade /\ \A p \in Processes : ~Die(p)
  BY <1>1 DEF Calm, AlembicDies, Downgrade, Die
<1>3. UNCHANGED <<crashes, lowered>>
  BY <1>2 DEF Next, vars, AlembicNext, Upgrade, UpgradeTable, UpgradeIndexes, UpgradeStamp,
     Normalize, UpgradeFails, DropIndexes, DropTable, DowngradeStamp, DowngradeFails,
     ProcessNext, StartService, StartScript, Inspect, CreateTable, CreateIndexes,
     CreateFails, Stop
<1> QED
  BY <1>2, <1>3 DEF Calm

\* A start changes without making or finishing a table.
LEMMA OtherStart ==
    ASSUME Undisturbed, NEW p \in Processes,
           UNCHANGED <<db, alembic, spoiled>>, undermined' = {},
           \A q \in Processes \ {p} : proc'[q] = proc[q],
           ~proc[p].half, ~proc'[p].half, ~Steady(p),
           Onward(p) => LifecycleTables \subseteq db.tables,
           Unhurt => proc'[p].pc # "failed" /\ proc'[p].missing \cap db.tables = {}
    PROVE  Undisturbed'
<1>1. \A t : ~Making(p, t) /\ ~Making(p, t)'
  BY DEF Making
<1>2. \A q \in Processes : \A t : Making(q, t)' = Making(q, t)
  BY <1>1 DEF Making
<1>3. \A t : Upgrades(t)' = Upgrades(t)
  BY DEF Upgrades
<1>4. Halves'
  <2>1. \A q \in Processes : proc'[q].half => proc[q].half
    OBVIOUS
  <2>2. HalfMade' = HalfMade
    BY DEF HalfMade
  <2> QED
    BY <1>2, <1>3, <2>1, <2>2 DEF Undisturbed, Halves
<1>5. (FirstSafe => FirstSafe') /\ (SecondSafe => SecondSafe')
  <2>1. \A q \in Processes \ {p} : Onward(q) => Onward(q)'
    BY <1>2 DEF Onward
  <2> QED
    BY <1>3, <2>1 DEF FirstSafe, SecondSafe
<1>6. Live'
  <2>1. Unhurt => Unhurt'
    BY DEF Unhurt
  <2>2. SteadyUpgrade => SteadyUpgrade'
    BY <1>3 DEF SteadyUpgrade
  <2>3. \A q \in Processes : Steady(q) => Steady(q)'
    BY <1>2 DEF Steady
  <2> QED
    BY <1>5, <2>1, <2>2, <2>3 DEF Undisturbed, Live
<1>7. Appearing'
  BY <1>5 DEF Undisturbed, Appearing, Segment, Turned, Ahead, Begun
<1> QED
  BY <1>4, <1>6, <1>7 DEF Undisturbed, Working

\* A command changes without making or finishing a table.
LEMMA OtherCommand ==
    ASSUME Undisturbed, UNCHANGED <<proc, undermined, spoiled>>,
           db'.tables = db.tables, db'.indexed = db.indexed,
           ~alembic.half, ~alembic'.half, Working', FirstSafe => FirstSafe',
           SteadyUpgrade => db.tables = Tables \/ SteadyUpgrade'
    PROVE  Undisturbed'
<1>1. \A t : ~Upgrades(t) /\ ~Upgrades(t)'
  BY DEF Upgrades
<1>2. \A q \in Processes : \A t : Making(q, t)' = Making(q, t)
  BY DEF Making
<1>3. Halves'
  <2>1. HalfMade' = HalfMade
    BY DEF HalfMade
  <2> QED
    BY <1>1, <1>2, <2>1 DEF Undisturbed, Halves
<1>4. SecondSafe => SecondSafe'
  BY <1>2 DEF SecondSafe, Onward
<1>5. Live'
  <2>1. Unhurt => Unhurt'
    BY DEF Unhurt
  <2>2. \A q \in Processes : Steady(q) => Steady(q)'
    BY <1>2 DEF Steady
  <2> QED
    BY <1>4, <2>1, <2>2 DEF Undisturbed, Live
<1>6. Appearing'
  BY <1>4 DEF Undisturbed, Appearing, Segment, Turned, Ahead, Begun
<1> QED
  BY <1>3, <1>5, <1>6 DEF Undisturbed

\* A start makes the table whose turn it is.
LEMMA StartMakes ==
    ASSUME SameOrder, Types, Accounted, Undisturbed, NEW p \in Processes, CreateTable(p)
    PROVE  Undisturbed'
<1>0. /\ proc \in [Processes -> Starts]
      /\ db \in Databases
      /\ proc[p].pc = "creating" /\ ~proc[p].half
      /\ Segment /\ Turned /\ Ahead /\ Begun /\ Halves /\ Working
  BY DEF CreateTable, Types, TypeOK, Undisturbed, Appearing
<1>1. PICK t \in Tables :
        /\ Least(t, proc[p].missing)
        /\ t \notin db.tables
        /\ db' = [db EXCEPT !.tables = @ \cup {t}]
  BY DEF CreateTable
<1>2. db'.tables = db.tables \cup {t} /\ db'.indexed = db.indexed
  BY <1>0, <1>1 DEF Databases
<1>3. /\ proc'[p].half
      /\ proc'[p].pc = "creating"
      /\ proc'[p].missing = proc[p].missing
      /\ \A q \in Processes \ {p} : proc'[q] = proc[q]
      /\ UNCHANGED <<alembic, undermined, spoiled>>
  BY <1>0 DEF CreateTable, Starts
<1>4. /\ \A u : Making(p, u)' <=> Least(u, proc[p].missing)
      /\ \A q \in Processes \ {p} : \A u : Making(q, u)' = Making(q, u)
      /\ \A u : Upgrades(u)' = Upgrades(u)
      /\ \A u : ~Making(p, u)
  BY <1>0, <1>3 DEF Making, Upgrades
<1>5. \A u \in Tables : Making(p, u)' <=> u = t
  BY <1>1, <1>4, OneLeast
<1>6. HalfMade' = HalfMade \cup {t} /\ t \notin HalfMade
  BY <1>0, <1>1, <1>2 DEF HalfMade, Halves
<1>7. Halves'
  <2>1. db'.indexed \subseteq db'.tables
    BY <1>0, <1>2 DEF Halves
  <2>2. \A q \in Processes : proc'[q].half => \E u \in Tables : Making(q, u)'
    BY <1>0, <1>1, <1>3, <1>4, <1>5 DEF Halves
  <2>3. alembic'.half => \E u \in Tables : Upgrades(u)'
    BY <1>0, <1>3, <1>4 DEF Halves
  <2>4. \A u \in Tables : Upgrades(u)' => u \in HalfMade'
    BY <1>0, <1>4, <1>6 DEF Halves
  <2>5. \A q \in Processes, u \in Tables : Making(q, u)' => u \in HalfMade' /\ ~Upgrades(u)'
    BY <1>0, <1>4, <1>5, <1>6 DEF Halves
  <2>6. \A q, r \in Processes, u \in Tables : Making(q, u)' /\ Making(r, u)' => q = r
    BY <1>0, <1>4, <1>5, <1>6 DEF Halves
  <2>7. \A u \in HalfMade' : Upgrades(u)' \/ \E q \in Processes : Making(q, u)'
    BY <1>0, <1>1, <1>4, <1>5, <1>6 DEF Halves
  <2> QED
    BY <2>1, <2>2, <2>3, <2>4, <2>5, <2>6, <2>7 DEF Halves
<1>8. \A u \in Tables : u < t => u \in db.tables
  <2>1. Tables \subseteq db.tables \cup proc[p].missing
    BY <1>0 DEF Accounted, Undisturbed, Passed
  <2>2. \A u \in Tables : u < t => u \notin proc[p].missing
    BY <1>1, CreatedTables DEF Least, Tables
  <2> QED
    BY <2>1, <2>2
<1>9. \A u \in proc[p].missing \cap db.tables : t < u /\ t \in LifecycleTables
  <2> SUFFICES ASSUME NEW u \in proc[p].missing \cap db.tables
               PROVE  t < u /\ t \in LifecycleTables
    OBVIOUS
  <2>1. u \in Tables /\ t < u
    BY <1>0, <1>1, CreatedTables DEF Least, Databases, Tables
  <2> QED
    BY <1>0, <1>1, <2>1 DEF Segment, LifecycleTables
<1>10. FirstSafe /\ t \in LifecycleTables => FirstSafe'
  BY <1>0, <1>2, <1>3, <1>4 DEF FirstSafe, Working, Created, LifecycleTables
<1>11. ASSUME t \in LifecycleTables,
              \A u \in proc[p].missing \cap db.tables : u \in InitialTables
       PROVE  Onward(p)'
  <2>1. \A u \in proc[p].missing \cap db.tables : Behind(u)
    <3> SUFFICES ASSUME NEW u \in proc[p].missing \cap db.tables, NEW v \in LifecycleTables
                 PROVE  u \in InitialTables /\ v < u
      BY <1>11 DEF Behind
    <3>1. t < u /\ u \in InitialTables /\ u \in Nat /\ v \in Nat /\ u # v
      <4>1. t < u /\ u \in InitialTables
        BY <1>9, <1>11
      <4>2. u \in Tables /\ v \in Tables /\ u # v
        BY <4>1, CreatedTables DEF LifecycleTables
      <4> QED
        BY <4>1, <4>2, CreatedTables DEF Tables
    <3>2. ~(u < v)
      BY <1>11, <3>1 DEF SameOrder
    <3> QED
      BY <3>1, <3>2
  <2> QED
    BY <1>1, <1>2, <1>3, <1>5, <2>1 DEF Onward, Behind
<1>12. ASSUME NEW u \in proc[p].missing \cap db.tables, u \notin InitialTables
       PROVE  db'.tables = Tables
  <2>1. t < u /\ t \in LifecycleTables /\ u \in LifecycleTables
    BY <1>0, <1>9, <1>12 DEF Databases, LifecycleTables
  <2>2. InitialTables \subseteq db.tables
    BY <1>0, <1>1, <2>1 DEF Turned
  <2>3. \A v \in LifecycleTables : v \in {t, u}
    BY <2>1, CreatedTables DEF SameOrder, LifecycleTables, Tables
  <2> QED
    BY <1>0, <1>2, <2>2, <2>3 DEF LifecycleTables, Databases
<1>13. Segment' /\ Turned'
  BY <1>0, <1>2, <1>8, CreatedTables DEF Segment, Turned, LifecycleTables
<1>14. Ahead'
  <2> SUFFICES ASSUME NEW v \in LifecycleTables, NEW u \in InitialTables,
                      u \in db'.tables, v < u, v \notin db'.tables
               PROVE  FirstSafe'
    BY DEF Ahead
  <2>1. v \in Tables /\ u \in Tables /\ v \notin db.tables /\ v # t
    BY <1>2, CreatedTables DEF LifecycleTables
  <2>2. t < v
    BY <1>8, <2>1, CreatedTables DEF Tables
  <2>3. u \in db.tables /\ t < u
    BY <1>2, <2>1, <2>2, CreatedTables DEF Tables
  <2>4. t \in LifecycleTables
    BY <1>0, <1>1, <2>3 DEF Segment, LifecycleTables
  <2> QED
    BY <1>0, <1>10, <2>1, <2>3, <2>4 DEF Ahead
<1>15. Begun'
  <2>1. CASE t \in LifecycleTables
    BY <1>2, <1>11, <1>12, <2>1, CreatedTables DEF Begun, SecondSafe
  <2>2. ASSUME t \in InitialTables, NEW v \in LifecycleTables, v \in db.tables
        PROVE  LifecycleTables \subseteq db.tables
    <3>1. v < t
      BY <1>0, <1>1, <2>2, CreatedTables DEF Segment, LifecycleTables, Tables
    <3>2. \A u \in LifecycleTables : u < t
      BY <2>2, <3>1, CreatedTables DEF SameOrder, LifecycleTables, Tables
    <3> QED
      BY <1>8, <3>2 DEF LifecycleTables
  <2> QED
    BY <1>2, <2>1, <2>2 DEF Begun, SecondSafe, LifecycleTables
<1>16. Live'
  <2>1. CASE proc[p].missing \cap db.tables = {}
    <3>1. Steady(p)'
      BY <1>1, <1>2, <1>3, <1>5, <2>1 DEF Steady
    <3> QED
      BY <3>1 DEF Live
  <2>2. ASSUME NEW u \in proc[p].missing \cap db.tables,
               \A v \in proc[p].missing \cap db.tables : v \in InitialTables
        PROVE  FirstSafe' /\ SecondSafe'
    BY <1>0, <1>1, <1>9, <1>10, <1>11, <2>2 DEF Ahead, SecondSafe
  <2> QED
    BY <1>12, <2>1, <2>2 DEF Live
<1> QED
  BY <1>0, <1>3, <1>7, <1>13, <1>14, <1>15, <1>16 DEF Undisturbed, Working, Appearing

\* It is done with that table.
LEMMA StartFinishes ==
    ASSUME Types, Accounted, Undisturbed, NEW p \in Processes, CreateIndexes(p)
    PROVE  Undisturbed'
<1>0. /\ proc \in [Processes -> Starts]
      /\ db \in Databases
      /\ proc[p].pc = "creating" /\ proc[p].half
      /\ Segment /\ Turned /\ Ahead /\ Begun /\ Halves /\ Working
  BY DEF CreateIndexes, Types, TypeOK, Undisturbed, Appearing
<1>1. PICK t \in Tables :
        /\ Least(t, proc[p].missing)
        /\ t \in db.tables \ db.indexed
        /\ db' = [db EXCEPT !.indexed = @ \cup {t}]
        /\ proc' = [proc EXCEPT
              ![p].half = FALSE,
              ![p].missing = @ \ {t},
              ![p].pc = IF proc[p].missing = {t} THEN "serving" ELSE "creating"]
  BY DEF CreateIndexes
<1>2. db'.tables = db.tables /\ db'.indexed = db.indexed \cup {t}
  BY <1>0, <1>1 DEF Databases
<1>3. /\ ~proc'[p].half
      /\ proc'[p].pc = (IF proc[p].missing = {t} THEN "serving" ELSE "creating")
      /\ proc'[p].missing = proc[p].missing \ {t}
      /\ \A q \in Processes \ {p} : proc'[q] = proc[q]
      /\ UNCHANGED <<alembic, undermined, spoiled>>
  <2>1. UNCHANGED <<alembic, undermined, spoiled>>
    BY DEF CreateIndexes
  <2> QED
    BY <1>0, <1>1, <2>1 DEF Starts
<1>4. /\ \A u : ~Making(p, u)'
      /\ \A q \in Processes \ {p} : \A u : Making(q, u)' = Making(q, u)
      /\ \A u : Upgrades(u)' = Upgrades(u)
      /\ \A u \in Tables : Making(p, u) <=> u = t
  BY <1>0, <1>1, <1>3, OneLeast DEF Making, Upgrades
<1>5. HalfMade' = HalfMade \ {t}
  BY <1>2 DEF HalfMade
<1>6. /\ ~Upgrades(t)
      /\ \A q \in Processes \ {p} : ~Making(q, t)
  BY <1>0, <1>4 DEF Halves
<1>7. Halves'
  <2>1. db'.indexed \subseteq db'.tables
    BY <1>0, <1>1, <1>2 DEF Halves
  <2>2. \A q \in Processes : proc'[q].half => \E u \in Tables : Making(q, u)'
    BY <1>0, <1>3, <1>4 DEF Halves
  <2>3. alembic'.half => \E u \in Tables : Upgrades(u)'
    BY <1>0, <1>3, <1>4 DEF Halves
  <2>4. \A u \in Tables : Upgrades(u)' => u \in HalfMade'
    BY <1>0, <1>4, <1>5, <1>6 DEF Halves
  <2>5. \A q \in Processes, u \in Tables : Making(q, u)' => u \in HalfMade' /\ ~Upgrades(u)'
    BY <1>0, <1>4, <1>5, <1>6 DEF Halves
  <2>6. \A q, r \in Processes, u \in Tables : Making(q, u)' /\ Making(r, u)' => q = r
    BY <1>0, <1>4 DEF Halves
  <2>7. \A u \in HalfMade' : Upgrades(u)' \/ \E q \in Processes : Making(q, u)'
    <3> SUFFICES ASSUME NEW u \in HalfMade'
                 PROVE  Upgrades(u)' \/ \E q \in Processes : Making(q, u)'
      OBVIOUS
    <3>1. u \in HalfMade /\ u # t /\ u \in Tables
      BY <1>0, <1>5 DEF HalfMade, Databases
    <3>2. Upgrades(u) \/ \E q \in Processes : Making(q, u)
      BY <1>0, <3>1 DEF Halves
    <3> QED
      BY <1>4, <3>1, <3>2
  <2> QED
    BY <2>1, <2>2, <2>3, <2>4, <2>5, <2>6, <2>7 DEF Halves
<1>8. (FirstSafe => FirstSafe') /\ (SecondSafe => SecondSafe')
  <2>1. Tables \subseteq db.tables \cup proc[p].missing
    BY <1>0 DEF Accounted, Undisturbed, Passed
  <2>2. CASE proc[p].missing = {t}
    <3>1. LifecycleTables \subseteq db'.tables
      BY <1>1, <1>2, <2>1, <2>2, CreatedTables
    <3> QED
      BY <1>2, <1>3, <1>4, <3>1 DEF SecondSafe, FirstSafe
  <2>3. ASSUME proc[p].missing # {t}, Onward(p)
        PROVE  Onward(p)'
    BY <1>0, <1>2, <1>3, <1>4, <2>3 DEF Onward, Behind, Databases
  <2>4. \A q \in Processes \ {p} : Onward(q) => Onward(q)'
    BY <1>2, <1>3, <1>4 DEF Onward, Behind
  <2>5. SecondSafe => SecondSafe'
    BY <1>2, <2>2, <2>3, <2>4 DEF SecondSafe
  <2> QED
    BY <1>2, <1>3, <1>4, <2>5 DEF FirstSafe
<1>9. Appearing'
  BY <1>0, <1>2, <1>8 DEF Appearing, Segment, Turned, Ahead, Begun
<1>10. Live'
  <2>1. Unhurt => Unhurt'
    BY <1>2, <1>3 DEF Unhurt
  <2>2. SteadyUpgrade => SteadyUpgrade'
    BY <1>2, <1>3, <1>4 DEF SteadyUpgrade
  <2>3. \A q \in Processes \ {p} : Steady(q) => Steady(q)'
    BY <1>2, <1>3, <1>4 DEF Steady
  <2>4. FirstSafe /\ SecondSafe => FirstSafe' /\ SecondSafe'
    BY <1>8
  <2>5. CASE Steady(p)
    <3>1. proc'[p].missing \cap db'.tables = {}
      BY <1>0, <1>2, <1>3, <1>4, <2>5 DEF Steady, Databases
    <3>2. CASE proc[p].missing # {t}
      BY <1>3, <3>1, <3>2 DEF Live, Steady
    <3>3. CASE proc[p].missing = {t}
      <4>1. Tables \subseteq db.tables \cup proc[p].missing
        BY <1>0 DEF Accounted, Undisturbed, Passed
      <4> QED
        BY <1>0, <1>1, <1>2, <3>3, <4>1 DEF Live, Databases
    <3> QED
      BY <3>2, <3>3
  <2> QED
    BY <1>2, <2>1, <2>2, <2>3, <2>4, <2>5 DEF Undisturbed, Live
<1> QED
  BY <1>0, <1>3, <1>7, <1>9, <1>10 DEF Undisturbed, Working

\* An upgrade makes the table whose turn it is.
LEMMA UpgradeMakes ==
    ASSUME SameOrder, Types, Upgrading, StampVouches, Undisturbed, UpgradeTable
    PROVE  Undisturbed'
<1>0. /\ alembic \in Commands
      /\ db \in Databases
      /\ alembic.doing = "upgrade" /\ ~alembic.half
      /\ alembic.revision = db.stamp + 1
      /\ Segment /\ Turned /\ Ahead /\ Begun /\ Halves /\ Working
  BY DEF UpgradeTable, Types, TypeOK, Undisturbed, Appearing, Migrating
<1>1. PICK t \in Tables :
        /\ First(t, alembic.left)
        /\ t \notin db.tables
        /\ db' = [db EXCEPT !.tables = @ \cup {t}]
  BY DEF UpgradeTable
<1>2. db'.tables = db.tables \cup {t} /\ db'.indexed = db.indexed
  BY <1>0, <1>1 DEF Databases
<1>3. /\ alembic'.half
      /\ alembic'.doing = "upgrade"
      /\ alembic'.left = alembic.left
      /\ alembic'.revision = alembic.revision
      /\ UNCHANGED <<proc, undermined, spoiled>>
  BY <1>0 DEF UpgradeTable, Commands
<1>4. /\ \A u \in Tables : Upgrades(u)' <=> u = t
      /\ \A u : ~Upgrades(u)
      /\ \A q \in Processes : \A u : Making(q, u)' = Making(q, u)
  BY <1>0, <1>1, <1>3, OneLeast DEF Making, Upgrades
<1>5. HalfMade' = HalfMade \cup {t} /\ t \notin HalfMade
  BY <1>0, <1>1, <1>2 DEF HalfMade, Halves
<1>6. Halves'
  <2>1. db'.indexed \subseteq db'.tables
    BY <1>0, <1>2 DEF Halves
  <2>2. \A q \in Processes : proc'[q].half => \E u \in Tables : Making(q, u)'
    BY <1>0, <1>3, <1>4 DEF Halves
  <2>3. \E u \in Tables : Upgrades(u)'
    BY <1>4
  <2>4. \A u \in Tables : Upgrades(u)' => u \in HalfMade'
    BY <1>4, <1>5
  <2>5. \A q \in Processes, u \in Tables : Making(q, u)' => u \in HalfMade' /\ ~Upgrades(u)'
    BY <1>0, <1>4, <1>5 DEF Halves
  <2>6. \A q, r \in Processes, u \in Tables : Making(q, u)' /\ Making(r, u)' => q = r
    BY <1>0, <1>4 DEF Halves
  <2>7. \A u \in HalfMade' : Upgrades(u)' \/ \E q \in Processes : Making(q, u)'
    BY <1>0, <1>1, <1>4, <1>5 DEF Halves
  <2> QED
    BY <2>1, <2>2, <2>3, <2>4, <2>5, <2>6, <2>7 DEF Halves
<1>7. /\ alembic.left \subseteq Created(alembic.revision)
      /\ t \in alembic.left
      /\ alembic.revision \in {1, 2}
  BY <1>0, <1>1 DEF Working, First, Created, Commands, HeadRevision
<1>8. CASE alembic.revision = 1
  <2>1. t \in InitialTables /\ alembic.left \subseteq InitialTables
    BY <1>7, <1>8 DEF Created
  <2>2. \A u \in InitialTables : u < t => u \in db.tables
    <3>1. ASSUME NEW u \in InitialTables, u < t
          PROVE  u \notin alembic.left
      <4>1. Rank[u] < Rank[t] /\ Rank[u] \in Nat /\ Rank[t] \in Nat
        BY <2>1, <3>1, CreatedTables, DeploymentAssumption DEF SameOrder
      <4> QED
        BY <1>1, <4>1 DEF First
    <3> QED
      BY <1>0, <1>8, <3>1 DEF Upgrading, Created
  <2>3. Segment'
    BY <1>0, <1>2, <2>2 DEF Segment
  <2>4. \A u \in alembic.left \cap db.tables : FALSE
    <3> SUFFICES ASSUME NEW u \in alembic.left \cap db.tables PROVE FALSE
      OBVIOUS
    <3>1. u \in InitialTables /\ u # t /\ ~(t < u)
      BY <1>0, <1>1, <2>1 DEF Segment
    <3>2. u < t
      BY <2>1, <3>1, CreatedTables DEF Tables
    <3>3. Rank[u] < Rank[t] /\ Rank[u] \in Nat /\ Rank[t] \in Nat
      BY <2>1, <3>1, <3>2, CreatedTables, DeploymentAssumption DEF SameOrder
    <3> QED
      BY <1>1, <3>3 DEF First
  <2>5. FirstSafe'
    BY <1>2, <1>3, <1>4, <1>8, <2>4 DEF FirstSafe
  <2>6. ASSUME NEW v \in LifecycleTables, v \in db.tables
        PROVE  Behind(t)
    <3> SUFFICES ASSUME NEW u \in LifecycleTables
                 PROVE  u < t
      BY <2>1 DEF Behind
    <3>1. t \in Nat /\ u \in Nat /\ v \in Nat /\ t # u /\ t # v
      BY <2>1, CreatedTables DEF LifecycleTables, Tables
    <3>2. ~(t < v)
      BY <1>0, <1>1, <2>1, <2>6 DEF Segment
    <3>3. ~(t < u)
      BY <2>1, <2>6, <3>1, <3>2 DEF SameOrder
    <3> QED
      BY <3>1, <3>3
  <2>7. ASSUME NEW v \in LifecycleTables, v \in db.tables
        PROVE  SecondSafe'
    <3>1. SecondSafe
      BY <1>0, <1>1, <2>1, <2>7 DEF Begun
    <3>2. \A q \in Processes : Onward(q) => Onward(q)'
      BY <1>2, <1>3, <1>4, <2>6, <2>7 DEF Onward, Behind
    <3> QED
      BY <1>2, <3>1, <3>2 DEF SecondSafe
  <2>8. Live'
    <3>1. CASE LifecycleTables \cap db.tables = {}
      <4>1. db'.tables \subseteq InitialTables
        BY <1>0, <1>2, <2>1, <3>1 DEF LifecycleTables, Databases
      <4>2. SteadyUpgrade'
        BY <1>2, <1>3, <1>4, <1>8, <2>4, <4>1 DEF SteadyUpgrade
      <4> QED
        BY <4>2 DEF Live
    <3>2. CASE LifecycleTables \cap db.tables # {}
      BY <2>5, <2>7, <3>2 DEF Live
    <3> QED
      BY <3>1, <3>2
  <2>9. Appearing'
    <3>1. Turned'
      BY <1>0, <1>2, <2>1 DEF Turned, LifecycleTables
    <3>2. Ahead'
      BY <2>5 DEF Ahead
    <3>3. Begun'
      BY <1>2, <2>1, <2>7 DEF Begun, LifecycleTables
    <3> QED
      BY <2>3, <3>1, <3>2, <3>3 DEF Appearing
  <2> QED
    BY <1>0, <1>3, <1>6, <2>8, <2>9 DEF Undisturbed, Working
<1>9. CASE alembic.revision = 2
  <2>1. t \in LifecycleTables /\ alembic.left \subseteq LifecycleTables
    BY <1>7, <1>9 DEF Created
  <2>2. InitialTables \subseteq db.tables
    <3>1. Vouched = 1
      BY <1>0, <1>9 DEF Vouched, Databases
    <3> QED
      BY <3>1 DEF Undisturbed, StampVouches, Created
  <2>3. Appearing'
    BY <1>2, <2>2 DEF Appearing, Segment, Turned, Ahead, Begun, FirstSafe
  <2>4. CASE \A u \in alembic.left \cap db.tables : FALSE
    <3>1. SteadyUpgrade'
      BY <1>2, <1>3, <1>4, <1>9, <2>4, CreatedTables DEF SteadyUpgrade
    <3> QED
      BY <1>0, <1>3, <1>6, <2>3, <3>1 DEF Undisturbed, Live, Working
  <2>5. ASSUME NEW u \in alembic.left \cap db.tables
        PROVE  db'.tables = Tables
    <3>1. u \in LifecycleTables /\ u # t
      BY <1>1, <2>1
    <3>2. \A v \in LifecycleTables : v \in {t, u}
      BY <2>1, <3>1 DEF SameOrder
    <3> QED
      BY <1>0, <1>2, <2>2, <3>2 DEF LifecycleTables, Databases
  <2> QED
    BY <1>0, <1>3, <1>6, <2>3, <2>4, <2>5 DEF Undisturbed, Live, Working
<1> QED
  BY <1>7, <1>8, <1>9

\* It is done with that table.
LEMMA UpgradeFinishes ==
    ASSUME Types, Undisturbed, UpgradeIndexes
    PROVE  Undisturbed'
<1>0. /\ alembic \in Commands
      /\ db \in Databases
      /\ alembic.doing = "upgrade" /\ alembic.half
      /\ Segment /\ Turned /\ Ahead /\ Begun /\ Halves /\ Working
  BY DEF UpgradeIndexes, Types, TypeOK, Undisturbed, Appearing
<1>1. PICK t \in Tables :
        /\ First(t, alembic.left)
        /\ t \in db.tables \ db.indexed
        /\ db' = [db EXCEPT !.indexed = @ \cup {t}]
        /\ alembic' = [alembic EXCEPT !.half = FALSE, !.left = @ \ {t}]
  BY DEF UpgradeIndexes
<1>2. db'.tables = db.tables /\ db'.indexed = db.indexed \cup {t}
  BY <1>0, <1>1 DEF Databases
<1>3. /\ ~alembic'.half
      /\ alembic'.doing = "upgrade"
      /\ alembic'.left = alembic.left \ {t}
      /\ alembic'.revision = alembic.revision
      /\ UNCHANGED <<proc, undermined, spoiled>>
  <2>1. UNCHANGED <<proc, undermined, spoiled>>
    BY DEF UpgradeIndexes
  <2> QED
    BY <1>0, <1>1, <2>1 DEF Commands
<1>4. /\ \A u \in Tables : Upgrades(u) <=> u = t
      /\ \A u : ~Upgrades(u)'
      /\ \A q \in Processes : \A u : Making(q, u)' = Making(q, u)
  BY <1>0, <1>1, <1>3, OneLeast DEF Making, Upgrades
<1>5. HalfMade' = HalfMade \ {t}
  BY <1>2 DEF HalfMade
<1>6. Halves'
  <2>1. db'.indexed \subseteq db'.tables
    BY <1>0, <1>1, <1>2 DEF Halves
  <2>2. \A q \in Processes : proc'[q].half => \E u \in Tables : Making(q, u)'
    BY <1>0, <1>3, <1>4 DEF Halves
  <2>3. \A q \in Processes, u \in Tables : Making(q, u)' => u \in HalfMade' /\ ~Upgrades(u)'
    BY <1>0, <1>4, <1>5 DEF Halves
  <2>4. \A q, r \in Processes, u \in Tables : Making(q, u)' /\ Making(r, u)' => q = r
    BY <1>0, <1>4 DEF Halves
  <2>5. \A u \in HalfMade' : \E q \in Processes : Making(q, u)'
    <3> SUFFICES ASSUME NEW u \in HalfMade'
                 PROVE  \E q \in Processes : Making(q, u)'
      OBVIOUS
    <3>1. u \in HalfMade /\ u # t /\ u \in Tables
      BY <1>0, <1>5 DEF HalfMade, Databases
    <3>2. Upgrades(u) \/ \E q \in Processes : Making(q, u)
      BY <1>0, <3>1 DEF Halves
    <3> QED
      BY <1>4, <3>1, <3>2
  <2> QED
    BY <1>3, <1>4, <2>1, <2>2, <2>3, <2>4, <2>5 DEF Halves
<1>7. (FirstSafe => FirstSafe') /\ (SecondSafe => SecondSafe')
  <2>1. FirstSafe => FirstSafe'
    BY <1>0, <1>2, <1>3, <1>4 DEF FirstSafe, Databases
  <2>2. \A q \in Processes : Onward(q) => Onward(q)'
    BY <1>2, <1>3, <1>4 DEF Onward, Behind
  <2> QED
    BY <1>2, <2>1, <2>2 DEF SecondSafe
<1>8. Live'
  <2>1. Unhurt => Unhurt'
    BY <1>2, <1>3 DEF Unhurt
  <2>2. \A q \in Processes : Steady(q) => Steady(q)'
    BY <1>2, <1>3, <1>4 DEF Steady
  <2>3. SteadyUpgrade => SteadyUpgrade'
    <3> SUFFICES ASSUME SteadyUpgrade PROVE SteadyUpgrade'
      OBVIOUS
    <3>1. \A u \in alembic'.left \cap db'.tables : FALSE
      BY <1>0, <1>2, <1>3, <1>4 DEF SteadyUpgrade, Databases
    <3> QED
      BY <1>2, <1>3, <3>1 DEF SteadyUpgrade
  <2> QED
    BY <1>7, <1>2, <2>1, <2>2, <2>3 DEF Undisturbed, Live
<1>9. Appearing'
  BY <1>0, <1>2, <1>7 DEF Appearing, Segment, Turned, Ahead, Begun
<1> QED
  BY <1>0, <1>3, <1>6, <1>8, <1>9 DEF Undisturbed, Working

\* Every step of a start that is not under the last two.
LEMMA StartStep ==
    ASSUME Types, Accounted, SameOrder, Undisturbed, NEW p \in Processes,
           ProcessNext(p), ~Die(p)
    PROVE  Undisturbed'
<1>0. /\ proc \in [Processes -> Starts]
      /\ Inspecting
      /\ Fresh
      /\ Halves
      /\ undermined = {}
  BY DEF Types, TypeOK, Undisturbed
<1>1. \A q \in Processes \ {p} : proc'[q] = proc[q]
  BY <1>0, OwnStep
<1>2. proc[p].half => proc[p].pc = "creating"
  BY <1>0 DEF Halves, Making
<1>3. ~proc[p].half /\ proc[p].pc # "creating" => ~Steady(p) /\ ~Onward(p)
  BY DEF Steady, Onward
<1>4. CASE StartService(p) \/ StartScript(p)
  <2>1. proc[p] = Down /\ ~Down.half /\ Down.missing = {} /\ Down.pc = "down"
    BY <1>0, <1>4 DEF StartService, StartScript, Fresh, Down
  <2>2. /\ proc'[p].half = proc[p].half
        /\ proc'[p].missing = proc[p].missing
        /\ proc'[p].pc # "failed"
    <3>1. CASE StartService(p)
      BY <1>0, <3>1 DEF StartService, Starts
    <3>2. CASE StartScript(p)
      BY <1>0, <3>2 DEF StartScript, Starts
    <3> QED
      BY <1>4, <3>1, <3>2
  <2>3. UNCHANGED <<db, alembic, spoiled, undermined>>
    BY <1>4 DEF StartService, StartScript
  <2> QED
    BY <1>0, <1>1, <1>3, <2>1, <2>2, <2>3, OtherStart
<1>5. CASE Inspect(p)
  <2>1. proc[p].pc = "inspecting" /\ UNCHANGED <<db, alembic, spoiled, undermined>>
    BY <1>5 DEF Inspect
  <2>2. /\ proc'[p].half = proc[p].half
        /\ proc'[p].missing = proc[p].missing \cup ({proc[p].at} \ db.tables)
        /\ proc'[p].pc # "failed"
    BY <1>0, <1>5 DEF Inspect, Starts
  <2>3. Unhurt => proc'[p].pc # "failed" /\ proc'[p].missing \cap db.tables = {}
    BY <2>2 DEF Unhurt
  <2> QED
    BY <1>0, <1>1, <1>2, <1>3, <2>1, <2>2, <2>3, OtherStart
<1>6. CASE CreateFails(p)
  <2>1. PICK t \in Tables :
          /\ Least(t, proc[p].missing)
          /\ IF proc[p].half THEN t \notin db.tables \ db.indexed ELSE t \in db.tables
    BY <1>6 DEF CreateFails
  <2>2. ~proc[p].half
    <3> SUFFICES ASSUME proc[p].half PROVE FALSE
      OBVIOUS
    <3>1. PICK u \in Tables : Making(p, u)
      BY <1>0 DEF Halves
    <3>2. u = t
      BY <2>1, <3>1, OneLeast DEF Making
    <3> QED
      BY <1>0, <2>1, <3>1, <3>2 DEF Halves, HalfMade
  <2>3. t \in proc[p].missing \cap db.tables
    BY <2>1, <2>2 DEF Least
  <2>4. ~Steady(p) /\ ~Unhurt
    BY <2>2, <2>3 DEF Steady, Unhurt, Making
  <2>6. Onward(p) => LifecycleTables \subseteq db.tables
    <3> SUFFICES ASSUME Onward(p), NEW u \in LifecycleTables
                 PROVE  u \in db.tables
      OBVIOUS
    <3>1. u < t
      BY <2>2, <2>3 DEF Onward, Making, Behind
    <3>2. u \notin proc[p].missing /\ u \in Tables
      BY <2>1, <3>1, CreatedTables DEF Least, LifecycleTables, Tables
    <3>3. Tables \subseteq db.tables \cup proc[p].missing
      BY <1>0, <1>6 DEF Accounted, Passed, CreateFails
    <3> QED
      BY <3>2, <3>3
  <2>5. /\ ~proc'[p].half
        /\ UNCHANGED <<db, alembic, spoiled>>
        /\ undermined' = {}
    BY <1>0, <1>6 DEF CreateFails, Down
  <2> QED
    BY <1>1, <2>2, <2>4, <2>5, <2>6, OtherStart
<1>7. CASE Stop(p)
  <2>1. /\ proc[p].pc \in {"serving", "elsewhere", "refused", "failed"}
        /\ proc'[p] = Down
        /\ UNCHANGED <<db, alembic, spoiled>>
        /\ undermined' = {}
    BY <1>0, <1>7 DEF Stop
  <2>2. ~Down.half /\ Down.missing = {} /\ Down.pc = "down"
    BY DEF Down
  <2> QED
    BY <1>1, <1>2, <1>3, <2>1, <2>2, OtherStart
<1> QED
  BY <1>4, <1>5, <1>6, <1>7, StartMakes, StartFinishes DEF ProcessNext

\* Every step of a command that is not under the last two.
LEMMA CommandStep ==
    ASSUME Types, Upgrading, StampVouches, SameOrder, Undisturbed,
           AlembicNext, ~AlembicDies, ~Downgrade
    PROVE  Undisturbed'
<1>0. /\ alembic \in Commands
      /\ db \in Databases
      /\ Migrating
      /\ Halves
      /\ Working
  BY DEF Types, TypeOK, Undisturbed
<1>1. alembic.half => alembic.doing = "upgrade" /\ \E t \in Tables : Upgrades(t)
  BY <1>0 DEF Halves, Upgrades
<1>2. alembic.left = {} => ~alembic.half
  BY <1>1 DEF Upgrades, First
<1>3. Idle.doing = "nothing" /\ ~Idle.half
  BY DEF Idle
<1>9. FirstSafe /\ alembic.left = {} /\ alembic.doing = "upgrade"
          => InitialTables \subseteq db.tables
  BY DEF FirstSafe, Upgrading, Created
<1>10. InitialTables \subseteq db.tables /\ db'.tables = db.tables => FirstSafe'
  BY DEF FirstSafe
<1>4. CASE Upgrade
  <2>1. db.stamp + 1 \in 0 .. HeadRevision /\ HeadRevision \in 0 .. HeadRevision
    BY <1>0, <1>4 DEF Upgrade, Databases, HeadRevision
  <2>2. alembic = Idle /\ alembic' = At("upgrade", db.stamp + 1, HeadRevision)
    BY <1>4 DEF Upgrade
  <2>3. ~alembic.half /\ ~alembic'.half /\ ~SteadyUpgrade
    BY <1>3, <2>2 DEF SteadyUpgrade, At
  <2>4. Working'
    BY <2>1, <2>2, AtCommands DEF Working
  <2>5. UNCHANGED <<proc, undermined, spoiled, db>>
    BY <1>4 DEF Upgrade
  <2> QED
    BY <1>3, <1>10, <2>2, <2>3, <2>4, <2>5, OtherCommand DEF FirstSafe
<1>5. CASE UpgradeStamp
  <2>1. /\ alembic.doing = "upgrade"
        /\ alembic.left = {}
        /\ alembic.revision \in {1, 2}
        /\ alembic.revision + 1 \in 0 .. HeadRevision
        /\ HeadRevision \in 0 .. HeadRevision
    <3>1. alembic.revision = db.stamp + 1
      BY <1>0, <1>5 DEF UpgradeStamp, Migrating
    <3> QED
      BY <1>0, <1>5, <3>1 DEF UpgradeStamp, Commands, Databases, HeadRevision
  <2>2. alembic' = At("upgrade", alembic.revision + 1, HeadRevision)
    BY <1>5 DEF UpgradeStamp
  <2>3. ~alembic.half /\ ~alembic'.half
    BY <1>2, <2>1, <2>2 DEF At
  <2>4. Working'
    BY <2>1, <2>2, AtCommands DEF Working
  <2>5. /\ db'.tables = db.tables
        /\ db'.indexed = db.indexed
        /\ UNCHANGED <<proc, undermined, spoiled>>
    BY <1>0, <1>5 DEF UpgradeStamp, Databases
  <2>6. SteadyUpgrade => db.tables = Tables \/ SteadyUpgrade'
    <3> SUFFICES ASSUME SteadyUpgrade PROVE db.tables = Tables \/ SteadyUpgrade'
      OBVIOUS
    <3>1. CASE alembic.revision = 1
      <4>1. db.tables \subseteq InitialTables
        BY <3>1 DEF SteadyUpgrade
      <4>2. alembic'.doing = "upgrade" /\ alembic'.revision = 2 /\ alembic'.left = Created(2)
        BY <2>1, <2>2, <3>1, AtCommands
      <4>3. alembic'.left \cap db'.tables = {}
        BY <2>5, <4>1, <4>2 DEF Created, LifecycleTables
      <4> QED
        BY <4>2, <4>3 DEF SteadyUpgrade
    <3>2. CASE alembic.revision = 2
      <4>1. LifecycleTables \subseteq db.tables
        BY <2>1, <3>2 DEF Upgrading, Created
      <4>2. db.stamp = 1 /\ Vouched = 1
        BY <1>0, <2>1, <3>2 DEF Vouched, Migrating, Databases
      <4>3. InitialTables \subseteq db.tables
        BY <4>2 DEF Undisturbed, StampVouches, Created
      <4> QED
        BY <1>0, <4>1, <4>3 DEF LifecycleTables, Databases
    <3> QED
      BY <2>1, <3>1, <3>2
  <2> QED
    BY <1>9, <1>10, <2>1, <2>3, <2>4, <2>5, <2>6, OtherCommand
<1>6. CASE Normalize
  <2>1. ~alembic.half /\ ~SteadyUpgrade
    BY <1>0, <1>2, <1>6 DEF Normalize, Working, Created, HeadRevision, SteadyUpgrade
  <2>2. alembic' = Idle /\ UNCHANGED <<proc, undermined, spoiled>>
    BY <1>6 DEF Normalize
  <2>3. db'.tables = db.tables /\ db'.indexed = db.indexed
    BY <1>0, <1>6 DEF Normalize, Databases
  <2> QED
    BY <1>3, <1>6, <1>10, <2>1, <2>2, <2>3, OtherCommand
    DEF Working, FirstSafe, Normalize, HeadRevision
<1>7. CASE UpgradeFails
  <2>1. alembic' = Idle /\ UNCHANGED <<db, proc, undermined, spoiled>>
    BY <1>7 DEF UpgradeFails
  <2>2. ~alembic.half /\ ~SteadyUpgrade /\ (FirstSafe => InitialTables \subseteq db.tables)
    <3>1. CASE alembic.revision = HeadRevision
      BY <1>0, <1>2, <1>7, <3>1
      DEF UpgradeFails, Working, Created, HeadRevision, SteadyUpgrade, FirstSafe
    <3>2. CASE \E t \in Tables :
                 /\ First(t, alembic.left)
                 /\ IF alembic.half THEN t \notin db.tables \ db.indexed ELSE t \in db.tables
      <4>1. PICK t \in Tables :
              /\ First(t, alembic.left)
              /\ IF alembic.half THEN t \notin db.tables \ db.indexed ELSE t \in db.tables
        BY <3>2
      <4>2. ~alembic.half
        <5> SUFFICES ASSUME alembic.half PROVE FALSE
          OBVIOUS
        <5>1. PICK u \in Tables : Upgrades(u)
          BY <1>1
        <5>2. u = t
          BY <4>1, <5>1, OneLeast DEF Upgrades
        <5> QED
          BY <1>0, <4>1, <5>1, <5>2 DEF Halves, HalfMade
      <4>3. t \in alembic.left \cap db.tables /\ ~Upgrades(t)
        BY <4>1, <4>2 DEF First, Upgrades
      <4> QED
        BY <4>2, <4>3 DEF SteadyUpgrade, FirstSafe
    <3> QED
      BY <1>7, <3>1, <3>2 DEF UpgradeFails
  <2> QED
    BY <1>3, <1>10, <2>1, <2>2, OtherCommand DEF Working
<1>8. ~DropIndexes /\ ~DropTable /\ ~DowngradeStamp /\ ~DowngradeFails
  BY <1>0 DEF Working, DropIndexes, DropTable, DowngradeStamp, DowngradeFails
<1> QED
  BY <1>4, <1>5, <1>6, <1>7, <1>8, UpgradeMakes, UpgradeFinishes DEF AlembicNext

LEMMA UndisturbedStep ==
    ASSUME SameOrder, Inv, Calm => Undisturbed, [Next]_vars, Calm'
    PROVE  Undisturbed'
<1>1. /\ Undisturbed
      /\ ~AlembicDies /\ ~Downgrade
      /\ \A p \in Processes : ~Die(p)
  BY CalmBefore DEF Inv
<1>2. CASE UNCHANGED vars
  BY <1>1, <1>2 DEF vars, Undisturbed, Working, Appearing, Segment, Turned, Ahead, Begun,
     Halves, HalfMade, Making, Upgrades, Live, Unhurt, Steady, SteadyUpgrade, FirstSafe,
     SecondSafe, Onward, Behind
<1>3. CASE AlembicNext
  BY <1>1, <1>3, CommandStep DEF Inv
<1>4. CASE \E p \in Processes : ProcessNext(p)
  BY <1>1, <1>4, StartStep DEF Inv
<1> QED
  BY <1>2, <1>3, <1>4 DEF Next

LEMMA NobodyStranded ==
    ASSUME Types, Undisturbed, AtRest, NEW p \in Processes, proc[p].pc = "failed"
    PROVE  db.tables = Tables /\ db.indexed = Tables
<1>1. /\ alembic.doing = "nothing"
      /\ \A q \in Processes : proc[q].pc # "creating"
  BY DEF AtRest, Idle
<1>2. /\ ~SteadyUpgrade
      /\ \A q \in Processes : ~Steady(q)
      /\ ~Unhurt
  BY <1>1 DEF SteadyUpgrade, Steady, Unhurt
<1>3. db.tables = Tables
  <2>1. FirstSafe /\ SecondSafe => InitialTables \cup LifecycleTables \subseteq db.tables
    BY <1>1 DEF FirstSafe, SecondSafe, Onward
  <2>2. FirstSafe /\ SecondSafe => db.tables = Tables
    BY <2>1 DEF LifecycleTables, Types, TypeOK, Databases
  <2> QED
    BY <1>2, <2>2 DEF Undisturbed, Live
<1>4. HalfMade = {}
  BY <1>1 DEF Undisturbed, Halves, Upgrades, Making
<1> QED
  BY <1>3, <1>4 DEF HalfMade, Undisturbed, Halves

\* Starts and an upgrade that collide (app/database.py, migrations/versions)
\* cost one of them its run and nothing else: when all has come to rest and
\* nothing died, a failed start leaves every table and index.
THEOREM FailuresLeaveAll ==
    ASSUME SameOrder, WholeReleases
    PROVE  Spec => []FailedStartIsHarmless
<1> DEFINE I == Inv /\ (Calm => Undisturbed)
<1>1. Init => I
  BY InitInv, InitUndisturbed
<1>2. I /\ [Next]_vars => I'
  <2>1. Inv /\ [Next]_vars => Inv'
    BY ProcessTypes, AlembicTypes, StutterTypes, AccountedStep, StampStep
    DEF Inv, Next
  <2> QED
    BY <2>1, UndisturbedStep
<1>3. I => FailedStartIsHarmless
  BY NobodyStranded DEF Inv, FailedStartIsHarmless, Calm
<1> HIDE DEF I
<1> QED
  BY <1>1, <1>2, <1>3, PTL DEF Spec
=============================================================================
