-------------------------------- MODULE DemoData --------------------------------
(***************************************************************************)
(* The demo rows of app/services/demo_data_experience.py: seeding them,    *)
(* resetting them, and what a visitor of the demo does in between through  *)
(* the routes of the application.                                          *)
(*                                                                         *)
(* Seed and reset are scripts of one transaction each.  The demo runs on   *)
(* SQLite, which gives a new row the highest id in use plus one and does   *)
(* not enforce foreign keys unless asked to.  Of a row the model keeps     *)
(* what it is found by, what it refers to and whether it is marked.        *)
(***************************************************************************)
EXTENDS Naturals, FiniteSets

CONSTANTS
    Demos,       \* the demo intake records
    Rank,        \* their order in the code
    Traced,      \* those seeded with a lifecycle event
    Attached,    \* those seeded with an attachment manifest
    Announced,   \* those seeded with a webhook event
    SeedStatus,  \* the review status each is seeded with
    Statuses,    \* review statuses
    Intake,      \* an intake record that is no demo record
    MaxVisits,   \* bound: reviews, plans, polls and intakes
    MaxSeeds     \* bound: seeds and resets

ASSUME DemoAssumption ==
    /\ IsFiniteSet(Demos)
    /\ Rank \in [Demos -> Nat] /\ \A d, e \in Demos : Rank[d] = Rank[e] => d = e
    /\ Traced \subseteq Demos /\ Attached \subseteq Demos /\ Announced \subseteq Demos
    /\ SeedStatus \in [Demos -> Statuses]
    /\ Intake \notin Demos
    /\ {MaxVisits, MaxSeeds} \subseteq Nat

VARIABLES
    connection,  \* whether the demo connection is there
    profile,     \* ... its sync profile
    run,         \* ... its sync run of mode j2_demo_fixture
    polls,       \* its other sync runs
    records,     \* intake_records: which record has an id
    states,      \* intake_review_states: the status of a record id
    trail,       \* intake_review_lifecycle_events of a record id
    manifests,   \* attachment_objects
    queue,       \* webhook_events of the demo
    seeded,      \* history: seeded, and not reset since
    spent        \* history: visits and seeds so far

tables   == <<connection, profile, run, polls, records, states, trail, manifests,
              queue>>
demoVars == <<tables, seeded, spent>>

Ids       == DOMAIN records
DemoIds   == {i \in Ids : records[i] \in Demos}
Manifest  == [owner : Nat, of : Demos \cup {Intake}, marked : BOOLEAN]
DemoEvent == [seed : Nat, review : Nat]
NoEvents  == [seed |-> 0, review |-> 0]

DemoTypeOK ==
    /\ {connection, profile, run, seeded} \subseteq BOOLEAN
    /\ polls \in Nat
    /\ IsFiniteSet(Ids) /\ Ids \subseteq Nat \ {0}
    /\ records \in [Ids -> Demos \cup {Intake}]
    /\ states \in [DOMAIN states -> Statuses]
    /\ trail \in [DOMAIN trail -> DemoEvent]
    /\ manifests \subseteq Manifest
    /\ queue \in [Demos -> {"absent", "queued", "processed"}]
    /\ spent \in [visit : Nat, seed : Nat]

DemoInit ==
    /\ connection = FALSE /\ profile = FALSE /\ run = FALSE
    /\ polls = 0
    /\ records = <<>> /\ states = <<>> /\ trail = <<>>
    /\ manifests = {}
    /\ queue = [d \in Demos |-> "absent"]
    /\ seeded = FALSE
    /\ spent = [visit |-> 0, seed |-> 0]

-------------------------------------------------------------------------------
(* Seeding creates what it does not find.                                  *)

LastId == CHOOSE n \in Ids \cup {0} : \A i \in Ids : i <= n

(* Mutant: nothing is looked up first.                                     *)
AllDemos == Demos

Missing == {d \in Demos : \A i \in Ids : records[i] # d}

(* The records after seeding: the missing ones get the next ids, in order. *)
SeededRecords ==
    LET Id(d) == LastId + Cardinality({e \in Missing : Rank[e] <= Rank[d]}) IN
    [i \in Ids \cup {Id(d) : d \in Missing} |->
        IF i \in Ids THEN records[i] ELSE CHOOSE d \in Missing : Id(d) = i]

(* Mutant: the status is seeded again.                                     *)
StatusAgain(ids, rs) ==
    [i \in DOMAIN states \cup ids |->
        IF i \in ids THEN SeedStatus[rs[i]] ELSE states[i]]

SeededStates(ids, rs) ==
    [i \in DOMAIN states \cup ids |->
        IF i \in DOMAIN states THEN states[i] ELSE SeedStatus[rs[i]]]

(* An event is found by its record and the marker of its source.           *)
SeededTrail(ids) ==
    [i \in DOMAIN trail \cup ids |->
        LET old == IF i \in DOMAIN trail THEN trail[i] ELSE NoEvents IN
        IF i \in ids /\ old.seed = 0 THEN [old EXCEPT !.seed = 1] ELSE old]

(* A manifest is found by the marker of its attachment.                    *)
SeededManifests(ids, rs) ==
    manifests \cup {[owner |-> i, of |-> rs[i], marked |-> TRUE] :
        i \in {j \in ids : \A m \in manifests : m.marked => m.of # rs[j]}}

SeededQueue ==
    [d \in Demos |-> IF d \in Announced /\ queue[d] = "absent" THEN "queued" ELSE queue[d]]

Seed ==
    /\ spent.seed < MaxSeeds
    /\ spent' = [spent EXCEPT !.seed = @ + 1]
    /\ connection' = TRUE /\ profile' = TRUE /\ run' = TRUE
    /\ records' = SeededRecords
    /\ LET Of(ds) == {i \in DOMAIN SeededRecords : SeededRecords[i] \in ds} IN
        /\ states' = SeededStates(Of(Demos), SeededRecords)
        /\ trail' = SeededTrail(Of(Traced))
        /\ manifests' = SeededManifests(Of(Attached), SeededRecords)
    /\ queue' = SeededQueue
    /\ seeded' = TRUE
    /\ UNCHANGED polls

-------------------------------------------------------------------------------
(* Reset deletes table by table.  The ids of the demo records are selected *)
(* anew by every statement.                                                *)

Without(f, ids) == [i \in DOMAIN f \ ids |-> f[i]]

(* Mutant: the records are deleted before what refers to them.             *)
RecordsFirst(f) == f

DeleteOfDemos(f) == Without(f, DemoIds)

Reset ==
    /\ spent.seed < MaxSeeds
    /\ spent' = [spent EXCEPT !.seed = @ + 1]
    /\ manifests' = {m \in manifests : ~m.marked}
    /\ trail' = DeleteOfDemos(trail)
    /\ states' = DeleteOfDemos(states)
    /\ queue' = [d \in Demos |-> "absent"]
    /\ records' = Without(records, DemoIds)
    /\ run' = FALSE
    /\ profile' = FALSE
    /\ connection' = (connection /\ polls > 0)
    /\ seeded' = FALSE
    /\ UNCHANGED polls

-------------------------------------------------------------------------------
(* What visitors do: reviews and plans for any record, polls of the demo   *)
(* profile, intake from elsewhere, runs of the event queue.                *)

Visit ==
    /\ spent.visit < MaxVisits
    /\ spent' = [spent EXCEPT !.visit = @ + 1]
    /\ UNCHANGED seeded

Review(i) ==
    /\ Visit
    /\ \E s \in Statuses : states' = [j \in DOMAIN states \cup {i} |->
                                        IF j = i THEN s ELSE states[j]]
    /\ trail' = [j \in DOMAIN trail \cup {i} |->
           LET old == IF j \in DOMAIN trail THEN trail[j] ELSE NoEvents IN
           IF j = i THEN [old EXCEPT !.review = @ + 1] ELSE old]
    /\ UNCHANGED <<connection, profile, run, polls, records, manifests, queue>>

PlanAttachment(i) ==
    /\ Visit
    /\ manifests' = manifests \cup {[owner |-> i, of |-> records[i], marked |-> FALSE]}
    /\ UNCHANGED <<connection, profile, run, polls, records, states, trail, queue>>

(* The fixtures hold nothing of the demo's project.                        *)
PollDemo ==
    /\ Visit
    /\ connection
    /\ polls' = polls + 1
    /\ UNCHANGED <<connection, profile, run, records, states, trail, manifests, queue>>

SyncIntake ==
    /\ Visit
    /\ \A i \in Ids : records[i] # Intake
    /\ records' = [i \in Ids \cup {LastId + 1} |->
                       IF i \in Ids THEN records[i] ELSE Intake]
    /\ UNCHANGED <<connection, profile, run, polls, states, trail, manifests, queue>>

ProcessEvent(d) ==
    /\ queue[d] = "queued"
    /\ queue' = [queue EXCEPT ![d] = "processed"]
    /\ UNCHANGED <<connection, profile, run, polls, records, states, trail,
                   manifests, seeded, spent>>

DemoNext ==
    \/ Seed \/ Reset
    \/ \E i \in Ids : Review(i) \/ PlanAttachment(i)
    \/ PollDemo \/ SyncIntake
    \/ \E d \in Demos : ProcessEvent(d)

DemoSpec == DemoInit /\ [][DemoNext]_demoVars

-------------------------------------------------------------------------------
(* docs/demo-seed-plan.md: seeding "is idempotent".  Between two seeds     *)
(* visitors have reviewed records, planned attachments and run the queue;  *)
(* the second one adds nothing and takes nothing of that back.             *)
SeedIsIdempotent == [][Seed /\ seeded => UNCHANGED tables]_demoVars

(* However seeds, resets and visits alternate, and although ids are used   *)
(* again, a demo record and its manifest are there at most once.           *)
OnePerMarker ==
    /\ \A i, j \in Ids : records[i] = records[j] => i = j
    /\ \A m, n \in manifests : m.marked /\ n.marked /\ m.of = n.of => m = n

(* A review state or lifecycle event belongs to a record that is there,    *)
(* profiles and runs to a connection: reset deletes in an order that       *)
(* leaves nothing behind, which SQLite would not refuse.                   *)
NothingDangles ==
    /\ DOMAIN states \subseteq Ids /\ DOMAIN trail \subseteq Ids
    /\ profile \/ run \/ polls > 0 => connection

(* docs/demo-reset-guide.md: "Records without the marker are untouched."   *)
(* The events of a visitor's reviews bear the source of the workspace and  *)
(* no marker; reset deletes them with the demo record.                     *)
UnmarkedUntouched ==
    [][Reset => /\ \A m \in manifests : ~m.marked => m \in manifests'
                /\ \A i \in DOMAIN trail : trail[i].review > 0 =>
                       i \in DOMAIN trail' /\ trail'[i].review = trail[i].review]_demoVars

(* The foreign key of attachment_objects.intake_record_id: a manifest      *)
(* belongs to the record it was planned for.  Reset leaves the manifests   *)
(* without the marker, their record goes, and the next record with its id  *)
(* inherits them.                                                          *)
ManifestKeepsItsRecord ==
    \A m \in manifests : m.owner \in Ids => records[m.owner] = m.of
===============================================================================
