# Procore Intake Bridge in TLA+

A verification development of the parts of the bridge that keep state: what
several requests, scripts and crashes do to one database, to the attachment
files beside it and to the directories of the pilot gates. The modules are
translated from `app/` and `migrations/`, model-checked with TLC on small
instances, and proved about with TLAPS for every value of the constants.

    tlc -config eventqueue_operator.cfg MCEventQueue.tla
    tlc -config deployment_start.cfg MCDeployment.tla
    tlapm RecordProofs.tla

`PROJECT.json` lists the components with their sources, the runs with module
and configuration, the mutants, the source lines of every definition, the
hazards with their lines, and the theorems.

## The system

The bridge is a FastAPI application over one relational database. It has no
daemon, no queue server and no in-process threads of its own: all concurrency
is between HTTP requests, command-line scripts and starting processes, each
with its own SQLAlchemy session, and all communication is through rows and
files. What makes it hard is consequently always the same: a session decides on
what it read, another one commits in between, and the first one commits too; or
a process dies between two commits, or between a file and a row.

| component | state | operations | correct when |
| --- | --- | --- | --- |
| Webhook receiver and event queue (`routers/webhooks.py`, `services/event_queue.py`) | one `webhook_events` row per event id: status, failure count, lock, availability | receive, run once over a batch, plain or forced, replay | a repeated delivery changes nothing; one worker per event; every lock released; failures counted; queued events settle |
| Polling worker and sync profiles (`services/polling_worker.py`, `routers/sync_profiles.py`) | lock, watermark, next run, switches of each `sync_profiles` row | run the due profiles, run one, PATCH, create | one worker per profile; every lock released; the watermark skips nothing |
| Intake sync and fixture client (`services/intake_sync.py`, `procore_client.py`, `routers/sync.py`) | `intake_records`, `sync_runs`, attachment rows | list the sources, store the records; ad-hoc sync | records hold the newest version seen |
| Database session (`database.py`) | the identity map of each session | load, refresh, commit, rollback | (the rules the others depend on) |
| Intake review lifecycle (`services/intake_lifecycle.py`, migration 0003) | a state row and a history per record | transition, read with repair, migrate | the history is a path of the transition graph that ends at the row's status, within the limit |
| Review workspace, dashboard, triage queue, export pack | none | put an answer together from many SELECTs | an answer does not mix moments in a way its reader is misled by |
| Attachment storage (`services/attachment_storage*.py`) | manifest rows, files | plan, fixture download | "downloaded" means that the file is there, under its checksum, for this attachment |
| Demo data (`services/demo_data_experience.py`) | rows with a marker in nine tables | seed, reset | seeding twice is seeding once; reset leaves nothing dangling |
| Pilot gates (`services/evidence_review.py`, `pilot_readiness.py`, `pilot_approval.py`) | input files, directories of artifacts | build a report and write it; edit, copy, clear | a complete directory is of one report; GO and approval rest on what they say |
| Startup checks, deployment readiness, migrations (`startup_checks.py`, `deployment_readiness.py`, `migrations/`) | tables, indexes, the Alembic stamp | start, upgrade, downgrade | who serves has all tables; the stamp says the truth; a start that fails does no harm to a later one |
| Normaliser and signature, storage and secret providers, connections, admin pages, PostgreSQL runtime, report generators | none, or a provider's | | not modelled, see the end |

Interaction: a webhook becomes a queued row; a run of the queue finds the
enabled profile that matches it and calls `run_sync_profile_once` in the same
session, under the profile's own lock; that reads the source, stores intake
records and plans their attachments; reviewers move records along the
lifecycle; dashboard, queue and packets read all of this while it changes. The
demo writes into the same tables. Before any of it, a start decides whether to
come up at all and creates the tables that are missing. The pilot gates share
nothing with the rest but the operator.

## Modules

| module | models |
| --- | --- |
| `OrmSession` | what the services rely on from SQLAlchemy: a loaded object stays as it was loaded until refresh or rollback (`Loaded`); a commit writes only the columns assigned a different value (`Flush`) |
| `ClaimQueue` | the abstract specification of the queue: claims and results of an event |
| `EventQueue` | its implementation: receiver, queue worker, replay, crashes |
| `PollingWorker` | polling worker, intake sync, ad-hoc sync, PATCH as one step |
| `ProfileEdits` | `PollingWorker` with a PATCH as read and commit, and with a source of coarse timestamps |
| `EventSync` | queue and polling worker composed: the attempt at an event is a run of its profile |
| `ReviewRecord` | the abstract specification of a record under review |
| `Lifecycle` | its implementation: state row, history, sessions, repair of old labels |
| `Attachments` | manifest rows, files, plans and downloads |
| `DemoData` | seed, reset, and what visitors do between them |
| `EvidenceReview`, `PilotReadiness`, `PilotApproval` | the three gates as operators on their inputs |
| `PilotChain` | the generators that run the gates, the operator, the days and the crashes |
| `ReviewViews` | page of a record, triage queue, dashboard and packet, SELECT by SELECT |
| `Readiness` | the settings, the nineteen checks and the verdicts of the readiness report, as operators |
| `Deployment` | starting processes and Alembic commands on one SQLite file |
| `*Proofs` | theorems about `EventQueue`, `PollingWorker`, `EventSync`, `Attachments`, `PilotChain`, `ReviewViews`, `Deployment`, and in `RecordProofs` about `Lifecycle` and `DemoData` |
| `MC*` | model values, inputs and symmetry for TLC |

`EventSync` instantiates `EventQueue` and `PollingWorker`; `ProfileEdits`
extends `PollingWorker`; `PilotChain` extends the three gates; `Deployment`
extends `Readiness`. `DemoData` names its specification `DemoSpec`, so that one
module can hold the proofs about it and about `Lifecycle`. For their
refinements `Lifecycle` instantiates `ReviewRecord` and `EventQueue` instantiates
`ClaimQueue`.

### How the models correspond to the code

A step is what one database transaction, one file operation or one DDL
statement makes atomic. Between two steps of a request every other request may
run. All checks before a lock or a commit are made on the session's copy.

**Event queue and polling.** Each worker has a program counter `pc`, the time
`runAt` that its request took once and uses throughout, the batch `todo`, and
`copy`, what its session holds of each row. One pass of
`process_webhook_event_once` is `Check` (every early return, as `Verdict`), then
`MarkFailed` or `MarkSkipped`, or `Acquire`/`LockLost`, `Refresh`,
`MarkProcessing`, `SyncSucceeds` or `SyncFails` and `RecordFailure`, and
`Release`, the `finally` clause. `run_sync_profile_once` is `Check`,
`Acquire`/`LockLost`, `Refresh`, one `ReadSource` per source, `SyncSucceeds` or
`SyncFails` and `RecordFailure`, `Release`. Only the conditional UPDATE of a
lock looks at the row itself. A failure rolls back, which expires the session,
so the next look at any row of the batch is fresh. In `EventSync` the profile
run of an event happens at the batch's time and on the batch session's copy of
the profile, which a second event of the batch finds as the first one left it.
`Tick` may not let a request last longer than `MaxRun`; the configurations
choose it below or above the lock timeout, depending on whether the question is
what the lock guarantees to requests that are quick enough or what happens to
those that are not.

**Lifecycle.** A transition is `ReadToReview` and then `Transition` or one of
the refusals (`Abandon`, which rolls back); a read is `ReadToView`, which may
create or repair the row and commit it, and `Show`. `Migrate` is revision 0003.
`count` is the column the limit is checked on, `events` the table.

**Attachments.** A sync finds the rows of all attachments of its item (`Find`)
and commits them together; a download is `Load`, `LookForFile`, `Refuse` or
`OpenFile`, `WriteFile`, `ReadBack`, `CommitDownload`; `CrashDownload` leaves the
file as it is, torn if the write had begun. Names are the sanitised filenames,
two of which may agree.

**Demo.** `Seed` and `Reset` are one transaction each. Ids are those SQLite
gives out, so that an id is used again after a reset; that is how a row left
behind finds a new owner.

**Pilot gates.** The report is computed when the input is loaded and written
later: `mkdir` that refuses an existing directory, file by file, the list of
files last. `MaxDay` bounds the calendar, and an expiry is asked for anew by
each part of the report that wants one.

**Views.** `work` is what a request has in hand, `shown` what it has answered,
`past` the states of the tables since it began. `Position` is the order in which
the sections are built.

**Deployment.** A start runs its checks, inspects all tables, then creates the
missing ones, a table and its indexes in two statements; an Alembic command
makes or drops tables and stamps last. SQLite commits each statement by itself.

History variables (`replayed`, `abandoned`, `since`, `spent`, `undermined`,
`lowered`, `spoiled`, `past` and the like) are read by properties and bounds
only.

### What is abstracted

- Columns no branch reads: lock owners, attempt and success timestamps, error
  texts, payloads, actors and summaries, titles, sizes, content types, URLs.
- Among events received at one time the row id decides the order; in the model
  any order is possible, and so is any order of the profiles of a run.
- In `EventQueue` success of the sync and the match of a profile are free
  choices; `EventSync` has the real outcome.
- An item of the source is its `updated_at`, an intake record the `updated_at`
  of the version it stores. A change bears a time later than the start of every
  request that began before it, except in `ProfileEdits`.
- Profiles are created before the model begins, with every source on. Dry runs,
  lists and state routes write nothing and are left out.
- The contents of a file are a function of key and label, a checksum stands for
  the contents it was computed from, and the provider is the local one.
- The scan of an input for secrets is one flag of it, a path is safe or not, a
  provider's health is one answer. `Readiness` keeps of a finding its check,
  severity and the environments it blocks.
- `Deployment` is the SQLite case with two tables per early revision; revision
  0003 rewrites labels, of which a table keeps whether it has any. Its stored
  databases are those that earlier releases of the repository leave behind.

## Runs

| run | instance | shows |
| --- | --- | --- |
| `eventqueue_operator` | 1 event, 2 workers, plain and forced, 1 replay, 1 crash at the first time, clock to 3 | `EventLockExclusion`, `LockHasHolder`, `ProcessingHasWorker`, `FailureAccounting`, refinement `ImplementsClaims` |
| `eventqueue_recovery` | 1 event, 2 receivers, 2 workers, 1 crash at time 1 at the latest, clock to 3, with fairness | `QueuedSettles`, `RedeliveryChangesNothing` |
| `eventqueue_stranded` | the same kind of instance | violates `ProcessingEnds` |
| `polling_gap` | 1 profile, 2 tools with an item each, 2 workers, 1 ad-hoc sync that keeps `Apart`, 1 crash, clock to 3 | `ProfileLockExclusion`, `NoSilentGap`, `RecordsNeverGoBack` |
| `polling_locks` | forced runs with `MaxRun = LockTimeout`, 1 PATCH, 1 ad-hoc sync, clock to 2 | `ProfileLockHasHolder` |
| `eventsync_batch` | 2 events about 1 item in a batch of one queue worker, 1 poller, 1 crash, clock to 3 | `ProcessedIsStored`, `NoGapWithEvents`, `OneRunWithEvents` |
| `lifecycle_review` | 2 reviewers, 1 viewer, fresh and legacy rows, limit 2, histories to 3 | `StatusIsLastEvent`, `CountWithinHistory`, refinement `ImplementsPromise` |
| `attachments_sync` | 3 attachments, 2 of one sanitised name, 1 sync or plan, 2 downloaders that keep `Apart`, crashes | `DownloadedIsThere`, `OneFileEach`, `PlanningKeepsDownloads` |
| `demo_visits` | 2 demo records, 4 seeds, 3 visits | `OnePerMarker`, `NothingDangles`, `SeedIsIdempotent` |
| `pilot_chain` | 1 piece of evidence, 2 generators, 1 edit, 1 crash, 2 days | `ListMeansComplete`, `GoMeansGates`, `ApprovalRests` |
| `review_views` | up to 3 records, pages of 1, exports of 3, 2 commits during a request | `TriageIsSnapshot`, `WaitingFirst`, `ListingHasNoHoles`, `QuietListingIsExact`, `DetailExplained`, `LaterSectionsKnowMore` |
| `deployment_start` | 2 processes, 4 tables, 3 Alembic commands, 1 crash, five earlier databases, eight settings | `ServingHasTables`, `StampVouches`, `FailedStartIsHarmless` |

Type invariants are among the properties of the runs of `EventQueue`,
`PollingWorker`, `Lifecycle` and `Attachments`, where the theorems rest on them;
those of `EventSync`, `DemoData`, `PilotChain`, `ReviewViews` and `Deployment` hold
in the same instances once `TypeOK` (`DemoTypeOK`) is added to their configurations,
and those of `DemoData`, `PilotChain` and `Deployment` are proved (`DemoTypesHold`,
`ChainTypesHold`, `DeploymentTypeOK`).

The questions behind them:

- `EventLockExclusion`, `ProfileLockExclusion`: two requests each look at an old
  copy that shows no lock, and both go for the UPDATE. Replayed events are
  exempt, because a replay clears the lock of whoever holds it.
- `FailureAccounting`: every worker counts up on what its own session has read, and
  still the count of an event is exactly the number of attempts at it that failed
  (`failed`, counted where the sync fails), until an operator replays it.
- `ImplementsClaims`: whatever batches, copies and locks the requests work with, an
  event goes through claims that exclude each other, and each brings one result
  at most, of which every failure is counted.
- `NoSilentGap`: whatever changed at the source before the watermark is stored,
  although watermark, first lookback and listing are of different moments and
  another run may have ended in between. `NoGapWithEvents` asks the same where
  events run the profile too, several times at one time.
- `RecordsNeverGoBack`: a run lists the source, is delayed, and stores what it has
  listed without a look at what is there. Two of these that overlap take a record
  back, and the profile's lock is all that keeps them apart; nothing does so for an
  ad-hoc sync or for another profile that reaches the item. `ApartSpec` of
  `PollingWorker` supposes it, and `polling_further` shows what happens otherwise.
- `CountWithinHistory`: two reviewers may decide on one row and commit one after the
  other. The count is the length of the history until such a commit (`contested`)
  and only behind it after one; of two who find no row, one is refused.
- `ProcessedIsStored`: an event ends `processed` only if what it announced is
  among the records, although its sync runs from an older copy of the profile.
- `ImplementsPromise`: whatever creates, repairs or migrates rows, a record does
  what `ReviewRecord` allows: one step along the graph, recorded, within the
  limit, and after a contested commit what is left of that.
- `DownloadedIsThere`, `OneFileEach`, `PlanningKeepsDownloads`: file and row share no
  transaction, and two attachments may share a key. The three hold as long as no
  two downloads of one filename are under way (`ApartSpec` of `Attachments`), which
  the code does not see to; `attachments_further` shows them violated by two that
  overlap.
- `DetailExplained`: row and history are read in two SELECTs; a transition in
  between may be on the page already, but the one that led to the status is too.
- `ListMeansComplete`: the list of artifacts is written last, but into a
  directory that another generator or a dead one may have used.
- `ListingHasNoHoles`: pages are counted anew for each request while records are
  inserted in front; a listing may lose its tail (`ListingIsComplete` below) but
  never something in the middle of what it shows.
- `FailedStartIsHarmless`: of two starts that collide one may fail, and the next
  one finds a whole database.

### Bounds

`MaxTime`, `MaxDay` end the clock and the calendar, `MaxRun` bounds a request;
`MaxReplays`, `MaxPatches`, `MaxAdhoc`, `MaxCrashes`, `MaxVisits`, `MaxSeeds`,
`MaxEdits`, `MaxCommits`, `MaxCommands` bound what they name, `LastCrash` is the
last time at which a process may die, and `MaxRecords` the records there are.
`MaxEvents`, `MaxHistory`, `PageSize`, `MaxExport` and `Parts` are small values of
settings of the code. The failure count needs no bound: an exhausted event is no
longer tried, and a worker's stale copy adds one attempt at most.

They are small because the hazards are between two sessions and one row. Two
requests suffice for every property of two sessions, and one that needs a third
has it. With `LockTimeout = 2` and `MaxRun = 1` a lock of time 1 is stale at time
3, which is within the clock of the runs with a crash; in `eventqueue_operator`
the lock of a dead worker is of time 0, and is taken over with time to spare. Two
attempts distinguish the first failure, which requeues, from the last one. Two
events in a batch make the second attempt run on a copy the first one has left. In
`polling_gap` two tools make the listing two steps, so that an update can fall
between them, and `Lookback` is less than the clock, so that a first run may read
everything or only what is recent. A limit of two events lets a history grow, be
full and be refused, and histories to three let two reviewers pass it together.
Two attachments whose names agree and a third beside them, a planner with an old
row and two downloaders are the least with which a plan can undo a download, a
download take another's file, and two downloads run side by side; with two
planners and one label the run passes as well (2.4 million states). Four seeds
allow seed, reset, seed again and once more, with a visit in each gap. With pages
of one, three records and two commits a page can shift twice while a listing is
read. Two tables of revision 0001 and the two of 0002 let a crash fall between two
tables, between a table and its indexes and before the stamp, and the two of 0002
stand between the others, as `create_all` takes them: parents first, and children
of one parent in the order in which `models/__init__.py` defines them. Three
commands allow up, down and up; with three processes and one command the run
passes as well (2.9 million states).

`CHECK_DEADLOCK` is off where the system may really rest: the clock stops at its
bound and nothing is due, a history is full, all starts have ended. `review_views`
never rests.

### Fairness

`FairSpec` of `EventQueue` says that the clock goes on, that a request in flight
proceeds to its end, that a receiver finishes its insert, and that somebody
keeps calling `POST /event-queue/run-once` with the default flags while something
can be selected. The last one is what `docs/webhooks.md` asks of the operator:
the application has no scheduler. Weak fairness is enough, and nothing makes a
sync succeed, a delivery arrive or a replay happen. A `Crash` may still end any
request. No other component promises that something happens: polls, reviews,
downloads, seeds and generators are calls somebody may or may not make.

### Mutants

Each property has a mutant in `PROJECT.json`: a plausible slip in the code the
definition stands for, written as an operator beside it, which TLC finds. Among
them: a lock that compares with the start of the request without the timeout; a
failure that keeps the lock or forgets to requeue; a watermark taken at the end
of the run; a redelivery that overwrites; a first row without its unique
constraint; a refused transition that leaves the count; a limit that is one too
many; a download that replaces what is there; a plan that starts an attachment
over; a reset that deletes records first; a directory that is taken although it
exists; a stamp before its last table; a model imported after `create_all`.

## Refinement

`EventQueue` implements `ClaimQueue`: `ImplementsClaims` is `Claims!Spec` with, for
each event, the result a reader of its row sees (`queued` and `processing` are
waiting, `processed` is done, `skipped` and `failed` are dropped) and the number
of its failures, and for each worker the event in whose locked section it is
(`Holding`) and whether it has brought a result (`Answered`). Batches, copies,
refreshes and the clock are stuttering steps. A replay hides the event for good:
what is still at work on it may overwrite anything. The promise is as strong as
the code allows and no stronger. A worker with an old copy may drop an event
without a claim to it (`MarkFailed`, `MarkSkipped`), and one that took the lock
of a settled event works on it again, because only the lock is compared anew.
The condition is that a request ends before its lock is stale
(`MaxRun < LockTimeout`); otherwise two claims overlap. The run has one event and
two workers; `QueueKeepsClaims` proves it for any number.

`Lifecycle` implements `ReviewRecord`: `ImplementsPromise` is `Promise!Spec` with
the status, reason and history a reader sees, that is after the repair of old
labels and with the default status where there is no row. Creating the row,
repairing it and migrating it are stuttering steps; a committed transition is
one `Step`. The proof is for records created since the labels are canonical; the
run adds rows with labels of an older release, and there uses `QuietSpec`, in
which nobody shows the record before a transition or the migration has replaced
such a label: a reader's repair is exactly what `lifecycle_legacy.cfg` refutes.
`ReviewRecord` promises the full walk (`Step`) until a reviewer commits a
transition decided on a row that another reviewer's has replaced. From then on
(`blind`, mapped from the history variable `contested`) a step is still one of the
graph's and is written down, but need not begin where the record is and is not
held to the limit (`BlindStep`): no more can be promised of a code that neither
locks nor versions the row, and `lifecycle_further.cfg` shows what is lost.

## Theorems

TLC's small instances say where to look; the theorems hold for every value of
the constants that satisfies the assumptions named in each module.

`EventQueueProofs`, for any sets of events, workers and receivers, from
`SettingsAssumption` and `NullAssumption` (settings are positive, as `config.py`
requires; the null values are no rows):

- `TypeCorrectness`: `Spec => []TypeOK`. `TypeOK` alone is not inductive: a
  commit copies columns of a row that has to exist. `TypeInv` adds
  `RowsInPlace`: what a batch, a program counter or a replay refers to is stored.
- `LockExclusion`: `MaxRun < LockTimeout` implies `Spec => []EventLockExclusion`.
  The assumption is the real condition of the code: a request must end before
  its lock is stale. `ExclusionInv` adds that every request began at most
  `MaxRun` ago (`Timely`) and that the row of a worker in its section shows the
  worker's own start time (`LockHeld`). Then no other worker finds the lock
  free, and an unchecked release clears no lock but its own.
- `LocksAreReleased` and `ProcessingIsAttended`: `LockHasHolder` and
  `ProcessingHasWorker` without any assumption on timing. Both follow from
  `OwnedInv`. That a worker is in its section is not enough, because a commit
  writes only what differs from the copy: a worker whose copy shows no lock
  would release nothing. The invariant says that for each lock there is a worker
  whose copy shows it or will be refreshed, and for each `processing` one whose
  copy says so and who has still to overwrite it.
- `RedeliveryIsHarmless` (`RedeliveryChangesNothing`): the lookup and the insert
  are the only steps of a receiver, and neither writes to a stored row.
- `FailuresAreCounted` (`FailureAccounting`): if `MaxRun < LockTimeout` and the
  workers are finitely many. That none is lost (`NoneLost`) rests on the exclusion
  and on `Honest`: no copy counts more failures than the row, and a worker about to
  add one, being alone with the event, counts as many, so that its commit writes
  one more. The bound counts sessions, so the invariant has to say where the one
  attempt too many of each comes from. `Pending` are the workers that may still
  count a failure of an exhausted event, because their copies show it below the
  maximum; each of them can do so once, and is not pending afterwards.
  `AccountInv` says that the count, together with the pending ones, stays within
  the bound.
- `QueueKeepsClaims` (`ImplementsClaims`), under the same two conditions. The
  hard steps are the commits, because a commit writes only what differs from the
  session's copy, and the abstract queue says what the row becomes. `ClaimInv`
  says for which columns the copy can be relied on. `Marked`: a worker at its sync
  has a copy that says `processing`, so that its success or failure does write
  the status. `DropsStay`: where a worker about to record a failure has a copy
  that says `skipped` or `failed` already, so does the row; a commit that then
  leaves the status out still ends with a dropped event. Together with the
  exclusion (one claim) and `Honest` (the count in the copy is that of the row)
  every step is a step of `ClaimQueue` or changes nothing it sees.

`PollingWorkerProofs` does the same for the profiles, from `PollingAssumption`
and `PollingNullAssumption`: `PollingTypeCorrectness` (with `CopyInPlace`: a worker
at a profile has loaded it), `ProfileExclusion` if `MaxRun < LockTimeout`, and
`ProfileLockHolder` without that condition.

It also proves `WatermarkHidesNothing` (`NoSilentGap`) under `Reliable`:
`MaxRun < LockTimeout`, for the exclusion; `MaxRun <= Lookback`, because two requests
may both plan the first run of a profile, and the later one must not begin its
lookback beyond the watermark the earlier one leaves; no PATCH and no ad-hoc sync;
and
`DisjointScopes`, no two profiles reach one item. Any number of workers and
profiles, failures and crashes are allowed. `GapInv` says why it holds. What a
worker has planned to read from, or will plan from an old copy, is `Safe`: the
first lookback if the profile has no watermark yet, else a time up to which
everything is stored (`Covered`). A change never makes a past time uncovered,
because it is stamped later. What a worker has listed is complete up to its start
(`ListedAll`) and newer than no item (`ListedOnly`), and its copy equals the row
(`CopyFresh`), since the lock keeps other writers away.

`RecordsAdvance` (`RecordsNeverGoBack`) needs less: `MaxRun < LockTimeout` and
`ApartSpec`, that is, nobody reads the source beside an ad-hoc sync or beside a run
of another profile with an item in common. PATCHes, ad-hoc syncs and profiles that
share items are allowed. Whoever has listed an item holds a version at least as
new as its record (`RecordInv`), because nobody else can have stored it since.
`PollersKeepApart` says that without ad-hoc syncs and with disjoint scopes every
behaviour is one of `ApartSpec`.

`EventSyncProofs`, from `EventSyncAssumption`, `SettingsAssumption` and
`NullAssumption`, takes both over to their composition, for one profile and any
numbers of events, queue workers and pollers. Every step of `EventSync` is a step
of `EventQueue` or leaves the queue alone: `QueueIsImplemented`, `Spec => Q!Spec`,
so that each theorem of `EventQueueProofs` holds of it. Nothing like it is true
of the polling worker, whose requests begin with a load and end once: here a sync
begins at the time of its batch, from whatever the session holds, and a session
runs several. `Map`, `StartSync`, `EndSync`, `EndBatch` and a death are the steps
that hand over, and for them the invariants of `PollingWorkerProofs` are proved
again:

- `EventsKeepExclusion` (`OneRunWithEvents`), if `MaxRun < LockTimeout`. `Linked`
  says which steps of the two parts go together.
- `EventsLeaveNoGap` (`NoGapWithEvents`), if also `MaxRun <= Lookback`. Between
  two syncs of a batch the session holds a copy of the profile that nobody
  refreshes; `SessionSafe` says that it is still safe to read from at the time of
  the batch, in the sense of `GapInv` above, and `Outcomes` that a sync that has
  committed has only its lock to give back.
- `ProcessedIsSeen`, under the same conditions: the item of a processed event is
  stored in the version it announced or a later one, unless that version is older
  than the lookback of the profile's first run (`StoredUnlessOld`). `DueKnown`,
  `Matched` and `InHand` follow the announced version from the delivery to what a
  worker has listed; `AllStored` is the result. The exception is real: the code
  marks such an event processed although it has stored nothing.
- `ProcessedAreStored` (`ProcessedIsStored`): without the exception if the clock
  ends within the first lookback (`ReachesBack`), as it does in `eventsync_batch`.

`RecordProofs`, on the lifecycle, from `LifecycleAssumption`:

- `TypeCorrect`, for any reviewers, viewers, limits and stored rows.
- `RowFollowsHistory`: `StatusIsLastEvent` for a `NewRecord`, however many
  reviewers race. `CanonicalInv` says that only canonical labels are about, so
  that no repair rewrites the row; `AgreeInv` that row and history agree.
  A race can break the path but not its end: a commit leaves out a status only
  if the copy already shows it, and no transition ends where it began.
- `CountBehindHistory`: `CountWithinHistory` if the stored rows count the events they
  have (`CountedRight`), for any number of reviewers. A session's count is behind
  the history it has read, and the history only grows (`CountInv`); a reviewer whom
  no other has overtaken holds the count of the row (`SightInv`).
- `LifecycleImplementsPromise`: the refinement for a `NewRecord`, with any number of
  reviewers and viewers. `Current` says that the copy of a reviewer nobody has
  overtaken is the row; viewers create the row and nothing else. The commit of one
  who was overtaken is a `BlindStep`.

`RecordProofs`, on the demo, from `DemoAssumption`, for any finite set of demo
records and any number of seeds, resets and visits, with the ids SQLite gives out,
one above the highest in the table:

- `DemoTypesHold`, `MarkersAreUnique` (`OnePerMarker`), `ResetLeavesNothing`
  (`NothingDangles`) and `SeedingTwiceIsOnce` (`SeedIsIdempotent`). `DemoInv` says
  that no record has two ids (`Identified`) and no demo record two manifests with
  its marker (`OneManifest`), that nothing dangles, and that after a seed all of
  it is there (`Whole`), which is why a second seed finds nothing missing. `Newest`
  says that one id is the highest, so that the next is free. It is kept from step
  to step because a fact about the largest member of any finite set would need an
  induction over sets.

`AttachmentProofs`, from `AttachmentsAssumption`: `WellTyped` for everything;
`ManifestIsTrue` (`DownloadedIsThere`), `FilesAreNotShared` (`OneFileEach`) and
`DownloadsSurviveSyncs` (`PlanningKeepsDownloads`) for `ApartSpec`, in which no two
downloads of one filename are under way, and under `NamesFixed`: for any
attachments, colliding names, any number of downloads, syncs and plans, and
crashes. The invariant `AgreeInv` has four parts: names are those of the source
(`NamesInv`); a checksum, once in a row, is that of the file and of no other
attachment's (`SumsInv`); a download under way is the only writer of its file, and
no row counts on that file yet (`DownloadInv`); a failed row has a file in its way
(`FailedInv`). The argument is that a file, once it is there, keeps any download of
its name from starting. Both conditions are needed: see `attachments_further.cfg`.

`PilotChainProofs`, from the assumptions of the three gates and `ChainAssumption`
and `NoneAssumption`, for any evidence, forms, generators, days, edits and
crashes:

- `ChainTypesHold`: `Spec => []TypeOK`. `TypeInv` adds that a report in hand is
  one its generator may have built from its input (`Counted`, `Decided`,
  `Composed`) and that files and lists are in directories (`Housed`).
- `ListsAreComplete` (`ListMeansComplete`): `Alone` says that the generator which
  made a directory is the only one to write into it, and that what it has written
  so far are renderings of its report. It holds for the review and the approval,
  which refuse a directory that exists; the readiness report overwrites.
- `GoRestsOnGates` (`GoMeansGates`) if all of `pilot_readiness_require_*` are on
  (`EverythingDemanded`), and `ApprovalsRest` (`ApprovalRests`) if
  `pilot_approval_packet_require_go_decision` is (`GoInsisted`), their defaults.
  An operator who waives a requirement waives what rests on it.

`ReviewViewsProofs`, from `ViewsAssumption` and `RequestsAssumption`, for any
number of records, commits and sections:

- `TriageLabelsAreOfOneMoment` (`TriageIsSnapshot`) and `WaitingStandsFirst`
  (`WaitingFirst`). `Frame` says which step follows from the sections asked for,
  `InHand` that the states a queue works with are those of one remembered moment,
  `OneMoment` that the labels given out so far are. The order is arithmetic on the
  weights of a label.
- `PageIsExplained` (`DetailExplained`), while fewer commits fall into a request
  than the history page has events: as many could push the event that led to the
  status off the page. `WrittenDown` says that a status other than the default is
  that of the last event, `PageInHand` that a newer page still reaches back to it.
- `LaterSectionsKnow` (`LaterSectionsKnowMore`): sections are built in the order of
  their positions (`Scheduled`), and what an earlier one has shown is never more
  than what a later one has shown or can still find (`Growing`).
- `ListingIsClosed` (`ListingHasNoHoles`) and `QuietListing`
  (`QuietListingIsExact`): the place of a record in the order only moves back as
  others arrive (`Place`), so whoever stands before the offset of a page was on an
  earlier one (`Walking`, `Gapless`); with no arrival the pages are the pieces of
  one sequence (`Quiet`).

`DeploymentProofs`, from `DeploymentAssumption` and `StoredAssumption` (a stamped
database has what its stamp says):

- `DeploymentTypeOK`, for any processes, settings, tables and databases.
- `ServingFindsTables` (`ServingHasTables`): `Accounted` says that the tables an
  inspection has passed are there or noted as missing, and those noted are still
  to be created; only a downgrade takes a table away, and it marks the processes
  it does that to (`undermined`).
- `StampIsHonest` (`StampVouches`): `Upgrading` says what of a revision a running
  upgrade has made and has still to make; the stamp comes last. A downgrade that
  died before its stamp is the exception the property names.
- `FailuresLeaveAll` (`FailedStartIsHarmless`), under two conditions. `WholeReleases`:
  a stored database is empty, or has the tables of 0001, or has all, as the
  releases leave it. `SameOrder`: `create_all` and 0001 take the tables of 0001
  alike, 0002 has at most two tables, and no table of 0001 lies between those in
  the order of `create_all`. The code meets it, whether the children of one
  parent are taken as they are defined or by name. `Undisturbed` is the invariant
  while nothing has died and nobody downgrades: a table without its indexes is in
  the hands of the one who made it (`Halves`), tables appear in order
  (`Appearing`), and somebody is still on the way who will make what is missing
  (`Live`), or two are: an upgrade that makes the rest of 0001 and a start that
  makes the tables of 0002 first. The condition is needed: with a table of 0001
  between the two of 0002, or with a third table of 0002, TLC finds a start and
  an upgrade that end each other and leave a table missing.

Every safety property of a passing run is thus the property of a theorem, under
the conditions named. Only model-checked is the liveness of the queue
(`QueuedSettles`): it rests on fairness, and with it on ENABLED, which the prover
does not handle. Model-checked beyond what is proved: the refinement of
`ReviewRecord`, and the agreement of row and history, for rows with old labels,
and `NoSilentGap` with an ad-hoc sync that keeps `Apart`.

## Where documents and code differ

`eventqueue_stranded` ends in a counterexample. `docs/webhooks.md` says that the
worker "recovers stale locks". Not once the event is `processing`: when the
worker dies after that commit, nothing selects the event any more, and it waits
for an operator's replay.

### Further disagreements

These configurations belong to no run of `PROJECT.json`. Each checks the named
properties, which say what a document, a comment or a test says, and TLC
violates them, one at a time or all with `-continue`.

| configuration, module | property | the sentence, and what the code does |
| --- | --- | --- |
| `eventqueue_further`, `MCEventQueue` | `StopsAfterMaxAttempts` | `docs/webhooks.md:49`: failures "stop after the configured maximum attempts"; a worker with an old copy tries once more (`event_queue.py:187`) |
| `eventqueue_further`, `MCEventQueue` | `ForcedReachesQueued` | `docs/webhooks.md:43`: the worker "selects available queued events"; of a forced run, old skipped and failed ones fill the limit (`event_queue.py:380`) |
| `polling_further`, `MCPollingWorker` | `ActiveLockIsExclusive` | `docs/polling-worker.md:29`: nobody acquires an active lock; somebody can, after a worker whose own lock went stale has released it (`polling_worker.py:74`). It needs a stalled process |
| `polling_further`, `MCPollingWorker` | `WatermarkNeverGoesBack` | `docs/polling-worker.md:23`: a run "advances the watermark"; of two overlapping runs the one that began first may end last (`polling_worker.py:87`). It costs a listing and loses nothing |
| `polling_further`, `MCPollingWorker` | `RecordsNeverGoBack` | `docs/architecture.md:48`: re-syncs are "idempotent"; an ad-hoc sync that read the source before a profile's run and commits after it stores the older version over the newer, and the watermark keeps it there (`intake_sync.py:128`) |
| `polling_edits`, `MCProfileEdits` | `NoGapWhereOn` | `docs/polling-worker.md:24`; a source switched off, passed over and switched on again is not looked at for the time between (`sync_profiles.py:88`) |
| `polling_edits`, `MCProfileEdits` | `SomeSourceOn` | `sync_profiles.py:91` refuses a profile without sources; two PATCHes that each switch one off make one |
| `eventsync_conflict`, `MCEventSync` | `ConflictIsNoFailure` | `docs/polling-worker.md:29`: a lock held elsewhere is a conflict or a skip; an event's attempt counts it as a failure, and enough of them end the event (`event_queue.py:283`) |
| `lifecycle_further`, `MCLifecycle` | `StatusFollowsGraph` | `docs/intake-lifecycle-status-flow.md:14`: every transition is validated against the graph; the second of two that read one row leaves it (`intake_lifecycle.py:384`, `:430`) |
| `lifecycle_further`, `MCLifecycle` | `HistoryBounded` | `tests/test_intake_lifecycle_h4.py:226` expects a full history to refuse; two at the limit are both admitted (`intake_lifecycle.py:380`) |
| `lifecycle_legacy`, `MCLifecycle` | `ViewsKeepStatus` | `docs/intake-lifecycle-status-flow.md:29`: read paths represent an un-migrated value "safely"; the repair of an old label on a stale copy takes back a transition (`intake_lifecycle.py:292`) |
| `attachments_further`, `MCAttachments` | `PlannedHasNoBytes` | `docs/attachment-storage.md:37`: a planned attachment has no bytes; a crash between file and commit, or a plan that gives the row the name of an older file, leaves it planned beside one (`attachment_storage.py:197`, `:222`) |
| `attachments_further`, `MCAttachments` | `FilesStay` | `docs/attachment-storage.md:33`: nothing is overwritten; two downloads of one key both find no file (`attachment_storage_provider.py:101`) |
| `attachments_further`, `MCAttachments` | `OneFileEach` | the same two steps: two downloads of attachments whose sanitised names agree end with both called downloaded, on one file (`attachment_storage_provider.py:101`) |
| `attachments_further`, `MCAttachments` | `PlanningKeepsDownloads` | `attachment_storage.py:169` keeps a downloaded row downloaded; of two downloads of one attachment the refused one marks it failed, a sync that finds it so plans it anew, and takes it back when the other has committed in between |
| `attachments_further`, `MCAttachments` | `DownloadedIsThere` | `docs/attachment-storage.md:38`; a plan under a new name moves the key of a downloaded row (`attachment_storage.py:161`), and the later of two overlapping downloads changes the file under the checksum of the earlier |
| `demo_further`, `MCDemoData` | `UnmarkedUntouched` | `docs/demo-reset-guide.md:17`: "Records without the marker are untouched"; a visitor's review events go with the record (`demo_data_experience.py:539`) |
| `demo_further`, `MCDemoData` | `ManifestKeepsItsRecord` | the foreign key of `models/attachment_objects.py:27`; a manifest without the marker stays, and the next record with its id inherits it (`demo_data_experience.py:533`) |
| `pilot_further`, `MCPilotChain` | `GoMeansEveryGate`, `OutstandingBlocks` | `docs/pilot-readiness-gate.md`: GO means that every gate passed, and outstanding evidence blocks; not the gate of the monitoring plan, nor those of webhooks while none are planned, nor an accepted item without a date |
| `pilot_further`, `MCPilotChain` | `ExpiredIsFlagged` | `docs/evidence-review-expiry.md`; an item may expire between validation and gates, which ask the clock each (`evidence_review.py:290`) |
| `review_further`, `MCReviewViews` | `ListingIsComplete` | an export of everything misses records at its end when a sync inserts while it pages (`operator_export_pack.py:167`) |
| `review_further`, `MCReviewViews` | `ViewsWriteNothing` | `docs/intake-review-workspace.md:30`: views are read-only; the page of a record writes a missing or old state |
| `deployment_further`, `MCDeployment` | `UpgradeIsPossible` | `docs/operations-runbook.md:10`: revisions are applied by Alembic; a start has made their tables without a stamp, and the upgrade fails on them (`database.py:41`) |
| `deployment_further`, `MCDeployment` | `SuppliedIsReady` | `docs/deployment-hardening.md:16` lists what production has to supply; with all of it the storage check still blocks (`deployment_readiness.py:578`) |
| `deployment_further`, `MCDeployment` | `LocalReadinessIsHonest` | the report says ready for local use whatever blocks it there (`deployment_readiness.py:969`) |
| `deployment_further`, `MCDeployment` | `HeadIsComplete` | after a downgrade that died, an upgrade reaches head with initial tables missing |

Seen while modelling, and stated by no configuration: the listing of the source
is strictly newer than the watermark (`procore_client.py:126`), so that with
source timestamps coarser than the worker's clock an item changed within the
second of a run is passed over (`CoarseClock` of `ProfileEdits` breaks
`NoSilentGap`); intake records are found by type, project and item without the
connection (`intake_sync.py:128`); in `database_readiness.py` the pilot mode
overwrites what blocked before it; a stamp newer than head ends a start in an
uncaught error of Alembic.

## Not modelled, and the plan

By lines most of the repository is not here: about fifty report generators with
their schemas, and over two hundred command-line wrappers and audits of the
documentation, make up two thirds of it. What keeps state that two actors share,
or that outlives a crash, is modelled, apart from the single rows and
adapters below.

- Webhook normaliser and signature: pure functions of payload and headers, whose
  questions are about the shape of JSON.
- Storage and secret providers: adapters around services outside the repository.
- Connections, onboarding packets, connection health: single rows created once
  and read; a unique constraint ends the one race there is.
- Admin pages and access check: one comparison with a configured value, and
  pages.
- PostgreSQL runtime: settings and probes for a server outside, off by default.
- Report generators and planning services, about fifty: they turn configuration
  and local files into a report, with no state and nothing concurrent. The three
  that form a chain and the readiness report are modelled.
- Within modelled components: attachments without a Procore id, the filters and
  sort orders of the listings, the files an export is written to, the creation of
  profiles, `sync_runs`.

What is left of the plan: the identifiers of the webhook normaliser, and connections
whose profiles share a project.
