------------------------------ MODULE EventQueue ------------------------------
(***************************************************************************)
(* The webhook event queue: app/services/event_queue.py, driven by         *)
(* app/routers/webhooks.py and app/routers/event_queue.py over the table   *)
(* webhook_events.                                                         *)
(*                                                                         *)
(* Any number of requests run at once, each with a database session of its *)
(* own: receivers store deliveries, workers run "process the queue once"   *)
(* and an operator replays events.  A step of the model is what one        *)
(* database transaction makes atomic.  What a request read earlier stays   *)
(* as it was read, in the copy the session keeps (OrmSession).             *)
(*                                                                         *)
(* Left out, because no branch reads it: lock_owner, processed_at, error   *)
(* codes and payload columns.  The outcome of the fixture sync an event    *)
(* triggers, and whether an enabled profile matches the event, are free    *)
(* choices here.                                                           *)
(***************************************************************************)
EXTENDS Naturals, FiniteSets, OrmSession

CONSTANTS
    Keys,         \* event ids, which the table keeps unique
    Relevant,     \* the events whose resource type is rfi or submittal
    Receivers,    \* concurrent webhook requests
    Workers,      \* concurrent run-once requests
    Forces,       \* values of the request's force flag
    BatchLimit,   \* the request's limit
    MaxAttempts,  \* event_max_attempts
    LockTimeout,  \* event_lock_timeout_minutes
    MaxRun,       \* bound: how long a run-once request may last
    MaxTime,      \* bound: the clock stops here
    MaxReplays,   \* bound: events an operator replays, once each
    MaxCrashes,   \* bound: processes that die
    LastCrash,    \* bound: the time after which none dies
    NoRow,        \* no such row, or none loaded
    NoRequest     \* a receiver or an operator with nothing in flight

(* app/config.py requires both settings to be positive, and the route a    *)
(* limit of at least 1.                                                    *)
ASSUME SettingsAssumption ==
    /\ Keys # {} /\ Relevant \subseteq Keys
    /\ Forces \subseteq BOOLEAN
    /\ BatchLimit \in Nat \ {0}
    /\ MaxAttempts \in Nat \ {0}
    /\ LockTimeout \in Nat \ {0}
    /\ MaxRun \in Nat
    /\ MaxTime \in Nat
    /\ MaxReplays \in Nat
    /\ MaxCrashes \in Nat
    /\ LastCrash \in Nat

Status == {"queued", "processing", "processed", "skipped", "failed"}

NoTime == 0  \* a NULL timestamp; the clock starts at 1

Row == [status : Status, failures : Nat, lockedAt : Nat,
        availableAt : Nat, receivedAt : Nat]

ASSUME NullAssumption ==
    /\ NoRow \notin Row
    /\ NoRequest \notin [key : Keys, at : Nat]
    /\ NoRequest \notin [key : Keys, copy : Row]

VARIABLES
    rows,       \* the table webhook_events, by event id
    now,        \* the clock all processes read
    rx,         \* receivers past the lookup, before the insert
    pc,         \* where each worker is
    force,      \* the flag of its request
    runAt,      \* the one time it took for its whole batch
    todo,       \* events of the batch not yet tried
    cur,        \* the event it is at
    copy,       \* what its session holds of each event
    replay,     \* the replay in flight
    replayed,   \* history: events a replay was written to
    abandoned,  \* history: events whose worker died while processing
    crashes,    \* history: how many workers died
    failed      \* history: the attempts that failed, of events not replayed

workerVars  == <<pc, force, runAt, todo, cur, copy>>
historyVars == <<replayed, abandoned, crashes, failed>>
vars == <<rows, now, rx, workerVars, replay, historyVars>>

(* From the committed lock to its release.                                 *)
Section == {"refresh", "mark", "sync", "fail", "release"}
Pc == {"idle", "next", "exhausted", "skip", "acquire"} \cup Section

AnyKey == CHOOSE k \in Keys : TRUE

InSection(w, k) == pc[w] \in Section /\ cur[w] = k

TypeOK ==
    /\ rows \in [Keys -> Row \cup {NoRow}]
    /\ now \in Nat \ {0}
    /\ rx \in [Receivers -> [key : Keys, at : Nat] \cup {NoRequest}]
    /\ pc \in [Workers -> Pc]
    /\ force \in [Workers -> BOOLEAN]
    /\ runAt \in [Workers -> Nat]
    /\ todo \in [Workers -> SUBSET Keys]
    /\ cur \in [Workers -> Keys]
    /\ copy \in [Workers -> [Keys -> Row \cup {NoRow}]]
    /\ replay \in [key : Keys, copy : Row] \cup {NoRequest}
    /\ replayed \in SUBSET Keys
    /\ abandoned \in SUBSET Keys
    /\ crashes \in Nat
    /\ failed \in [Keys -> Nat]

Init ==
    /\ rows = [k \in Keys |-> NoRow]
    /\ now = 1
    /\ rx = [r \in Receivers |-> NoRequest]
    /\ pc = [w \in Workers |-> "idle"]
    /\ force = [w \in Workers |-> FALSE]
    /\ runAt = [w \in Workers |-> NoTime]
    /\ todo = [w \in Workers |-> {}]
    /\ cur = [w \in Workers |-> AnyKey]
    /\ copy = [w \in Workers |-> [k \in Keys |-> NoRow]]
    /\ replay = NoRequest
    /\ replayed = {}
    /\ abandoned = {}
    /\ crashes = 0
    /\ failed = [k \in Keys |-> 0]

-------------------------------------------------------------------------------
(* Receiving.  A delivery whose event id is already stored answers         *)
(* "duplicate" and changes nothing, so Lookup only has the other case.  The *)
(* dry-run route never reaches the insert.                                 *)

Lookup(r, k) ==
    /\ rx[r] = NoRequest
    /\ rows[k] = NoRow
    /\ rx' = [rx EXCEPT ![r] = [key |-> k, at |-> now]]
    /\ UNCHANGED <<rows, now, workerVars, replay, historyVars>>

NewRow(k, at) ==
    [status      |-> IF k \in Relevant THEN "queued" ELSE "skipped",
     failures    |-> 0,
     lockedAt    |-> NoTime,
     availableAt |-> at,
     receivedAt  |-> at]

(* Mutant: without the unique constraint the second insert wins.           *)
LastInserted(row, new) == new

(* The commit, or the IntegrityError of the unique event id: the request   *)
(* then rolls back and answers with the row another receiver stored.       *)
FirstInserted(row, new) == IF row = NoRow THEN new ELSE row

Insert(r) ==
    /\ rx[r] # NoRequest
    /\ rows' = [rows EXCEPT ![rx[r].key] =
                    FirstInserted(@, NewRow(rx[r].key, rx[r].at))]
    /\ rx' = [rx EXCEPT ![r] = NoRequest]
    /\ UNCHANGED <<now, workerVars, replay, historyVars>>

-------------------------------------------------------------------------------
(* A run-once request takes one time and one batch, the oldest deliveries  *)
(* first, and then goes through the batch.  Events received at the same    *)
(* time are ordered by row id in the code; here their order is free.       *)

Selectable(f) == IF f THEN {"queued", "skipped", "failed"} ELSE {"queued"}

Eligible(f) ==
    {k \in Keys : /\ rows[k] # NoRow
                  /\ rows[k].status \in Selectable(f)
                  /\ rows[k].availableAt <= now}

IsBatch(b, f) ==
    /\ b \subseteq Eligible(f)
    /\ \/ b = Eligible(f) /\ Cardinality(b) <= BatchLimit
       \/ Cardinality(b) = BatchLimit
    /\ \A k \in b, j \in Eligible(f) \ b :
           rows[k].receivedAt <= rows[j].receivedAt

Start(w, f) ==
    /\ pc[w] = "idle"
    /\ \E b \in SUBSET Keys :
        /\ b # {}
        /\ IsBatch(b, f)
        /\ todo' = [todo EXCEPT ![w] = b]
        /\ copy' = [copy EXCEPT ![w] =
                        [k \in Keys |-> IF k \in b THEN rows[k] ELSE NoRow]]
    /\ pc' = [pc EXCEPT ![w] = "next"]
    /\ force' = [force EXCEPT ![w] = f]
    /\ runAt' = [runAt EXCEPT ![w] = now]
    /\ UNCHANGED <<rows, now, rx, cur, replay, historyVars>>

(* The end of a request, and of the session that served it.                *)
EndRequest(w) ==
    /\ pc' = [pc EXCEPT ![w] = "idle"]
    /\ force' = [force EXCEPT ![w] = FALSE]
    /\ runAt' = [runAt EXCEPT ![w] = NoTime]
    /\ todo' = [todo EXCEPT ![w] = {}]
    /\ cur' = [cur EXCEPT ![w] = AnyKey]
    /\ copy' = [copy EXCEPT ![w] = [k \in Keys |-> NoRow]]

Finish(w) ==
    /\ pc[w] = "next"
    /\ todo[w] = {}
    /\ EndRequest(w)
    /\ UNCHANGED <<rows, now, rx, replay, historyVars>>

-------------------------------------------------------------------------------
(* The checks on an event of the batch, all of them made on the copy the   *)
(* session holds: as the event was when the batch was selected, or, after  *)
(* a rollback has expired the session, as it is now.  The copies of events *)
(* the batch is done with are never read again, and are dropped here.      *)

OldestFirst(w, k) ==
    /\ k \in todo[w]
    /\ \A j \in todo[w] : Loaded(rows[k], copy[w][k], NoRow).receivedAt
                            <= Loaded(rows[j], copy[w][j], NoRow).receivedAt

NotQueued(w, row)  == row.status # "queued" /\ ~force[w]

ActiveLock(w, row) == row.lockedAt # NoTime /\ row.lockedAt + LockTimeout > runAt[w]

Exhausted(row)     == row.failures >= MaxAttempts

(* Where the checks send an event; an event no enabled profile matches is  *)
(* skipped as one of an unknown resource type is.                          *)
Verdict(w, k, row, matched) ==
    CASE NotQueued(w, row) \/ ActiveLock(w, row) -> "next"
      [] Exhausted(row)                          -> "exhausted"
      [] k \notin Relevant \/ ~matched           -> "skip"
      [] OTHER                                   -> "acquire"

Check(w) ==
    /\ pc[w] = "next"
    /\ \E k \in todo[w], matched \in BOOLEAN :
        /\ OldestFirst(w, k)
        /\ LET row == Loaded(rows[k], copy[w][k], NoRow) IN
            /\ pc' = [pc EXCEPT ![w] = Verdict(w, k, row, matched)]
            /\ copy' = [copy EXCEPT ![w] =
                   [j \in Keys |-> IF j = k THEN row
                                  ELSE IF j \in todo[w] THEN @[j] ELSE NoRow]]
        /\ cur' = [cur EXCEPT ![w] = k]
        /\ todo' = [todo EXCEPT ![w] = @ \ {k}]
    /\ UNCHANGED <<rows, now, rx, force, runAt, replay, historyVars>>

(* Assign a new value to the copy of the current event and commit it.      *)
Commit(w, new) ==
    /\ rows' = [rows EXCEPT ![cur[w]] = Flush(@, copy[w][cur[w]], new)]
    /\ copy' = [copy EXCEPT ![w][cur[w]] = new]

MarkFailed(w) ==
    /\ pc[w] = "exhausted"
    /\ Commit(w, [copy[w][cur[w]] EXCEPT !.status = "failed"])
    /\ pc' = [pc EXCEPT ![w] = "next"]
    /\ UNCHANGED <<now, rx, force, runAt, todo, cur, replay, historyVars>>

MarkSkipped(w) ==
    /\ pc[w] = "skip"
    /\ Commit(w, [copy[w][cur[w]] EXCEPT !.status = "skipped"])
    /\ pc' = [pc EXCEPT ![w] = "next"]
    /\ UNCHANGED <<now, rx, force, runAt, todo, cur, replay, historyVars>>

-------------------------------------------------------------------------------
(* Mutants: the timeout is not subtracted; a stale lock is not recovered.  *)
HeldBefore(w, row) == row.lockedAt <= runAt[w]
NeverStale(w, row) == row.lockedAt = NoTime

(* The processing lock: a conditional UPDATE on the row itself, which      *)
(* looks at the lock and at nothing else.                                  *)
LockFree(w, row) ==
    row.lockedAt = NoTime \/ row.lockedAt + LockTimeout <= runAt[w]

Acquire(w) ==
    /\ pc[w] = "acquire"
    /\ LockFree(w, rows[cur[w]])
    /\ rows' = [rows EXCEPT ![cur[w]].lockedAt = runAt[w]]
    /\ pc' = [pc EXCEPT ![w] = "refresh"]
    /\ UNCHANGED <<now, rx, force, runAt, todo, cur, copy, replay, historyVars>>

(* The UPDATE matched no row: EventLockedError, and on to the next event.  *)
LockLost(w) ==
    /\ pc[w] = "acquire"
    /\ ~LockFree(w, rows[cur[w]])
    /\ copy' = [copy EXCEPT ![w][cur[w]] = rows[cur[w]]]
    /\ pc' = [pc EXCEPT ![w] = "next"]
    /\ UNCHANGED <<rows, now, rx, force, runAt, todo, cur, replay, historyVars>>

Refresh(w) ==
    /\ pc[w] = "refresh"
    /\ copy' = [copy EXCEPT ![w][cur[w]] = rows[cur[w]]]
    /\ pc' = [pc EXCEPT ![w] = "mark"]
    /\ UNCHANGED <<rows, now, rx, force, runAt, todo, cur, replay, historyVars>>

MarkProcessing(w) ==
    /\ pc[w] = "mark"
    /\ Commit(w, [copy[w][cur[w]] EXCEPT !.status = "processing"])
    /\ pc' = [pc EXCEPT ![w] = "sync"]
    /\ UNCHANGED <<now, rx, force, runAt, todo, cur, replay, historyVars>>

SyncSucceeds(w) ==
    /\ pc[w] = "sync"
    /\ Commit(w, [copy[w][cur[w]] EXCEPT !.status = "processed"])
    /\ pc' = [pc EXCEPT ![w] = "release"]
    /\ UNCHANGED <<now, rx, force, runAt, todo, cur, replay, historyVars>>

(* Any exception, a locked sync profile among them.  The rollback expires  *)
(* everything the session holds; the event is read again ...               *)
SyncFails(w) ==
    /\ pc[w] = "sync"
    /\ copy' = [copy EXCEPT ![w] =
                    [k \in Keys |-> IF k = cur[w] THEN rows[k] ELSE NoRow]]
    /\ pc' = [pc EXCEPT ![w] = "fail"]
    /\ failed' = [failed EXCEPT ![cur[w]] = IF cur[w] \in replayed THEN @ ELSE @ + 1]
    /\ UNCHANGED <<rows, now, rx, force, runAt, todo, cur, replay,
                   replayed, abandoned, crashes>>

(* Mutants: a status no query knows; "queued" forgotten, so that the event *)
(* stays in processing; the maximum compared with the count before.        *)
Retrying(row, at)   == [row EXCEPT !.failures = @ + 1, !.status = "retrying"]
NotRequeued(row, at) ==
    [row EXCEPT !.failures = @ + 1,
                !.status   = IF row.failures + 1 >= MaxAttempts
                             THEN "failed" ELSE @]
OneTooMany(row, at) ==
    [row EXCEPT !.failures = @ + 1,
                !.status   = IF row.failures >= MaxAttempts
                             THEN "failed" ELSE "queued"]

AfterFailure(row, at) ==
    [row EXCEPT !.failures    = @ + 1,
                !.status      = IF row.failures + 1 >= MaxAttempts
                                THEN "failed" ELSE "queued",
                !.availableAt = at]

(* ... and the failure is counted on what was read.                        *)
RecordFailure(w) ==
    /\ pc[w] = "fail"
    /\ Commit(w, AfterFailure(copy[w][cur[w]], runAt[w]))
    /\ pc' = [pc EXCEPT ![w] = "release"]
    /\ UNCHANGED <<now, rx, force, runAt, todo, cur, replay, historyVars>>

(* Mutant: only a success gives the lock back.                             *)
UnlockedAfterSuccess(row) ==
    IF row.status = "processed" THEN [row EXCEPT !.lockedAt = NoTime] ELSE row

Unlocked(row) == [row EXCEPT !.lockedAt = NoTime]

(* Whoever holds the lock by now.                                          *)
Release(w) ==
    /\ pc[w] = "release"
    /\ Commit(w, Unlocked(copy[w][cur[w]]))
    /\ pc' = [pc EXCEPT ![w] = "next"]
    /\ UNCHANGED <<now, rx, force, runAt, todo, cur, replay, historyVars>>

-------------------------------------------------------------------------------
(* An operator replays an event: the route reads the row, the service      *)
(* resets it, lock included, whatever a worker is doing with it.           *)

ReplayRead(k) ==
    /\ replay = NoRequest
    /\ rows[k] # NoRow
    /\ k \notin replayed
    /\ Cardinality(replayed) < MaxReplays
    /\ replay' = [key |-> k, copy |-> rows[k]]
    /\ UNCHANGED <<rows, now, rx, workerVars, historyVars>>

ReplayWrite ==
    /\ replay # NoRequest
    /\ LET k   == replay.key
           new == [replay.copy EXCEPT !.status      = "queued",
                                      !.availableAt = now,
                                      !.failures    = 0,
                                      !.lockedAt    = NoTime]
       IN  /\ rows' = [rows EXCEPT ![k] = Flush(@, replay.copy, new)]
           /\ replayed' = replayed \cup {k}
           /\ failed' = [failed EXCEPT ![k] = 0]
    /\ replay' = NoRequest
    /\ UNCHANGED <<now, rx, workerVars, abandoned, crashes>>

-------------------------------------------------------------------------------
(* The process of a worker dies, or a database error ends its request.     *)
Crash(w) ==
    /\ pc[w] # "idle"
    /\ crashes < MaxCrashes
    /\ now <= LastCrash
    /\ crashes' = crashes + 1
    /\ abandoned' = abandoned \cup {k \in Keys : InSection(w, k)}
    /\ EndRequest(w)
    /\ UNCHANGED <<rows, now, rx, replay, replayed, failed>>

(* The clock.  A request may not last longer than MaxRun.                  *)
Tick ==
    /\ now < MaxTime
    /\ \A w \in Workers : pc[w] # "idle" => now < runAt[w] + MaxRun
    /\ now' = now + 1
    /\ UNCHANGED <<rows, rx, workerVars, replay, historyVars>>

-------------------------------------------------------------------------------
Receive == \E r \in Receivers : Insert(r) \/ \E k \in Keys : Lookup(r, k)

(* What a worker does without an operator's request: everything but Start. *)
Advance(w) ==
    \/ Finish(w)         \/ Check(w)
    \/ MarkFailed(w)     \/ MarkSkipped(w)
    \/ Acquire(w)        \/ LockLost(w)
    \/ Refresh(w)        \/ MarkProcessing(w)
    \/ SyncSucceeds(w)   \/ SyncFails(w)
    \/ RecordFailure(w)  \/ Release(w)

Next ==
    \/ Receive
    \/ \E w \in Workers : Advance(w) \/ Crash(w) \/ \E f \in Forces : Start(w, f)
    \/ \E k \in Keys : ReplayRead(k)
    \/ ReplayWrite
    \/ Tick

Spec == Init /\ [][Next]_vars

(* A request in flight runs on, and somebody keeps calling run-once with   *)
(* its default flags; nobody has to replay, crash or deliver.              *)
FairSpec ==
    /\ Spec
    /\ WF_vars(Tick)
    /\ \A w \in Workers : WF_vars(Advance(w)) /\ WF_vars(Start(w, FALSE))
    /\ \A r \in Receivers : WF_vars(Insert(r))

(* The same, but whoever calls run-once always sets force.                 *)
ForcedSpec ==
    /\ Spec
    /\ WF_vars(Tick)
    /\ \A w \in Workers : WF_vars(Advance(w)) /\ WF_vars(Start(w, TRUE))
    /\ \A r \in Receivers : WF_vars(Insert(r))

-------------------------------------------------------------------------------
(* Two sessions never process one event at the same time, unless an        *)
(* operator's replay threw the lock away: the point of acquire_event_lock. *)
(* It needs every request to end before its lock is stale.                 *)
EventLockExclusion ==
    \A k \in Keys \ replayed : \A v, w \in Workers :
        InSection(v, k) /\ InSection(w, k) => v = w

(* A lock never outlives its holder, except through a crash: every path    *)
(* out of process_webhook_event_once, success, exception or takeover,      *)
(* releases it, so an unlocked event is never kept waiting for a timeout.  *)
LockHasHolder ==
    \A k \in Keys \ abandoned :
        rows[k] # NoRow /\ rows[k].lockedAt # NoTime
            => \E w \in Workers : InSection(w, k)

(* "processing" is selected neither by a run nor by a forced run, so an    *)
(* event left there is lost; without a crash a worker is always on it.     *)
ProcessingHasWorker ==
    \A k \in Keys \ abandoned :
        rows[k] # NoRow /\ rows[k].status = "processing"
            => \E w \in Workers : InSection(w, k)

(* Until an operator replays an event, its failure count is the number of  *)
(* attempts at it that failed, the one about to be counted and those whose *)
(* worker died aside: workers that count at the same time, each on what it *)
(* read, lose none of them.  Each worker with a stale batch can add one    *)
(* attempt beyond the maximum, and "failed" and an exhausted count go      *)
(* together.  It needs every request to end before its lock is stale.      *)
BeingCounted(k) == \E w \in Workers : pc[w] = "fail" /\ cur[w] = k

FailureAccounting ==
    \A k \in Keys \ replayed : rows[k] # NoRow =>
        /\ k \notin abandoned =>
               failed[k] = rows[k].failures + IF BeingCounted(k) THEN 1 ELSE 0
        /\ rows[k].failures <= MaxAttempts + Cardinality(Workers) - 1
        /\ rows[k].status = "failed" => rows[k].failures >= MaxAttempts
        /\ rows[k].status = "queued" => rows[k].failures < MaxAttempts

(* A delivery repeated at any moment, also while another one of the same   *)
(* event is being stored, leaves a stored event alone: it is neither       *)
(* requeued nor does it lose its lock or its count.                        *)
RedeliveryChangesNothing ==
    [][\A r \in Receivers : rx'[r] # rx[r] =>
          \A k \in Keys : rows[k] # NoRow => rows'[k] = rows[k]]_vars

(* Every queued event is settled in the end, however many batches, stale   *)
(* copies and failing syncs it meets, and though a dead worker's lock has  *)
(* to go stale first: only one whose worker died after it had committed    *)
(* "processing" is not.                                                    *)
Settled(k) == rows[k].status \in {"processed", "skipped", "failed"}
Stranded(k) == rows[k].status = "processing" /\ k \in abandoned

QueuedSettles ==
    \A k \in Keys :
        (rows[k] # NoRow /\ rows[k].status = "queued")
            ~> (rows[k] # NoRow /\ (Settled(k) \/ Stranded(k)))

(* The queue keeps the promise of ClaimQueue to every event that is not    *)
(* replayed, through batches that overlap, copies that are stale and locks *)
(* that expire.  It needs every request to end before its lock is stale.   *)
Outcome == [queued    |-> "waiting", processing |-> "waiting",
            processed |-> "done",
            skipped   |-> "dropped", failed     |-> "dropped"]

Results == [k \in Keys |-> IF k \in replayed THEN "replayed"
                           ELSE IF rows[k] = NoRow THEN "absent"
                           ELSE Outcome[rows[k].status]]

Attempts == [k \in Keys |-> IF k \in replayed \/ rows[k] = NoRow THEN 0
                            ELSE rows[k].failures]

Holding == [w \in Workers |-> {k \in Keys \ replayed : InSection(w, k)}]

Answered == {w \in Workers : pc[w] = "release" /\ cur[w] \notin replayed}

Claims == INSTANCE ClaimQueue WITH
    result <- Results, attempts <- Attempts, claim <- Holding, answered <- Answered

ImplementsClaims == Claims!Spec

-------------------------------------------------------------------------------
(* What the documents say and the code does not do.                        *)

(* docs/webhooks.md: failures "stop after the configured maximum attempts".  *)
(* Workers with stale batches go on: the maximum is checked on the copy of *)
(* the batch, and the lock is taken without another look at the row.       *)
StopsAfterMaxAttempts ==
    \A k \in Keys : rows[k] # NoRow => rows[k].failures <= MaxAttempts

(* docs/webhooks.md: the worker "recovers stale locks".  It does as long as *)
(* the event is still queued; once it is processing no run selects it, and *)
(* no lock timeout brings it back.                                         *)
ProcessingEnds ==
    \A k \in Keys :
        (rows[k] # NoRow /\ rows[k].status = "processing")
            ~> (rows[k] # NoRow /\ rows[k].status # "processing")

(* docs/webhooks.md: the worker "selects available queued events".  A      *)
(* forced run selects skipped and failed ones as well and the oldest       *)
(* first; as many of them as its limit are all it ever gets to.  (Of events *)
(* received at one time the database may return either first.)             *)
ForcedReachesQueued ==
    \A k \in Keys :
        (rows[k] # NoRow /\ rows[k].status = "queued")
            ~> /\ rows[k] # NoRow
               /\ \/ Settled(k)
                  \/ \E j \in Keys \ {k} :
                         rows[j] # NoRow /\ rows[j].receivedAt = rows[k].receivedAt
===============================================================================
