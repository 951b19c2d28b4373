----------------------------- MODULE PollingWorker -----------------------------
(***************************************************************************)
(* Polling: app/services/polling_worker.py over the table sync_profiles,   *)
(* with the fixture intake of app/services/intake_sync.py it runs, and the *)
(* ad-hoc sync of app/routers/sync.py that writes the same intake records  *)
(* without profile, lock or watermark.                                     *)
(*                                                                         *)
(* Workers are concurrent requests, each with its own session: a run of    *)
(* all due profiles, or of one profile.  An item of the source is known by *)
(* the time it was last changed, and so is the version of it that an       *)
(* intake record holds.                                                    *)
(*                                                                         *)
(* Left out, because no branch reads it: lock_owner, the attempt and       *)
(* success timestamps, consecutive_failure_count, error columns, sync runs *)
(* and attachment rows.  Row ids order a batch; here its order is free.    *)
(***************************************************************************)
EXTENDS Naturals, FiniteSets, OrmSession

CONSTANTS
    Profiles,     \* sync profiles
    Items,        \* RFIs and submittals of the source
    Tools,        \* the sources a profile can switch: rfis, submittals
    ToolOf,       \* the tool of each item
    Scope,        \* items a profile's project and connection reach
    Workers,      \* concurrent polling requests
    Requests,     \* flags of a request to run one profile
    Lookback,     \* max_sync_lookback_days
    Interval,     \* polling_interval_minutes
    LockTimeout,  \* sync_lock_timeout_minutes
    MaxRun,       \* bound: how long a request may last
    MaxTime,      \* bound: the clock stops here
    MaxPatches,   \* bound: changes to profiles
    MaxAdhoc,     \* bound: ad-hoc syncs
    MaxCrashes,   \* bound: processes that die
    NoRow,        \* a profile the session has not loaded
    NoRequest     \* no ad-hoc sync in flight

ASSUME PollingAssumption ==
    /\ Profiles # {}
    /\ ToolOf \in [Items -> Tools]
    /\ Scope \in [Profiles -> SUBSET Items]
    /\ Requests \subseteq [force : BOOLEAN, mock : BOOLEAN]
    /\ Lookback \in Nat
    /\ Interval \in Nat \ {0}
    /\ LockTimeout \in Nat \ {0}
    /\ {MaxRun, MaxTime, MaxPatches, MaxAdhoc, MaxCrashes} \subseteq Nat

NoTime == 0  \* a NULL timestamp, an item that is not there; the clock starts at 1

Profile == [enabled : BOOLEAN, tools : SUBSET Tools, mode : {"mock", "live"},
            lockedAt : Nat, watermark : Nat, nextRun : Nat]

Version == [Items -> Nat]

ASSUME PollingNullAssumption ==
    /\ NoRow \notin Profile
    /\ NoRequest \notin [unread : SUBSET Tools, got : Version]

VARIABLES
    profiles,   \* the table sync_profiles
    rec,        \* the table intake_records: source_updated_at of each item
    stamp,      \* the source: updated_at of each item
    now,        \* the clock
    pc,         \* where each worker is
    req,        \* the flags of its request
    runAt,      \* the one time it took for the whole request
    todo,       \* profiles it has not yet tried
    cur,        \* the profile it is at
    copy,       \* what its session holds of each profile
    planned,    \* planned_watermark, the updated_after of the current run
    unread,     \* sources the current run has still to list
    got,        \* what the run has read and not yet committed
    adhoc,      \* the ad-hoc sync in flight
    since,      \* history: the planned watermark of a profile's first success
    abandoned,  \* history: profiles whose worker died while it held the lock
    spent       \* history: patches, ad-hoc syncs and crashes so far

workerVars  == <<pc, req, runAt, todo, cur, copy, planned, unread, got>>
historyVars == <<since, abandoned, spent>>
vars == <<profiles, rec, stamp, now, workerVars, adhoc, historyVars>>

Section == {"refresh", "read", "fail", "release"}
Pc == {"idle", "next", "acquire"} \cup Section

InSection(w, p) == pc[w] \in Section /\ cur[w] = p

AnyProfile == CHOOSE p \in Profiles : TRUE
Nothing    == [i \in Items |-> NoTime]
DueRequest == [force |-> FALSE, mock |-> FALSE]

TypeOK ==
    /\ profiles \in [Profiles -> Profile]
    /\ {rec, stamp} \subseteq Version
    /\ now \in Nat \ {0}
    /\ pc \in [Workers -> Pc]
    /\ req \in [Workers -> [force : BOOLEAN, mock : BOOLEAN]]
    /\ runAt \in [Workers -> Nat]
    /\ todo \in [Workers -> SUBSET Profiles]
    /\ cur \in [Workers -> Profiles]
    /\ copy \in [Workers -> [Profiles -> Profile \cup {NoRow}]]
    /\ planned \in [Workers -> Nat]
    /\ unread \in [Workers -> SUBSET Tools]
    /\ got \in [Workers -> Version]
    /\ adhoc \in [unread : SUBSET Tools, got : Version] \cup {NoRequest}
    /\ since \in [Profiles -> Nat]
    /\ abandoned \in SUBSET Profiles
    /\ spent \in [patch : Nat, adhoc : Nat, crash : Nat]

(* A profile as it is created: every source on, nothing synced yet.        *)
NewProfile ==
    [enabled |-> TRUE, tools |-> Tools, mode |-> "mock",
     lockedAt |-> NoTime, watermark |-> NoTime, nextRun |-> NoTime]

Init ==
    /\ profiles = [p \in Profiles |-> NewProfile]
    /\ rec = Nothing
    /\ stamp = Nothing
    /\ now = 1
    /\ pc = [w \in Workers |-> "idle"]
    /\ req = [w \in Workers |-> DueRequest]
    /\ runAt = [w \in Workers |-> NoTime]
    /\ todo = [w \in Workers |-> {}]
    /\ cur = [w \in Workers |-> AnyProfile]
    /\ copy = [w \in Workers |-> [p \in Profiles |-> NoRow]]
    /\ planned = [w \in Workers |-> NoTime]
    /\ unread = [w \in Workers |-> {}]
    /\ got = [w \in Workers |-> Nothing]
    /\ adhoc = NoRequest
    /\ since = [p \in Profiles |-> NoTime]
    /\ abandoned = {}
    /\ spent = [patch |-> 0, adhoc |-> 0, crash |-> 0]

-------------------------------------------------------------------------------
(* The beginning and the end of a request.                                 *)

Due(p) == /\ profiles[p].enabled
          /\ profiles[p].nextRun = NoTime \/ profiles[p].nextRun <= now

Begin(w, r, ps) ==
    /\ pc[w] = "idle"
    /\ ps # {}
    /\ pc' = [pc EXCEPT ![w] = "next"]
    /\ req' = [req EXCEPT ![w] = r]
    /\ runAt' = [runAt EXCEPT ![w] = now]
    /\ todo' = [todo EXCEPT ![w] = ps]
    /\ copy' = [copy EXCEPT ![w] =
                    [p \in Profiles |-> IF p \in ps THEN profiles[p] ELSE NoRow]]
    /\ UNCHANGED <<profiles, rec, stamp, now, cur, planned, unread, got, adhoc,
                   historyVars>>

(* run_due_profiles_once *)
StartDue(w) == Begin(w, DueRequest, {p \in Profiles : Due(p)})

(* run_sync_profile_once by itself, whether the profile is due or not.     *)
StartOne(w, p) == \E r \in Requests : Begin(w, r, {p})

EndRequest(w) ==
    /\ pc' = [pc EXCEPT ![w] = "idle"]
    /\ req' = [req EXCEPT ![w] = DueRequest]
    /\ runAt' = [runAt EXCEPT ![w] = NoTime]
    /\ todo' = [todo EXCEPT ![w] = {}]
    /\ cur' = [cur EXCEPT ![w] = AnyProfile]
    /\ copy' = [copy EXCEPT ![w] = [p \in Profiles |-> NoRow]]
    /\ planned' = [planned EXCEPT ![w] = NoTime]
    /\ unread' = [unread EXCEPT ![w] = {}]
    /\ got' = [got EXCEPT ![w] = Nothing]

Finish(w) ==
    /\ pc[w] = "next"
    /\ todo[w] = {}
    /\ EndRequest(w)
    /\ UNCHANGED <<profiles, rec, stamp, now, adhoc, historyVars>>

-------------------------------------------------------------------------------
(* The checks before a run, made on the session's copy, which also gives   *)
(* the watermark to read from.  Nothing looks at either again once the     *)
(* lock is held.                                                           *)

ActiveLock(w, row) == row.lockedAt # NoTime /\ row.lockedAt + LockTimeout > runAt[w]

Refused(w, row) ==
    \/ ~row.enabled /\ ~req[w].force
    \/ ActiveLock(w, row)
    \/ row.mode = "live" /\ ~req[w].mock

(* Mutant: the lookback reaches before the first day.                      *)
UnboundedLookback(w, row) ==
    IF row.watermark # NoTime THEN row.watermark ELSE runAt[w] - Lookback

PlannedWatermark(w, row) ==
    IF row.watermark # NoTime THEN row.watermark
    ELSE IF runAt[w] > Lookback THEN runAt[w] - Lookback ELSE 0

Check(w) ==
    /\ pc[w] = "next"
    /\ \E p \in todo[w] :
        LET row == Loaded(profiles[p], copy[w][p], NoRow) IN
        /\ pc' = [pc EXCEPT ![w] = IF Refused(w, row) THEN "next" ELSE "acquire"]
        /\ planned' = [planned EXCEPT ![w] = PlannedWatermark(w, row)]
        /\ copy' = [copy EXCEPT ![w] =
               [q \in Profiles |-> IF q = p THEN row
                                   ELSE IF q \in todo[w] THEN @[q] ELSE NoRow]]
        /\ cur' = [cur EXCEPT ![w] = p]
        /\ todo' = [todo EXCEPT ![w] = @ \ {p}]
    /\ UNCHANGED <<profiles, rec, stamp, now, req, runAt, unread, got, adhoc,
                   historyVars>>

(* Mutant: the timeout is not subtracted.                                  *)
HeldBefore(w, row) == row.lockedAt <= runAt[w]

LockFree(w, row) ==
    row.lockedAt = NoTime \/ row.lockedAt + LockTimeout <= runAt[w]

Acquire(w) ==
    /\ pc[w] = "acquire"
    /\ LockFree(w, profiles[cur[w]])
    /\ profiles' = [profiles EXCEPT ![cur[w]].lockedAt = runAt[w]]
    /\ pc' = [pc EXCEPT ![w] = "refresh"]
    /\ UNCHANGED <<rec, stamp, now, req, runAt, todo, cur, copy, planned, unread,
                   got, adhoc, historyVars>>

LockLost(w) ==
    /\ pc[w] = "acquire"
    /\ ~LockFree(w, profiles[cur[w]])
    /\ copy' = [copy EXCEPT ![w][cur[w]] = profiles[cur[w]]]
    /\ pc' = [pc EXCEPT ![w] = "next"]
    /\ UNCHANGED <<profiles, rec, stamp, now, req, runAt, todo, cur, planned,
                   unread, got, adhoc, historyVars>>

Refresh(w) ==
    /\ pc[w] = "refresh"
    /\ copy' = [copy EXCEPT ![w][cur[w]] = profiles[cur[w]]]
    /\ unread' = [unread EXCEPT ![w] = profiles[cur[w]].tools]
    /\ got' = [got EXCEPT ![w] = Nothing]
    /\ pc' = [pc EXCEPT ![w] = "read"]
    /\ UNCHANGED <<profiles, rec, stamp, now, req, runAt, todo, cur, planned,
                   adhoc, historyVars>>

-------------------------------------------------------------------------------
(* The run.  It lists one source after the other, keeping what changed     *)
(* strictly after the planned watermark; then one transaction stores the   *)
(* records and advances the watermark to the time the request began.       *)

Listed(t, scope, after, old) ==
    [i \in Items |-> IF i \in scope /\ ToolOf[i] = t /\ stamp[i] > after
                     THEN stamp[i] ELSE old[i]]

Stored(new) == [i \in Items |-> IF new[i] # NoTime THEN new[i] ELSE rec[i]]

ReadSource(w) ==
    /\ pc[w] = "read"
    /\ \E t \in unread[w] :
        /\ unread' = [unread EXCEPT ![w] = @ \ {t}]
        /\ got' = [got EXCEPT ![w] = Listed(t, Scope[cur[w]], planned[w], @)]
    /\ UNCHANGED <<profiles, rec, stamp, now, pc, req, runAt, todo, cur, copy,
                   planned, adhoc, historyVars>>

Commit(w, new) ==
    /\ profiles' = [profiles EXCEPT ![cur[w]] = Flush(@, copy[w][cur[w]], new)]
    /\ copy' = [copy EXCEPT ![w][cur[w]] = new]

(* Mutant: the watermark is the time the run ended.                        *)
WatermarkAtEnd(w, row) ==
    [row EXCEPT !.watermark = now, !.nextRun = runAt[w] + Interval]

AfterSuccess(w, row) ==
    [row EXCEPT !.watermark = runAt[w], !.nextRun = runAt[w] + Interval]

SyncSucceeds(w) ==
    /\ pc[w] = "read"
    /\ unread[w] = {}
    /\ rec' = Stored(got[w])
    /\ Commit(w, AfterSuccess(w, copy[w][cur[w]]))
    /\ since' = [since EXCEPT ![cur[w]] =
                     IF profiles[cur[w]].watermark = NoTime THEN planned[w] ELSE @]
    /\ pc' = [pc EXCEPT ![w] = "release"]
    /\ UNCHANGED <<stamp, now, req, runAt, todo, cur, planned, unread, got,
                   adhoc, abandoned, spent>>

(* Any exception rolls the transaction back and expires the session; the   *)
(* profile is read again ...                                               *)
SyncFails(w) ==
    /\ pc[w] = "read"
    /\ copy' = [copy EXCEPT ![w] =
           [p \in Profiles |-> IF p = cur[w] THEN profiles[p] ELSE NoRow]]
    /\ pc' = [pc EXCEPT ![w] = "fail"]
    /\ UNCHANGED <<profiles, rec, stamp, now, req, runAt, todo, cur, planned,
                   unread, got, adhoc, historyVars>>

(* Mutant: the failure path returns without its finally clause.            *)
FailureKeepsLock(w) ==
    /\ pc[w] = "fail"
    /\ Commit(w, [copy[w][cur[w]] EXCEPT !.nextRun = runAt[w] + Interval])
    /\ pc' = [pc EXCEPT ![w] = "next"]
    /\ UNCHANGED <<rec, stamp, now, req, runAt, todo, cur, planned, unread, got,
                   adhoc, historyVars>>

(* ... and only its next run is moved.                                     *)
RecordFailure(w) ==
    /\ pc[w] = "fail"
    /\ Commit(w, [copy[w][cur[w]] EXCEPT !.nextRun = runAt[w] + Interval])
    /\ pc' = [pc EXCEPT ![w] = "release"]
    /\ UNCHANGED <<rec, stamp, now, req, runAt, todo, cur, planned, unread, got,
                   adhoc, historyVars>>

(* Whoever holds the lock by now.                                          *)
Release(w) ==
    /\ pc[w] = "release"
    /\ Commit(w, [copy[w][cur[w]] EXCEPT !.lockedAt = NoTime])
    /\ pc' = [pc EXCEPT ![w] = "next"]
    /\ unread' = [unread EXCEPT ![w] = {}]
    /\ got' = [got EXCEPT ![w] = Nothing]
    /\ UNCHANGED <<rec, stamp, now, req, runAt, todo, cur, planned, adhoc,
                   historyVars>>

Crash(w) ==
    /\ pc[w] # "idle"
    /\ spent.crash < MaxCrashes
    /\ spent' = [spent EXCEPT !.crash = @ + 1]
    /\ abandoned' = abandoned \cup {p \in Profiles : InSection(w, p)}
    /\ EndRequest(w)
    /\ UNCHANGED <<profiles, rec, stamp, now, adhoc, since>>

-------------------------------------------------------------------------------
(* The ad-hoc sync of a connection: every source, whatever its age, and    *)
(* its own commit.                                                         *)

StartAdhoc ==
    /\ adhoc = NoRequest
    /\ spent.adhoc < MaxAdhoc
    /\ spent' = [spent EXCEPT !.adhoc = @ + 1]
    /\ adhoc' = [unread |-> Tools, got |-> Nothing]
    /\ UNCHANGED <<profiles, rec, stamp, now, workerVars, since, abandoned>>

ReadAdhoc ==
    /\ adhoc # NoRequest
    /\ \E t \in adhoc.unread :
        adhoc' = [unread |-> adhoc.unread \ {t},
                  got    |-> Listed(t, Items, 0, adhoc.got)]
    /\ UNCHANGED <<profiles, rec, stamp, now, workerVars, historyVars>>

CommitAdhoc ==
    /\ adhoc # NoRequest
    /\ adhoc.unread = {}
    /\ rec' = Stored(adhoc.got)
    /\ adhoc' = NoRequest
    /\ UNCHANGED <<profiles, stamp, now, workerVars, historyVars>>

-------------------------------------------------------------------------------
(* PATCH of a profile: any change that leaves a source on.  The watermark  *)
(* is not among what it can change, and is not reset.                      *)
PatchProfile(p) ==
    /\ spent.patch < MaxPatches
    /\ spent' = [spent EXCEPT !.patch = @ + 1]
    /\ \E e \in BOOLEAN, ts \in SUBSET Tools \ {{}}, m \in {"mock", "live"} :
        profiles' = [profiles EXCEPT ![p].enabled = e, ![p].tools = ts,
                                     ![p].mode = m]
    /\ UNCHANGED <<rec, stamp, now, workerVars, adhoc, since, abandoned>>

TimeMayPass ==
    /\ now < MaxTime
    /\ \A w \in Workers : pc[w] # "idle" => now < runAt[w] + MaxRun

Tick ==
    /\ TimeMayPass
    /\ now' = now + 1
    /\ UNCHANGED <<profiles, rec, stamp, workerVars, adhoc, historyVars>>

(* An item is created or changed at the source.  It bears a time later than *)
(* the start of every request that began before the change.                *)
Update(i) ==
    /\ TimeMayPass
    /\ now' = now + 1
    /\ stamp' = [stamp EXCEPT ![i] = now']
    /\ UNCHANGED <<profiles, rec, workerVars, adhoc, historyVars>>

Advance(w) ==
    \/ Finish(w)        \/ Check(w)      \/ Acquire(w)       \/ LockLost(w)
    \/ Refresh(w)       \/ ReadSource(w) \/ SyncSucceeds(w)  \/ SyncFails(w)
    \/ RecordFailure(w) \/ Release(w)

Work ==
    \/ \E w \in Workers :
           StartDue(w) \/ Advance(w) \/ \E p \in Profiles : StartOne(w, p)
    \/ StartAdhoc \/ ReadAdhoc \/ CommitAdhoc
    \/ \E p \in Profiles : PatchProfile(p)
    \/ \E i \in Items : Update(i)
    \/ Tick

Next == Work \/ \E w \in Workers : Crash(w)

Spec == Init /\ [][Next]_vars

(* What no lock of the code sees to: that nobody reads the source while an *)
(* ad-hoc sync is under way, nor two runs at once for profiles that reach  *)
(* an item in common.  A death brings nobody to the source.                *)
Apart ==
    /\ adhoc # NoRequest => \A w \in Workers : pc[w] # "read"
    /\ \A v, w \in Workers :
          pc[v] = "read" /\ pc[w] = "read" /\ cur[v] # cur[w]
              => Scope[cur[v]] \cap Scope[cur[w]] = {}

ApartNext == (Work /\ Apart') \/ \E w \in Workers : Crash(w)

ApartSpec == Init /\ [][ApartNext]_vars

-------------------------------------------------------------------------------
(* At most one session runs a profile: the point of acquire_sync_lock, for *)
(* requests that end before their lock is stale.                           *)
ProfileLockExclusion ==
    \A p \in Profiles : \A v, w \in Workers :
        InSection(v, p) /\ InSection(w, p) => v = w

(* Every way out of run_sync_profile_once that is not a crash gives the    *)
(* lock back, so no profile waits for a timeout without a crash; also when *)
(* stale locks are taken over from workers that still run.                 *)
ProfileLockHasHolder ==
    \A p \in Profiles \ abandoned :
        profiles[p].lockedAt # NoTime => \E w \in Workers : InSection(w, p)

(* No silent gap: what changed at the source after a profile's first       *)
(* lookback and up to its watermark is in the intake records, in that      *)
(* version; later runs only ask for what is newer than the watermark.  One *)
(* run-start time per batch, watermarks planned before the lock, failures  *)
(* and crashes in between must not break it.                               *)
NoSilentGap ==
    \A p \in Profiles : profiles[p].watermark # NoTime =>
        \A i \in Scope[p] :
            since[p] < stamp[i] /\ stamp[i] <= profiles[p].watermark
                => rec[i] = stamp[i]

(* An intake record never falls back to an older version of its item, if   *)
(* those who write it keep Apart and every request ends before its lock is *)
(* stale.  Without either it does: who read the source first can commit    *)
(* last, and the sync stores what it read without comparing it to what is  *)
(* there.                                                                  *)
RecordsNeverGoBack == [][\A i \in Items : rec[i] <= rec'[i]]_vars

(* docs/polling-worker.md: "A successful run advances the watermark to its *)
(* deterministic run-start time".  A run that began earlier and ends later *)
(* than another one moves it back.                                         *)
WatermarkNeverGoesBack ==
    [][\A p \in Profiles : profiles[p].watermark <= profiles'[p].watermark]_vars

(* docs/polling-worker.md: "Another worker cannot acquire an active lock". *)
(* A worker whose lock went stale and was taken over still clears it when  *)
(* it ends, and a third one gets in beside the second.                     *)
ActiveLockIsExclusive ==
    \A p \in Profiles : \A v, w \in Workers :
        /\ InSection(v, p) /\ InSection(w, p) /\ v # w
        => \/ runAt[v] + LockTimeout <= runAt[w]
           \/ runAt[w] + LockTimeout <= runAt[v]
===============================================================================
