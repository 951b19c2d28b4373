-------------------------------- MODULE EventSync --------------------------------
(***************************************************************************)
(* The event queue and the polling worker together.  An attempt at a       *)
(* webhook event (app/services/event_queue.py) runs the sync profile that  *)
(* matches it (app/services/polling_worker.py), in its own session and at  *)
(* the time its batch began, while pollers run the same profile by         *)
(* themselves.  EventQueue leaves the outcome of that sync open; here it   *)
(* is what the run of PollingWorker comes to.                              *)
(***************************************************************************)
EXTENDS Naturals, FiniteSets, OrmSession

CONSTANTS
    Keys, ItemOf,              \* event ids, and the item each is about
    Receivers, QueueWorkers, Pollers,
    Profiles, Items, Tools, ToolOf, Scope,
    BatchLimit, MaxAttempts, LockTimeout, Lookback, Interval,
    MaxRun, MaxTime, MaxCrashes, LastCrash,
    NoRow, NoRequest

(* A session drops the profiles it is not running, so there is one.        *)
ASSUME EventSyncAssumption ==
    /\ Keys # {} /\ ItemOf \in [Keys -> Items]
    /\ \E p \in Profiles : Profiles = {p}
    /\ QueueWorkers \cap Pollers = {}

ASSUME SettingsAssumption ==
    /\ ToolOf \in [Items -> Tools]
    /\ Scope \in [Profiles -> SUBSET Items]
    /\ {BatchLimit, MaxAttempts, LockTimeout, Interval} \subseteq Nat \ {0}
    /\ {Lookback, MaxRun, MaxTime, MaxCrashes, LastCrash} \subseteq Nat

VARIABLES
    now,
    rows, rx, qpc, force, qrunAt, qtodo, qcur, qcopy,       \* EventQueue
    replay, replayed, qabandoned, crashes, failed,
    profiles, rec, stamp, pc, req, runAt, todo, cur, copy,  \* PollingWorker
    planned, unread, got, adhoc, since, abandoned, spent,
    target,     \* the profile each queue worker has matched to its event
    succeeded,  \* whether its sync has committed
    due,        \* history: the version of its item when an event was delivered
    failedSyncs \* history: the syncs of an event that ran and failed

queueVars == <<rows, rx, qpc, force, qrunAt, qtodo, qcur, qcopy, replay,
               replayed, qabandoned, crashes, failed>>
pollVars  == <<profiles, rec, stamp, pc, req, runAt, todo, cur, copy, planned,
               unread, got, adhoc, since, abandoned, spent>>
linkVars  == <<target, succeeded, due, failedSyncs>>
vars == <<now, queueVars, pollVars, linkVars>>

Q == INSTANCE EventQueue WITH
        Relevant <- Keys, Workers <- QueueWorkers, Forces <- {FALSE},
        MaxReplays <- 0, pc <- qpc, runAt <- qrunAt, todo <- qtodo,
        cur <- qcur, copy <- qcopy, abandoned <- qabandoned

P == INSTANCE PollingWorker WITH
        Workers <- QueueWorkers \cup Pollers,
        Requests <- {[force |-> FALSE, mock |-> TRUE]},
        MaxPatches <- 0, MaxAdhoc <- 0

ASSUME NullAssumption ==
    /\ NoRow \notin Q!Row \cup P!Profile
    /\ NoRequest \notin [key : Keys, at : Nat] \cup [key : Keys, copy : Q!Row]
    /\ NoRequest \notin [unread : SUBSET Tools, got : P!Version]

Init ==
    /\ Q!Init /\ P!Init
    /\ target = [w \in QueueWorkers |-> P!AnyProfile]
    /\ succeeded = [w \in QueueWorkers |-> FALSE]
    /\ due = [k \in Keys |-> 0]
    /\ failedSyncs = [k \in Keys |-> 0]

-------------------------------------------------------------------------------
(* A webhook tells of a change its item has gone through.                  *)
Deliver(r, k) ==
    /\ stamp[ItemOf[k]] # 0
    /\ Q!Lookup(r, k)
    /\ due' = [due EXCEPT ![k] = stamp[ItemOf[k]]]
    /\ UNCHANGED <<pollVars, target, succeeded, failedSyncs>>

Receive(r) == Q!Insert(r) /\ UNCHANGED <<pollVars, linkVars>>

(* The enabled mock profile whose sources include the event's.             *)
Matching(k) ==
    {p \in Profiles : /\ ItemOf[k] \in Scope[p]
                      /\ profiles[p].enabled /\ profiles[p].mode = "mock"
                      /\ ToolOf[ItemOf[k]] \in profiles[p].tools}

(* The mapping loads the profile, unless the session holds it already.     *)
Map(w) ==
    /\ Q!Check(w)
    /\ LET k == qcur'[w] IN
        /\ qpc'[w] = "acquire" => Matching(k) # {}
        /\ qpc'[w] = "skip" => Matching(k) = {}
        /\ IF qpc'[w] = "acquire"
           THEN \E p \in Matching(k) :
                    /\ target' = [target EXCEPT ![w] = p]
                    /\ copy' = [copy EXCEPT ![w][p] = Loaded(profiles[p], @, NoRow)]
           ELSE UNCHANGED <<target, copy>>
    /\ UNCHANGED <<profiles, rec, stamp, pc, req, runAt, todo, cur, planned, unread,
                   got, adhoc, since, abandoned, spent, succeeded, due, failedSyncs>>

(* run_sync_profile_once, at the time of the batch.                        *)
StartSync(w) ==
    /\ qpc[w] = "sync"
    /\ pc[w] = "idle"
    /\ pc' = [pc EXCEPT ![w] = "next"]
    /\ req' = [req EXCEPT ![w] = [force |-> FALSE, mock |-> TRUE]]
    /\ runAt' = [runAt EXCEPT ![w] = qrunAt[w]]
    /\ todo' = [todo EXCEPT ![w] = {target[w]}]
    /\ succeeded' = [succeeded EXCEPT ![w] = FALSE]
    /\ UNCHANGED <<now, queueVars, profiles, rec, stamp, cur, copy, planned, unread,
                   got, adhoc, since, abandoned, spent, target, due, failedSyncs>>

SyncStep(w) ==
    /\ \/ P!Check(w)      \/ P!Acquire(w)    \/ P!LockLost(w) \/ P!Refresh(w)
       \/ P!ReadSource(w) \/ P!RecordFailure(w) \/ P!Release(w)
    /\ UNCHANGED <<queueVars, linkVars>>

SyncCommits(w) ==
    /\ P!SyncSucceeds(w)
    /\ succeeded' = [succeeded EXCEPT ![w] = TRUE]
    /\ UNCHANGED <<queueVars, target, due, failedSyncs>>

SyncBreaks(w) ==
    /\ P!SyncFails(w)
    /\ failedSyncs' = [failedSyncs EXCEPT ![qcur[w]] = @ + 1]
    /\ UNCHANGED <<queueVars, target, succeeded, due>>

(* Mutant: an attempt counts as processed once the run has ended.          *)
AnyEnd(w) == Q!SyncSucceeds(w)

(* The run returns, or raises because the profile is locked: everything    *)
(* but a success is a failed attempt, whose rollback expires the session.  *)
Outcome(w) == IF succeeded[w] THEN Q!SyncSucceeds(w) ELSE Q!SyncFails(w)

EndSync(w) ==
    /\ qpc[w] = "sync"
    /\ pc[w] = "next"
    /\ todo[w] = {}
    /\ Outcome(w)
    /\ pc' = [pc EXCEPT ![w] = "idle"]
    /\ req' = [req EXCEPT ![w] = P!DueRequest]
    /\ runAt' = [runAt EXCEPT ![w] = 0]
    /\ cur' = [cur EXCEPT ![w] = P!AnyProfile]
    /\ planned' = [planned EXCEPT ![w] = 0]
    /\ copy' = IF succeeded[w] THEN copy
               ELSE [copy EXCEPT ![w] = [p \in Profiles |-> NoRow]]
    /\ succeeded' = [succeeded EXCEPT ![w] = FALSE]
    /\ UNCHANGED <<profiles, rec, stamp, todo, unread, got, adhoc, since, abandoned,
                   spent, target, due, failedSyncs>>

(* The steps of the queue that touch no profile.                           *)
QueueStep(w) ==
    /\ \/ Q!Start(w, FALSE) \/ Q!MarkFailed(w) \/ Q!MarkSkipped(w)
       \/ Q!Acquire(w) \/ Q!LockLost(w) \/ Q!Refresh(w) \/ Q!MarkProcessing(w)
       \/ Q!RecordFailure(w) \/ Q!Release(w)
    /\ UNCHANGED <<pollVars, linkVars>>

EndBatch(w) ==
    /\ Q!Finish(w)
    /\ copy' = [copy EXCEPT ![w] = [p \in Profiles |-> NoRow]]
    /\ UNCHANGED <<profiles, rec, stamp, pc, req, runAt, todo, cur, planned, unread,
                   got, adhoc, since, abandoned, spent, linkVars>>

QueueWorker(w) ==
    \/ Map(w)         \/ StartSync(w)  \/ SyncStep(w) \/ SyncCommits(w)
    \/ SyncBreaks(w)  \/ EndSync(w)    \/ QueueStep(w) \/ EndBatch(w)

(* A queue worker dies with its session and its sync.                      *)
Die(w) ==
    /\ Q!Crash(w)
    /\ succeeded' = [succeeded EXCEPT ![w] = FALSE]
    /\ abandoned' = abandoned \cup {p \in Profiles : P!InSection(w, p)}
    /\ P!EndRequest(w)
    /\ UNCHANGED <<profiles, rec, stamp, adhoc, since, spent, target, due, failedSyncs>>

Poller(w) ==
    /\ P!StartDue(w) \/ P!Advance(w)
    /\ UNCHANGED <<queueVars, linkVars>>

QueueMayWait == \A w \in QueueWorkers : qpc[w] # "idle" => now < qrunAt[w] + MaxRun

Elapse ==
    /\ QueueMayWait
    /\ P!Tick \/ \E i \in Items : P!Update(i)
    /\ UNCHANGED <<queueVars, linkVars>>

Next ==
    \/ \E r \in Receivers : Receive(r) \/ \E k \in Keys : Deliver(r, k)
    \/ \E w \in QueueWorkers : QueueWorker(w) \/ Die(w)
    \/ \E w \in Pollers : Poller(w)
    \/ Elapse

Spec == Init /\ [][Next]_vars

-------------------------------------------------------------------------------
TypeOK ==
    /\ Q!TypeOK /\ P!TypeOK
    /\ target \in [QueueWorkers -> Profiles]
    /\ succeeded \in [QueueWorkers -> BOOLEAN]
    /\ due \in [Keys -> Nat]
    /\ failedSyncs \in [Keys -> Nat]

(* What an event was about when it was delivered is among the intake       *)
(* records once the event is processed, although its attempt runs at the   *)
(* time of its batch, from a watermark of an older copy of the profile,    *)
(* and beside pollers of the same profile.                                 *)
ProcessedIsStored ==
    \A k \in Keys : rows[k] # NoRow /\ rows[k].status = "processed"
        => rec[ItemOf[k]] >= due[k]

(* The guarantees of the polling worker survive the second way in, which   *)
(* may run one profile several times at one and the same time.             *)
NoGapWithEvents == P!NoSilentGap
OneRunWithEvents == P!ProfileLockExclusion

(* docs/polling-worker.md: who cannot acquire an active lock "receives a   *)
(* conflict/skipped result".  The attempt at an event receives a failure:  *)
(* it is counted, and enough of them end the event although no sync of it  *)
(* has failed.                                                             *)
ConflictIsNoFailure ==
    \A k \in Keys : rows[k] # NoRow => rows[k].failures <= failedSyncs[k]
===============================================================================
