---------------------------- MODULE EventSyncProofs ----------------------------
(***************************************************************************)
(* The event queue and the polling worker together.  Each step of the two  *)
(* is a step of the queue or none, so that what is proved of EventQueue    *)
(* holds here as well.  It is not so for the polling worker: a sync begins *)
(* at the time of its batch, from a copy the session may have held for     *)
(* long, and ends before its request does.  That the guarantees of         *)
(* PollingWorker survive rests on what a queue worker's session holds      *)
(* between its syncs: copies whose watermark is still safe to read from.   *)
(***************************************************************************)
EXTENDS EventSync, TLAPS

QQ == INSTANCE EventQueueProofs WITH
        Relevant <- Keys, Workers <- QueueWorkers, Forces <- {FALSE},
        MaxReplays <- 0, pc <- qpc, runAt <- qrunAt, todo <- qtodo,
        cur <- qcur, copy <- qcopy, abandoned <- qabandoned

PP == INSTANCE PollingWorkerProofs WITH
        Workers <- QueueWorkers \cup Pollers,
        Requests <- {[force |-> FALSE, mock |-> TRUE]},
        MaxPatches <- 0, MaxAdhoc <- 0

-------------------------------------------------------------------------------
(* The assumptions of the two modules hold here.                           *)

LEMMA OneProfile == Profiles # {} /\ \A p, q \in Profiles : p = q
BY EventSyncAssumption

LEMMA PollingSettings == PP!PollingAssumption /\ PP!PollingNullAssumption
<1>1. [force |-> FALSE, mock |-> TRUE] \in [force : BOOLEAN, mock : BOOLEAN]
  OBVIOUS
<1>2. {[force |-> FALSE, mock |-> TRUE]} \subseteq [force : BOOLEAN, mock : BOOLEAN]
  BY <1>1
<1>3. PP!PollingAssumption
  BY <1>2, OneProfile, SettingsAssumption DEF PP!PollingAssumption
<1>4. PP!PollingNullAssumption
  BY NullAssumption DEF PP!PollingNullAssumption, PP!Profile, P!Profile, PP!Version, P!Version
<1> QED
  BY <1>3, <1>4

LEMMA QueueSettings == QQ!SettingsAssumption /\ QQ!NullAssumption
<1>1. QQ!SettingsAssumption
  BY SettingsAssumption, EventSyncAssumption DEF QQ!SettingsAssumption
<1>2. QQ!NullAssumption
  BY NullAssumption DEF QQ!NullAssumption, QQ!Row, Q!Row, QQ!Status, Q!Status
<1> QED
  BY <1>1, <1>2

-------------------------------------------------------------------------------
(* Every step is a step of the queue or leaves the queue alone.            *)

QueueOnly == <<rows, rx, qpc, force, qrunAt, qtodo, qcur, qcopy, replay,
               replayed, qabandoned, crashes, failed, now>>

LEMMA QueueSteps ==
    ASSUME [Next]_vars
    PROVE  [Q!Next]_(Q!vars)
<1>1. CASE UNCHANGED vars
  BY <1>1 DEF vars, queueVars, Q!vars, Q!workerVars, Q!historyVars
<1>2. ASSUME NEW r \in Receivers, Receive(r) \/ \E k \in Keys : Deliver(r, k)
      PROVE  Q!Next
  BY <1>2 DEF Receive, Deliver, Q!Next, Q!Receive
<1>3. ASSUME UNCHANGED QueueOnly
      PROVE  UNCHANGED Q!vars
  BY <1>3 DEF QueueOnly, Q!vars, Q!workerVars, Q!historyVars
<1>4. ASSUME NEW w \in QueueWorkers,
             \/ Q!Advance(w) \/ Q!Crash(w) \/ Q!Start(w, FALSE)
      PROVE  Q!Next
  BY <1>4 DEF Q!Next
<1>5. ASSUME NEW w \in QueueWorkers, QueueWorker(w)
      PROVE  Q!Next \/ UNCHANGED QueueOnly
  <2>1. CASE Map(w)
    BY <1>4, <2>1 DEF Map, Q!Advance
  <2>2. CASE StartSync(w)
    BY <2>2 DEF StartSync, queueVars, QueueOnly
  <2>3. CASE SyncStep(w) \/ SyncCommits(w) \/ SyncBreaks(w)
    <3>1. UNCHANGED <<queueVars, now>>
      BY <2>3 DEF SyncStep, SyncCommits, SyncBreaks, P!Check, P!Acquire,
         P!LockLost, P!Refresh, P!ReadSource, P!RecordFailure, P!Release,
         P!SyncSucceeds, P!SyncFails
    <3> QED
      BY <3>1 DEF queueVars, QueueOnly
  <2>4. CASE EndSync(w)
    BY <1>4, <2>4 DEF EndSync, Outcome, Q!Advance
  <2>5. CASE QueueStep(w)
    BY <1>4, <2>5 DEF QueueStep, Q!Advance
  <2>6. CASE EndBatch(w)
    BY <1>4, <2>6 DEF EndBatch, Q!Advance
  <2> QED
    BY <1>5, <2>1, <2>2, <2>3, <2>4, <2>5, <2>6 DEF QueueWorker
<1>6. ASSUME NEW w \in QueueWorkers, Die(w)
      PROVE  Q!Next
  BY <1>4, <1>6 DEF Die
<1>7. ASSUME NEW w \in Pollers, Poller(w)
      PROVE  UNCHANGED QueueOnly
  <2>1. UNCHANGED <<queueVars, now>>
    BY <1>7 DEF Poller, P!StartDue, P!Begin, P!Advance, P!Finish, P!Check,
       P!Acquire, P!LockLost, P!Refresh, P!ReadSource, P!RecordFailure,
       P!Release, P!SyncSucceeds, P!SyncFails
  <2> QED
    BY <2>1 DEF queueVars, QueueOnly
<1>8. CASE Elapse
  <2>1. /\ now < MaxTime /\ now' = now + 1 /\ UNCHANGED queueVars
        /\ \A w \in QueueWorkers : qpc[w] # "idle" => now < qrunAt[w] + MaxRun
    BY <1>8 DEF Elapse, QueueMayWait, P!Tick, P!Update, P!TimeMayPass
  <2> QED
    BY <2>1 DEF queueVars, Q!Next, Q!Tick, Q!workerVars, Q!historyVars
<1> QED
  BY <1>1, <1>2, <1>3, <1>5, <1>6, <1>7, <1>8 DEF Next

(* The queue with its polling workers implements the queue by itself:      *)
(* whatever a sync comes to is among the outcomes EventQueue leaves open,  *)
(* and no time passes that it would not let pass.                          *)
THEOREM QueueIsImplemented == Spec => Q!Spec
<1>1. Init => Q!Init
  BY DEF Init
<1> QED
  BY <1>1, QueueSteps, PTL DEF Spec, Q!Spec


-------------------------------------------------------------------------------
(* Most steps are steps of the polling worker as well, or leave it alone.  *)
(* The others are those at which a session passes between the two.         *)

Sessions == QueueWorkers \cup Pollers

PollingOnly == <<profiles, rec, stamp, now, pc, req, runAt, todo, cur, copy,
                 planned, unread, got, adhoc, since, abandoned, spent>>

LEMMA SamePolling ==
    ASSUME NEW w \in Sessions
    PROVE  /\ P!StartDue(w) => PP!StartDue(w)
           /\ P!Advance(w) => PP!Advance(w)
           /\ P!EndRequest(w) => PP!EndRequest(w)
<1>1. P!EndRequest(w) => PP!EndRequest(w)
  BY DEF P!EndRequest, PP!EndRequest, P!DueRequest, PP!DueRequest, P!NoTime, PP!NoTime,
         P!AnyProfile, PP!AnyProfile, P!Nothing, PP!Nothing
<1>2. P!StartDue(w) => PP!StartDue(w)
  BY DEF P!StartDue, PP!StartDue, P!Due, PP!Due, P!DueRequest, PP!DueRequest,
         P!NoTime, PP!NoTime, P!Begin, PP!Begin, P!historyVars, PP!historyVars
<1>3. P!Finish(w) => PP!Finish(w)
  BY <1>1 DEF P!Finish, PP!Finish, P!historyVars, PP!historyVars
<1>4. P!Check(w) => PP!Check(w)
  BY DEF P!Check, PP!Check, P!Refused, PP!Refused, P!ActiveLock, PP!ActiveLock,
         P!PlannedWatermark, PP!PlannedWatermark, P!NoTime, PP!NoTime,
         P!Loaded, PP!Loaded, P!historyVars, PP!historyVars
<1>5. (P!Acquire(w) => PP!Acquire(w)) /\ (P!LockLost(w) => PP!LockLost(w))
  BY DEF P!Acquire, PP!Acquire, P!LockLost, PP!LockLost, P!LockFree, PP!LockFree,
         P!NoTime, PP!NoTime, P!historyVars, PP!historyVars
<1>6. (P!Refresh(w) => PP!Refresh(w)) /\ (P!ReadSource(w) => PP!ReadSource(w))
  BY DEF P!Refresh, PP!Refresh, P!ReadSource, PP!ReadSource, P!Nothing, PP!Nothing,
         P!Listed, PP!Listed, P!NoTime, PP!NoTime, P!historyVars, PP!historyVars
<1>7. (P!SyncSucceeds(w) => PP!SyncSucceeds(w)) /\ (P!SyncFails(w) => PP!SyncFails(w))
  BY DEF P!SyncSucceeds, PP!SyncSucceeds, P!SyncFails, PP!SyncFails, P!Stored, PP!Stored,
         P!Commit, PP!Commit, P!Flush, PP!Flush, P!AfterSuccess, PP!AfterSuccess,
         P!NoTime, PP!NoTime, P!historyVars, PP!historyVars
<1>8. (P!RecordFailure(w) => PP!RecordFailure(w)) /\ (P!Release(w) => PP!Release(w))
  BY DEF P!RecordFailure, PP!RecordFailure, P!Release, PP!Release, P!Nothing, PP!Nothing,
         P!Commit, PP!Commit, P!Flush, PP!Flush, P!NoTime, PP!NoTime,
         P!historyVars, PP!historyVars
<1> QED
  BY <1>1, <1>2, <1>3, <1>4, <1>5, <1>6, <1>7, <1>8 DEF P!Advance, PP!Advance

(* The syncs of queue workers.                                             *)
LEMMA SyncIsPolling ==
    ASSUME NEW w \in QueueWorkers, SyncStep(w) \/ SyncCommits(w) \/ SyncBreaks(w)
    PROVE  PP!Advance(w) /\ pc[w] # "idle" /\ UNCHANGED queueVars
<1>1. P!Advance(w)
  BY DEF SyncStep, SyncCommits, SyncBreaks, P!Advance
<1>2. pc[w] # "idle" /\ UNCHANGED queueVars
  BY DEF SyncStep, SyncCommits, SyncBreaks, P!Check, P!Acquire, P!LockLost, P!Refresh,
     P!ReadSource, P!RecordFailure, P!Release, P!SyncSucceeds, P!SyncFails
<1> QED
  BY <1>1, <1>2, SamePolling DEF Sessions

Handover(w) == Map(w) \/ StartSync(w) \/ EndSync(w) \/ EndBatch(w) \/ Die(w)

LEMMA PollingSteps ==
    ASSUME [Next]_vars
    PROVE  \/ [PP!Next]_(PP!vars)
           \/ \E w \in QueueWorkers : Handover(w)
<1>1. ASSUME UNCHANGED PollingOnly
      PROVE  UNCHANGED PP!vars
  BY <1>1 DEF PollingOnly, PP!vars, PP!workerVars, PP!historyVars
<1>2. CASE UNCHANGED vars
  BY <1>1, <1>2 DEF vars, pollVars, PollingOnly
<1>3. ASSUME NEW r \in Receivers, Receive(r) \/ \E k \in Keys : Deliver(r, k)
      PROVE  UNCHANGED PollingOnly
  BY <1>3 DEF Receive, Deliver, Q!Insert, Q!Lookup, pollVars, PollingOnly
<1>4. ASSUME NEW w \in QueueWorkers, QueueWorker(w)
      PROVE  UNCHANGED PollingOnly \/ PP!Advance(w) \/ Handover(w)
  <2>1. CASE QueueStep(w)
    BY <2>1 DEF QueueStep, Q!Start, Q!MarkFailed, Q!MarkSkipped, Q!Acquire, Q!LockLost,
       Q!Refresh, Q!MarkProcessing, Q!RecordFailure, Q!Release, pollVars, PollingOnly
  <2>2. CASE SyncStep(w) \/ SyncCommits(w) \/ SyncBreaks(w)
    BY <2>2, SyncIsPolling
  <2> QED
    BY <1>4, <2>1, <2>2 DEF QueueWorker, Handover
<1>5. ASSUME NEW w \in Pollers, Poller(w)
      PROVE  PP!StartDue(w) \/ PP!Advance(w)
  BY <1>5, SamePolling DEF Poller, Sessions
<1>6. CASE Elapse
  <2>1. PP!Tick \/ \E i \in Items : PP!Update(i)
    BY <1>6 DEF Elapse, P!Tick, PP!Tick, P!Update, PP!Update, P!TimeMayPass,
       PP!TimeMayPass, P!workerVars, PP!workerVars, P!historyVars, PP!historyVars
  <2> QED
    BY <2>1 DEF PP!Next, PP!Work
<1>7. ASSUME NEW w \in Sessions, PP!StartDue(w) \/ PP!Advance(w)
      PROVE  PP!Next
  BY <1>7 DEF PP!Next, PP!Work, Sessions
<1> QED
  BY <1>1, <1>2, <1>3, <1>4, <1>5, <1>6, <1>7 DEF Next, Sessions, Handover

LEMMA SameQueue ==
    ASSUME [Next]_vars
    PROVE  [QQ!Next]_(QQ!vars)
<1>1. ASSUME NEW w \in QueueWorkers, NEW f
      PROVE  Q!Start(w, f) => QQ!Start(w, f)
  BY DEF Q!Start, QQ!Start, Q!IsBatch, QQ!IsBatch, Q!Eligible, QQ!Eligible,
     Q!Selectable, QQ!Selectable, Q!Cardinality, QQ!Cardinality,
     Q!historyVars, QQ!historyVars
<1>2. ASSUME NEW w \in QueueWorkers
      PROVE  Q!Advance(w) => QQ!Advance(w)
  <2>1. Q!Finish(w) => QQ!Finish(w)
    BY DEF Q!Finish, QQ!Finish, Q!EndRequest, QQ!EndRequest, Q!NoTime, QQ!NoTime,
       Q!AnyKey, QQ!AnyKey, Q!historyVars, QQ!historyVars
  <2>2. Q!Check(w) => QQ!Check(w)
    BY DEF Q!Check, QQ!Check, Q!OldestFirst, QQ!OldestFirst, Q!Loaded, QQ!Loaded,
       Q!Verdict, QQ!Verdict, Q!NotQueued, QQ!NotQueued, Q!ActiveLock, QQ!ActiveLock,
       Q!NoTime, QQ!NoTime, Q!Exhausted, QQ!Exhausted, Q!historyVars, QQ!historyVars
  <2>3. /\ Q!MarkFailed(w) => QQ!MarkFailed(w)
        /\ Q!MarkSkipped(w) => QQ!MarkSkipped(w)
        /\ Q!MarkProcessing(w) => QQ!MarkProcessing(w)
        /\ Q!SyncSucceeds(w) => QQ!SyncSucceeds(w)
    BY DEF Q!MarkFailed, QQ!MarkFailed, Q!MarkSkipped, QQ!MarkSkipped,
       Q!MarkProcessing, QQ!MarkProcessing, Q!SyncSucceeds, QQ!SyncSucceeds,
       Q!Commit, QQ!Commit, Q!Flush, QQ!Flush, Q!historyVars, QQ!historyVars
  <2>4. /\ Q!Acquire(w) => QQ!Acquire(w)
        /\ Q!LockLost(w) => QQ!LockLost(w)
        /\ Q!Refresh(w) => QQ!Refresh(w)
        /\ Q!SyncFails(w) => QQ!SyncFails(w)
    BY DEF Q!Acquire, QQ!Acquire, Q!LockLost, QQ!LockLost, Q!LockFree, QQ!LockFree,
       Q!NoTime, QQ!NoTime, Q!Refresh, QQ!Refresh, Q!SyncFails, QQ!SyncFails,
       Q!historyVars, QQ!historyVars
  <2>5. /\ Q!RecordFailure(w) => QQ!RecordFailure(w)
        /\ Q!Release(w) => QQ!Release(w)
    BY DEF Q!RecordFailure, QQ!RecordFailure, Q!AfterFailure, QQ!AfterFailure,
       Q!Release, QQ!Release, Q!Unlocked, QQ!Unlocked, Q!NoTime, QQ!NoTime,
       Q!Commit, QQ!Commit, Q!Flush, QQ!Flush, Q!historyVars, QQ!historyVars
  <2> QED
    BY <2>1, <2>2, <2>3, <2>4, <2>5 DEF Q!Advance, QQ!Advance
<1>3. ASSUME NEW w \in QueueWorkers
      PROVE  Q!Crash(w) => QQ!Crash(w)
  BY DEF Q!Crash, QQ!Crash, Q!InSection, QQ!InSection, Q!Section, QQ!Section,
     Q!EndRequest, QQ!EndRequest, Q!NoTime, QQ!NoTime, Q!AnyKey, QQ!AnyKey
<1>4. Q!Receive => QQ!Receive
  BY DEF Q!Receive, QQ!Receive, Q!Insert, QQ!Insert, Q!Lookup, QQ!Lookup,
     Q!FirstInserted, QQ!FirstInserted, Q!NewRow, QQ!NewRow, Q!NoTime, QQ!NoTime,
     Q!workerVars, QQ!workerVars, Q!historyVars, QQ!historyVars
<1>5. ASSUME NEW k \in Keys
      PROVE  Q!ReplayRead(k) => QQ!ReplayRead(k)
  BY DEF Q!ReplayRead, QQ!ReplayRead, Q!Cardinality, QQ!Cardinality,
     Q!workerVars, QQ!workerVars,
     Q!historyVars, QQ!historyVars
<1>6. (Q!ReplayWrite => QQ!ReplayWrite) /\ (Q!Tick => QQ!Tick)
  BY DEF Q!ReplayWrite, QQ!ReplayWrite, Q!Flush, QQ!Flush, Q!NoTime, QQ!NoTime,
     Q!Tick, QQ!Tick, Q!workerVars, QQ!workerVars, Q!historyVars, QQ!historyVars
<1>7. UNCHANGED Q!vars => UNCHANGED QQ!vars
  BY DEF Q!vars, QQ!vars, Q!workerVars, QQ!workerVars, Q!historyVars, QQ!historyVars
<1>8. Q!Next => QQ!Next
  BY <1>1, <1>2, <1>3, <1>4, <1>5, <1>6 DEF Q!Next, QQ!Next
<1> QED
  BY <1>7, <1>8, QueueSteps

-------------------------------------------------------------------------------
(* Types, time, and what ties a sync to its attempt.                       *)

LinkTypes ==
    /\ target \in [QueueWorkers -> Profiles]
    /\ succeeded \in [QueueWorkers -> BOOLEAN]
    /\ due \in [Keys -> Nat]
    /\ failedSyncs \in [Keys -> Nat]

(* A sync runs inside an attempt, at the time of its batch.                *)
Linked ==
    \A w \in QueueWorkers : pc[w] # "idle" =>
        qpc[w] = "sync" /\ runAt[w] = qrunAt[w]

QueueInv == QQ!TypeInv /\ QQ!Timely

BaseInv == QueueInv /\ PP!TypeInv /\ LinkTypes /\ Linked

LEMMA InitBoth == Init => QQ!Init /\ PP!Init
<1> SUFFICES ASSUME Init
             PROVE  QQ!Init /\ PP!Init
  OBVIOUS
<1>1. QQ!Init
  BY DEF Init, Q!Init, QQ!Init, Q!NoTime, QQ!NoTime, Q!AnyKey, QQ!AnyKey
<1>2. PP!Init
  BY DEF Init, P!Init, PP!Init, P!NewProfile, PP!NewProfile, P!NoTime, PP!NoTime,
     P!Nothing, PP!Nothing, P!DueRequest, PP!DueRequest, P!AnyProfile, PP!AnyProfile
<1> QED
  BY <1>1, <1>2

LEMMA QueueInvInit == Init => QueueInv
<1>1. Init => QQ!TypeInv /\ QQ!ExclusionInv
  BY InitBoth, QueueSettings, QQ!TypeInvInit, QQ!ExclusionInit
<1> QED
  BY <1>1 DEF QueueInv, QQ!ExclusionInv

LEMMA QueueInvNext == QueueInv /\ [Next]_vars => QueueInv'
BY SameQueue, QueueSettings, QQ!TypeInvNext, QQ!TimelyNext DEF QueueInv

(* What a session does to the polling worker's state as it passes between  *)
(* its event and its sync: it moves nothing but its own, and its copies    *)
(* are kept, dropped or loaded.                                            *)
LEMMA HandoverEffect ==
    ASSUME BaseInv, NEW w \in QueueWorkers, Handover(w)
    PROVE  /\ UNCHANGED <<profiles, rec, stamp, now, adhoc, since>>
           /\ PP!OthersSame(w)
           /\ pc'[w] \in {"idle", "next"} /\ (pc'[w] = "next" => StartSync(w))
           /\ copy'[w] \in [Profiles -> PP!Profile \cup {NoRow}]
           /\ \A p \in Profiles : copy'[w][p] \in {NoRow, copy[w][p], profiles[p]}
           /\ planned'[w] \in {planned[w], 0}
           /\ PP!TypeOK'
<1>0. PP!TypeOK /\ LinkTypes /\ Linked /\ w \in Sessions
  BY DEF BaseInv, PP!TypeInv, Sessions
<1>1. \A v \in Sessions : copy[v] \in [Profiles -> PP!Profile \cup {NoRow}]
  BY <1>0 DEF PP!TypeOK, Sessions
<1>2. CASE Map(w)
  <2>1. qpc[w] = "next" /\ now' = now
    BY <1>2 DEF Map, Q!Check
  <2>2. pc[w] = "idle"
    BY <1>0, <2>1 DEF Linked
  <2>3. UNCHANGED <<profiles, rec, stamp, pc, req, runAt, todo, cur, planned, unread,
                    got, adhoc, since, abandoned, spent>>
    BY <1>2 DEF Map
  <2>4. \/ copy' = copy
        \/ \E p \in Profiles : copy' = [copy EXCEPT ![w][p] = Loaded(profiles[p], @, NoRow)]
    BY <1>2 DEF Map, Matching
  <2>5. /\ copy' \in [Sessions -> [Profiles -> PP!Profile \cup {NoRow}]]
        /\ \A v \in Sessions \ {w} : copy'[v] = copy[v]
        /\ \A p \in Profiles : copy'[w][p] \in {copy[w][p], profiles[p]}
    <3>1. CASE copy' = copy
      BY <1>0, <1>1, <3>1 DEF PP!TypeOK, Sessions
    <3>2. ASSUME NEW p \in Profiles,
                 copy' = [copy EXCEPT ![w][p] = Loaded(profiles[p], @, NoRow)]
          PROVE  /\ copy' \in [Sessions -> [Profiles -> PP!Profile \cup {NoRow}]]
                 /\ \A v \in Sessions \ {w} : copy'[v] = copy[v]
                 /\ \A q \in Profiles : copy'[w][q] \in {copy[w][q], profiles[q]}
      <4>1. PICK row : row = Loaded(profiles[p], copy[w][p], NoRow)
        OBVIOUS
      <4>2. /\ row \in {copy[w][p], profiles[p]}
            /\ row \in PP!Profile
        BY <1>0, <1>1, <4>1 DEF Loaded, PP!TypeOK
      <4>3. copy' = [copy EXCEPT ![w] = [copy[w] EXCEPT ![p] = row]]
        BY <1>0, <3>2, <4>1 DEF PP!TypeOK
      <4> QED
        BY <1>0, <1>1, <4>2, <4>3 DEF PP!TypeOK, Sessions
    <3> QED
      BY <2>4, <3>1, <3>2
  <2> QED
    BY <1>0, <2>1, <2>2, <2>3, <2>5 DEF PP!TypeOK, PP!OthersSame, Sessions
<1>3. CASE StartSync(w)
  <2>1. target[w] \in Profiles /\ qrunAt[w] \in Nat
    BY <1>0 DEF LinkTypes, BaseInv, QueueInv, QQ!TypeInv, QQ!TypeOK
  <2>2. [force |-> FALSE, mock |-> TRUE] \in [force : BOOLEAN, mock : BOOLEAN]
    OBVIOUS
  <2>3. /\ pc' = [pc EXCEPT ![w] = "next"]
        /\ req' = [req EXCEPT ![w] = [force |-> FALSE, mock |-> TRUE]]
        /\ runAt' = [runAt EXCEPT ![w] = qrunAt[w]]
        /\ todo' = [todo EXCEPT ![w] = {target[w]}]
        /\ UNCHANGED <<now, profiles, rec, stamp, cur, copy, planned, unread, got,
                       adhoc, since, abandoned, spent>>
    BY <1>3 DEF StartSync
  <2>4. PP!OthersSame(w)
    BY <1>0, <2>3 DEF PP!OthersSame, PP!TypeOK, Sessions
  <2>5. PP!TypeOK'
    BY <1>0, <2>1, <2>2, <2>3 DEF PP!TypeOK, PP!Pc
  <2> QED
    BY <1>0, <1>1, <1>3, <2>3, <2>4, <2>5 DEF PP!TypeOK
<1>4. CASE EndSync(w)
  <2>1. /\ pc' = [pc EXCEPT ![w] = "idle"]
        /\ req' = [req EXCEPT ![w] = P!DueRequest]
        /\ runAt' = [runAt EXCEPT ![w] = 0]
        /\ cur' = [cur EXCEPT ![w] = P!AnyProfile]
        /\ planned' = [planned EXCEPT ![w] = 0]
        /\ copy' = IF succeeded[w] THEN copy
                   ELSE [copy EXCEPT ![w] = [p \in Profiles |-> NoRow]]
        /\ UNCHANGED <<profiles, rec, stamp, todo, unread, got, adhoc, since,
                       abandoned, spent, now>>
    BY <1>4 DEF EndSync, Outcome, Q!SyncSucceeds, Q!SyncFails
  <2>2. P!DueRequest \in [force : BOOLEAN, mock : BOOLEAN] /\ P!AnyProfile \in Profiles
    BY OneProfile DEF P!DueRequest, P!AnyProfile
  <2>3. /\ copy' \in [Sessions -> [Profiles -> PP!Profile \cup {NoRow}]]
        /\ \A v \in Sessions \ {w} : copy'[v] = copy[v]
        /\ \A p \in Profiles : copy'[w][p] \in {NoRow, copy[w][p]}
    BY <1>0, <1>1, <2>1 DEF PP!TypeOK, Sessions
  <2>4. PP!OthersSame(w)
    BY <1>0, <2>1, <2>3 DEF PP!OthersSame, PP!TypeOK, Sessions
  <2>5. PP!TypeOK'
    BY <1>0, <2>1, <2>2, <2>3 DEF PP!TypeOK, PP!Pc, Sessions
  <2> QED
    BY <1>0, <2>1, <2>3, <2>4, <2>5 DEF PP!TypeOK, Sessions
<1>5. CASE EndBatch(w)
  <2>1. /\ copy' = [copy EXCEPT ![w] = [p \in Profiles |-> NoRow]]
        /\ UNCHANGED <<profiles, rec, stamp, pc, req, runAt, todo, cur, planned,
                       unread, got, adhoc, since, abandoned, spent, now>>
        /\ qpc[w] = "next"
    BY <1>5 DEF EndBatch, Q!Finish
  <2>2. pc[w] = "idle"
    BY <1>0, <2>1 DEF Linked
  <2>3. /\ copy' \in [Sessions -> [Profiles -> PP!Profile \cup {NoRow}]]
        /\ \A v \in Sessions \ {w} : copy'[v] = copy[v]
        /\ \A p \in Profiles : copy'[w][p] = NoRow
    BY <1>0, <1>1, <2>1 DEF PP!TypeOK, Sessions
  <2> QED
    BY <1>0, <2>1, <2>2, <2>3 DEF PP!TypeOK, PP!OthersSame, Sessions
<1>6. CASE Die(w)
  <2>1. /\ PP!EndRequest(w)
        /\ UNCHANGED <<profiles, rec, stamp, adhoc, since, spent, now>>
        /\ abandoned' = abandoned \cup {p \in Profiles : P!InSection(w, p)}
    BY <1>0, <1>6, SamePolling DEF Die, Q!Crash
  <2>2. DOMAIN copy = Sessions /\ DOMAIN pc = Sessions /\ DOMAIN planned = Sessions
    BY <1>0 DEF PP!TypeOK, Sessions
  <2>3. /\ pc'[w] = "idle" /\ planned'[w] = 0
        /\ copy'[w] = [p \in Profiles |-> NoRow]
    BY <1>0, <2>1, <2>2 DEF PP!EndRequest, PP!NoTime
  <2>4. PP!OthersSame(w)
    BY <1>0, <2>1 DEF PP!EndRequest, PP!OthersSame, PP!TypeOK, Sessions
  <2>5. PP!TypeOK'
    <3>1. /\ PP!DueRequest \in [force : BOOLEAN, mock : BOOLEAN]
          /\ PP!AnyProfile \in Profiles
          /\ PP!Nothing \in PP!Version
      BY OneProfile DEF PP!DueRequest, PP!AnyProfile, PP!Nothing, PP!Version, PP!NoTime
    <3>2. abandoned' \in SUBSET Profiles
      BY <1>0, <2>1 DEF PP!TypeOK
    <3>3. /\ pc' \in [Sessions -> PP!Pc]
          /\ req' \in [Sessions -> [force : BOOLEAN, mock : BOOLEAN]]
          /\ runAt' \in [Sessions -> Nat]
          /\ todo' \in [Sessions -> SUBSET Profiles]
          /\ cur' \in [Sessions -> Profiles]
          /\ planned' \in [Sessions -> Nat]
      BY <1>0, <2>1, <3>1 DEF PP!EndRequest, PP!TypeOK, PP!Pc, PP!NoTime, Sessions
    <3>4. /\ copy' \in [Sessions -> [Profiles -> PP!Profile \cup {NoRow}]]
          /\ unread' \in [Sessions -> SUBSET Tools]
          /\ got' \in [Sessions -> PP!Version]
      BY <1>0, <2>1, <3>1 DEF PP!EndRequest, PP!TypeOK, Sessions
    <3> QED
      BY <1>0, <2>1, <3>2, <3>3, <3>4 DEF PP!TypeOK, Sessions
  <2> QED
    BY <1>0, <2>1, <2>3, <2>4, <2>5 DEF PP!TypeOK
<1> QED
  BY <1>2, <1>3, <1>4, <1>5, <1>6 DEF Handover

LEMMA BaseInit == Init => BaseInv
<1> SUFFICES ASSUME Init
             PROVE  BaseInv
  OBVIOUS
<1>1. PP!TypeInv
  BY InitBoth, PollingSettings, PP!TypeInvInit
<1>2. LinkTypes
  BY OneProfile DEF Init, LinkTypes, P!AnyProfile
<1>3. Linked
  BY DEF Init, P!Init, Linked
<1> QED
  BY <1>1, <1>2, <1>3, QueueInvInit DEF BaseInv

LEMMA LinkTypesNext == BaseInv /\ [Next]_vars => LinkTypes'
<1> SUFFICES ASSUME BaseInv, [Next]_vars
             PROVE  LinkTypes'
  OBVIOUS
<1>0. LinkTypes
  BY DEF BaseInv
<1>1. ASSUME UNCHANGED linkVars
      PROVE  LinkTypes'
  BY <1>0, <1>1 DEF linkVars, LinkTypes
<1>2. ASSUME NEW r \in Receivers, NEW k \in Keys, Deliver(r, k)
      PROVE  LinkTypes'
  <2>1. stamp[ItemOf[k]] \in Nat
    BY EventSyncAssumption DEF BaseInv, PP!TypeInv, PP!TypeOK, PP!Version
  <2> QED
    BY <1>0, <1>2, <2>1 DEF Deliver, LinkTypes
<1>3. ASSUME NEW w \in QueueWorkers, Map(w)
      PROVE  LinkTypes'
  BY <1>0, <1>3 DEF Map, Matching, LinkTypes
<1>4. ASSUME NEW w \in QueueWorkers, SyncBreaks(w)
      PROVE  LinkTypes'
  <2>1. qcur[w] \in Keys
    BY DEF BaseInv, QueueInv, QQ!TypeInv, QQ!TypeOK
  <2>2. failedSyncs[qcur[w]] + 1 \in Nat
    BY <1>0, <2>1 DEF LinkTypes
  <2> QED
    BY <1>0, <1>4, <2>1, <2>2 DEF SyncBreaks, LinkTypes
<1>5. ASSUME NEW w \in QueueWorkers,
             StartSync(w) \/ SyncCommits(w) \/ EndSync(w) \/ Die(w)
      PROVE  LinkTypes'
  BY <1>0, <1>5 DEF StartSync, SyncCommits, EndSync, Die, LinkTypes
<1>6. ASSUME NEW w \in QueueWorkers, SyncStep(w) \/ QueueStep(w) \/ EndBatch(w)
      PROVE  UNCHANGED linkVars
  BY <1>6 DEF SyncStep, QueueStep, EndBatch
<1>7. ASSUME NEW r \in Receivers, Receive(r)
      PROVE  UNCHANGED linkVars
  BY <1>7 DEF Receive
<1>8. ASSUME (\E w \in Pollers : Poller(w)) \/ Elapse \/ UNCHANGED vars
      PROVE  UNCHANGED linkVars
  BY <1>8 DEF Poller, Elapse, vars
<1> QED
  BY <1>1, <1>2, <1>3, <1>4, <1>5, <1>6, <1>7, <1>8 DEF Next, QueueWorker

(* The steps of the queue that its session takes outside of a sync leave   *)
(* attempts of others alone.                                               *)
LEMMA LinkedNext == BaseInv /\ [Next]_vars => Linked'
<1> SUFFICES ASSUME BaseInv, [Next]_vars
             PROVE  Linked'
  OBVIOUS
<1>0. /\ Linked /\ QQ!TypeOK /\ PP!TypeOK /\ QueueWorkers \cap Pollers = {}
      /\ qpc \in [QueueWorkers -> QQ!Pc] /\ qrunAt \in [QueueWorkers -> Nat]
      /\ pc \in [Sessions -> PP!Pc] /\ runAt \in [Sessions -> Nat]
  BY EventSyncAssumption
  DEF BaseInv, QueueInv, QQ!TypeInv, QQ!TypeOK, PP!TypeInv, PP!TypeOK, Sessions
<1>1. ASSUME NEW w \in Sessions, UNCHANGED <<qpc, qrunAt>>,
             \A v \in Sessions \ {w} : pc'[v] = pc[v] /\ runAt'[v] = runAt[v],
             w \in QueueWorkers => pc[w] # "idle" /\ runAt'[w] = runAt[w]
      PROVE  Linked'
  BY <1>0, <1>1 DEF Linked, Sessions
<1>2. ASSUME NEW w \in QueueWorkers, UNCHANGED <<pc, runAt>>, qpc[w] # "sync",
             \A v \in QueueWorkers \ {w} : qpc'[v] = qpc[v] /\ qrunAt'[v] = qrunAt[v]
      PROVE  Linked'
  BY <1>0, <1>2 DEF Linked
<1>3. ASSUME UNCHANGED <<qpc, qrunAt, pc, runAt>>
      PROVE  Linked'
  BY <1>3, <1>0 DEF Linked
<1>4. ASSUME NEW w \in QueueWorkers, PP!Advance(w), pc[w] # "idle", UNCHANGED queueVars,
             SyncStep(w) \/ SyncCommits(w) \/ SyncBreaks(w)
      PROVE  Linked'
  <2>1. /\ runAt' = runAt
        /\ \A v \in Sessions \ {w} : pc'[v] = pc[v]
    BY <1>0, <1>4 DEF SyncStep, SyncCommits, SyncBreaks, P!Check, P!Acquire, P!LockLost,
       P!Refresh, P!ReadSource, P!RecordFailure, P!Release, P!SyncSucceeds, P!SyncFails
  <2> QED
    BY <1>1, <1>4, <2>1 DEF queueVars, Sessions
<1>5. ASSUME NEW w \in Pollers, Poller(w)
      PROVE  Linked'
  <2>1. w \notin QueueWorkers /\ UNCHANGED queueVars
    BY <1>0, <1>5 DEF Poller
  <2>2. \A v \in Sessions \ {w} : pc'[v] = pc[v] /\ runAt'[v] = runAt[v]
    BY <1>0, <1>5 DEF Poller, P!StartDue, P!Begin, P!Advance, P!Finish, P!EndRequest,
       P!Check, P!Acquire, P!LockLost, P!Refresh, P!ReadSource, P!RecordFailure,
       P!Release, P!SyncSucceeds, P!SyncFails
  <2> QED
    BY <1>1, <2>1, <2>2 DEF queueVars, Sessions
<1>6. ASSUME NEW w \in QueueWorkers, StartSync(w)
      PROVE  Linked'
  BY <1>0, <1>6 DEF StartSync, queueVars, Linked, Sessions
<1>7. ASSUME NEW w \in QueueWorkers, EndSync(w) \/ Die(w)
      PROVE  Linked'
  <2>1. /\ pc'[w] = "idle"
        /\ \A v \in Sessions \ {w} : pc'[v] = pc[v] /\ runAt'[v] = runAt[v]
    BY <1>0, <1>7 DEF EndSync, Die, P!EndRequest, Sessions
  <2>2. \A v \in QueueWorkers \ {w} : qpc'[v] = qpc[v] /\ qrunAt'[v] = qrunAt[v]
    BY <1>0, <1>7 DEF EndSync, Outcome, Q!SyncSucceeds, Q!SyncFails, Die, Q!Crash,
       Q!EndRequest
  <2> QED
    BY <1>0, <2>1, <2>2 DEF Linked, Sessions
<1>8. ASSUME NEW w \in QueueWorkers, Map(w) \/ QueueStep(w) \/ EndBatch(w)
      PROVE  Linked'
  <2>1. UNCHANGED <<pc, runAt>>
    BY <1>8 DEF Map, QueueStep, EndBatch, pollVars
  <2>2. qpc[w] # "sync"
    BY <1>8 DEF Map, Q!Check, QueueStep, Q!Start, Q!MarkFailed, Q!MarkSkipped, Q!Acquire,
       Q!LockLost, Q!Refresh, Q!MarkProcessing, Q!RecordFailure, Q!Release, EndBatch,
       Q!Finish
  <2>3. \A v \in QueueWorkers \ {w} : qpc'[v] = qpc[v] /\ qrunAt'[v] = qrunAt[v]
    BY <1>0, <1>8 DEF Map, Q!Check, QueueStep, Q!Start, Q!MarkFailed, Q!MarkSkipped,
       Q!Acquire, Q!LockLost, Q!Refresh, Q!MarkProcessing, Q!RecordFailure, Q!Release,
       EndBatch, Q!Finish, Q!EndRequest
  <2> QED
    BY <1>2, <2>1, <2>2, <2>3
<1>9. ASSUME NEW r \in Receivers, Receive(r) \/ \E k \in Keys : Deliver(r, k)
      PROVE  Linked'
  BY <1>3, <1>9 DEF Receive, Deliver, Q!Insert, Q!Lookup, Q!workerVars, pollVars
<1>10. ASSUME Elapse \/ UNCHANGED vars
       PROVE  Linked'
  BY <1>3, <1>10 DEF Elapse, vars, queueVars, pollVars, P!Tick, P!Update, P!workerVars
<1> QED
  BY <1>4, <1>5, <1>6, <1>7, <1>8, <1>9, <1>10, SyncIsPolling DEF Next, QueueWorker

LEMMA BaseNext == BaseInv /\ [Next]_vars => BaseInv'
<1> SUFFICES ASSUME BaseInv, [Next]_vars
             PROVE  PP!TypeInv'
  BY QueueInvNext, LinkTypesNext, LinkedNext DEF BaseInv
<1>1. CASE [PP!Next]_(PP!vars)
  BY <1>1, PollingSettings, PP!TypeInvNext DEF BaseInv
<1>2. ASSUME NEW w \in QueueWorkers, Handover(w)
      PROVE  PP!TypeInv'
  <2>1. PP!OthersSame(w) /\ PP!TypeOK' /\ pc'[w] \in {"idle", "next"}
    BY <1>2, HandoverEffect
  <2> QED
    BY <2>1 DEF BaseInv, PP!TypeInv, PP!CopyInPlace, PP!AtProfile, PP!OthersSame
<1> QED
  BY <1>1, <1>2, PollingSteps

-------------------------------------------------------------------------------
(* One run of a profile at a time.                                         *)

LEMMA SyncExclusionNext ==
    ASSUME MaxRun < LockTimeout
    PROVE  BaseInv /\ PP!ExclusionInv /\ [Next]_vars => PP!ExclusionInv'
<1> SUFFICES ASSUME BaseInv, PP!ExclusionInv, [Next]_vars
             PROVE  PP!ExclusionInv'
  OBVIOUS
<1>1. CASE [PP!Next]_(PP!vars)
  BY <1>1, PollingSettings, PP!ExclusionNext DEF BaseInv
<1>2. ASSUME NEW w \in QueueWorkers, Handover(w)
      PROVE  PP!ExclusionInv'
  <2>1. /\ UNCHANGED <<profiles, now>> /\ PP!OthersSame(w)
        /\ pc'[w] \in {"idle", "next"} /\ (pc'[w] = "next" => StartSync(w))
    BY <1>2, HandoverEffect
  <2>2. PP!Timely'
    <3>1. ASSUME pc'[w] = "next"
          PROVE  runAt'[w] > 0 /\ runAt'[w] <= now /\ now <= runAt'[w] + MaxRun
      <4>1. qpc[w] = "sync" /\ runAt'[w] = qrunAt[w]
        BY <2>1, <3>1 DEF StartSync, BaseInv, PP!TypeInv, PP!TypeOK
      <4> QED
        BY <4>1 DEF BaseInv, QueueInv, QQ!Timely
    <3> QED
      BY <2>1, <3>1 DEF PP!ExclusionInv, PP!Timely, PP!OthersSame
  <2>3. PP!LockHeld' /\ PP!ProfileLockExclusion'
    BY <2>1 DEF PP!ExclusionInv, PP!LockHeld, PP!ProfileLockExclusion, PP!InSection,
       PP!Section, PP!OthersSame
  <2> QED
    BY <2>2, <2>3 DEF PP!ExclusionInv
<1> QED
  BY <1>1, <1>2, PollingSteps

LEMMA ExclusionAlways ==
    ASSUME MaxRun < LockTimeout
    PROVE  Spec => [](BaseInv /\ PP!ExclusionInv)
<1>1. Init => BaseInv /\ PP!ExclusionInv
  BY BaseInit, InitBoth, PollingSettings, PP!ExclusionInit
<1>2. BaseInv /\ PP!ExclusionInv /\ [Next]_vars => (BaseInv /\ PP!ExclusionInv)'
  BY BaseNext, SyncExclusionNext
<1> QED
  BY <1>1, <1>2, PTL DEF Spec

(* The lock of a profile keeps events and pollers apart as it keeps        *)
(* pollers apart: if every request ends before its lock is stale, no two   *)
(* sessions run the profile at a time, although a sync on behalf of an     *)
(* event takes the lock in the name of a time long past.                   *)
THEOREM EventsKeepExclusion ==
    ASSUME MaxRun < LockTimeout
    PROVE  Spec => []OneRunWithEvents
<1>1. Spec => [](BaseInv /\ PP!ExclusionInv)
  BY ExclusionAlways
<1>2. PP!ExclusionInv => OneRunWithEvents
  BY DEF PP!ExclusionInv, PP!ProfileLockExclusion, PP!InSection, PP!Section,
     OneRunWithEvents, P!ProfileLockExclusion, P!InSection, P!Section
<1> QED
  BY <1>1, <1>2, PTL

-------------------------------------------------------------------------------
(* The watermark.  What a session of a queue worker keeps of a profile     *)
(* between its syncs must be safe to read from at the time of its batch,   *)
(* however much later the next sync begins.                                *)

Before(at) == IF at > Lookback THEN at - Lookback ELSE 0

PlannedAt(at, row) == IF row.watermark # 0 THEN row.watermark ELSE Before(at)

(* Reading what is newer than t misses nothing, for a run of time "at".    *)
SafeAt(at, p, t) ==
    IF profiles[p].watermark = 0 THEN t = Before(at) ELSE PP!Covered(p, t)

Held(w) == pc[w] = "idle" \/ succeeded[w]

SessionSafe ==
    \A w \in QueueWorkers, p \in Profiles :
        Held(w) /\ copy[w][p] # NoRow
            => SafeAt(qrunAt[w], p, PlannedAt(qrunAt[w], copy[w][p]))

(* A session is empty between its requests; a sync that has committed has  *)
(* only its lock to give back; there is nothing left to try but at "next". *)
Outcomes ==
    \A w \in QueueWorkers :
        /\ qpc[w] = "idle" => \A p \in Profiles : copy[w][p] = NoRow
        /\ succeeded[w] => pc[w] \in {"release", "next"}
        /\ pc[w] # "next" \/ succeeded[w] => todo[w] = {}

SyncInv == PP!GapInv /\ Outcomes /\ SessionSafe

(* What a step of the polling worker does to watermarks, records and the   *)
(* source.                                                                 *)
SameMarks ==
    /\ UNCHANGED <<rec, stamp, now, since>>
    /\ \A p \in Profiles : profiles'[p].watermark = profiles[p].watermark

TimePasses ==
    /\ UNCHANGED <<profiles, rec, since>>
    /\ now' = now + 1
    /\ \A i \in Items : stamp'[i] = stamp[i] \/ stamp'[i] = now + 1

LEMMA CommitKeepsMark ==
    ASSUME PP!TypeInv, NEW w \in Sessions,
           PP!RecordFailure(w) \/ PP!Release(w)
    PROVE  /\ \A p \in Profiles : profiles'[p].watermark = profiles[p].watermark
           /\ cur[w] \in Profiles
           /\ copy'[w][cur[w]].watermark = copy[w][cur[w]].watermark
<1>1. /\ PP!AtProfile(w) /\ copy[w][cur[w]] \in PP!Profile
      /\ cur[w] \in Profiles /\ profiles[cur[w]] \in PP!Profile /\ runAt[w] \in Nat
  BY DEF PP!RecordFailure, PP!Release, PP!AtProfile, PP!TypeInv, PP!TypeOK,
     PP!CopyInPlace, Sessions
<1>2. PICK new \in PP!Profile :
          PP!Commit(w, new) /\ new.watermark = copy[w][cur[w]].watermark
  <2>1. CASE PP!RecordFailure(w)
    <3>1. runAt[w] + Interval \in Nat
      BY <1>1, SettingsAssumption
    <3>2. [copy[w][cur[w]] EXCEPT !.nextRun = runAt[w] + Interval] \in PP!Profile
      BY <1>1, <3>1, PollingSettings, PP!NextRunType
    <3>3. [copy[w][cur[w]] EXCEPT !.nextRun = runAt[w] + Interval].watermark
              = copy[w][cur[w]].watermark
      BY <1>1 DEF PP!Profile
    <3> QED
      BY <2>1, <3>2, <3>3 DEF PP!RecordFailure
  <2>2. CASE PP!Release(w)
    <3>1. [copy[w][cur[w]] EXCEPT !.lockedAt = 0] \in PP!Profile
      BY <1>1, PollingSettings, PP!LockedType
    <3>2. [copy[w][cur[w]] EXCEPT !.lockedAt = 0].watermark = copy[w][cur[w]].watermark
      BY <1>1 DEF PP!Profile
    <3> QED
      BY <2>2, <3>1, <3>2 DEF PP!Release, PP!NoTime
  <2> QED
    BY <2>1, <2>2
<1>3. /\ copy'[w][cur[w]] = new
      /\ profiles'[cur[w]] = PP!Flush(profiles[cur[w]], copy[w][cur[w]], new)
      /\ \A p \in Profiles \ {cur[w]} : profiles'[p] = profiles[p]
  BY <1>1, <1>2, PollingSettings, PP!CommitType DEF Sessions
<1>4. profiles'[cur[w]].watermark = profiles[cur[w]].watermark
  BY <1>1, <1>2, <1>3 DEF PP!Flush, PP!Profile
<1> QED
  BY <1>1, <1>2, <1>3, <1>4

LEMMA DataSteps ==
    ASSUME PP!TypeInv, PP!GapInv, [PP!Next]_(PP!vars)
    PROVE  \/ SameMarks
           \/ \E w \in Sessions : PP!SyncSucceeds(w)
           \/ TimePasses
<1>0. PP!TypeOK /\ adhoc = NoRequest
  BY DEF PP!TypeInv, PP!GapInv, PP!Calm
<1>1. ASSUME UNCHANGED <<rec, stamp, now, since, profiles>>
      PROVE  SameMarks
  BY <1>1 DEF SameMarks
<1>2. ASSUME NEW w \in Sessions,
             PP!StartDue(w) \/ (\E p \in Profiles : PP!StartOne(w, p)) \/ PP!Crash(w)
      PROVE  UNCHANGED <<rec, stamp, now, since, profiles>>
  BY <1>2 DEF PP!StartDue, PP!StartOne, PP!Begin, PP!Crash, PP!historyVars
<1>3. ASSUME NEW w \in Sessions,
             \/ PP!Finish(w) \/ PP!Check(w) \/ PP!LockLost(w) \/ PP!Refresh(w)
             \/ PP!ReadSource(w) \/ PP!SyncFails(w)
      PROVE  UNCHANGED <<rec, stamp, now, since, profiles>>
  BY <1>3 DEF PP!Finish, PP!Check, PP!LockLost, PP!Refresh, PP!ReadSource, PP!SyncFails,
     PP!historyVars
<1>4. ASSUME NEW w \in Sessions, PP!Acquire(w)
      PROVE  SameMarks
  <2>1. cur[w] \in Profiles /\ profiles[cur[w]] \in PP!Profile
    BY <1>0 DEF PP!TypeOK, Sessions
  <2>2. profiles' = [profiles EXCEPT ![cur[w]] =
                         [profiles[cur[w]] EXCEPT !.lockedAt = runAt[w]]]
    BY <1>0, <1>4 DEF PP!Acquire, PP!TypeOK
  <2>3. \A p \in Profiles : profiles'[p].watermark = profiles[p].watermark
    BY <1>0, <2>1, <2>2 DEF PP!TypeOK, PP!Profile
  <2> QED
    BY <1>4, <2>3 DEF PP!Acquire, PP!historyVars, SameMarks
<1>5. ASSUME NEW w \in Sessions, PP!RecordFailure(w) \/ PP!Release(w)
      PROVE  SameMarks
  BY <1>5, CommitKeepsMark DEF PP!RecordFailure, PP!Release, PP!historyVars, SameMarks
<1>6. ASSUME PP!StartAdhoc \/ PP!ReadAdhoc \/ PP!CommitAdhoc
             \/ \E p \in Profiles : PP!PatchProfile(p)
      PROVE  FALSE
  <2>1. spent.patch \in Nat /\ spent.adhoc \in Nat
    BY <1>0 DEF PP!TypeOK
  <2>2. /\ PP!StartAdhoc => spent.adhoc < 0
        /\ PP!ReadAdhoc \/ PP!CommitAdhoc => adhoc # NoRequest
    BY DEF PP!StartAdhoc, PP!ReadAdhoc, PP!CommitAdhoc
  <2>3. \A p \in Profiles : PP!PatchProfile(p) => spent.patch < 0
    BY DEF PP!PatchProfile
  <2> QED
    BY <1>0, <1>6, <2>1, <2>2, <2>3
<1>7. ASSUME PP!Tick \/ \E i \in Items : PP!Update(i)
      PROVE  TimePasses
  BY <1>0, <1>7 DEF PP!Tick, PP!Update, PP!workerVars, PP!historyVars, TimePasses,
     PP!TypeOK, PP!Version
<1>8. CASE UNCHANGED PP!vars
  BY <1>1, <1>8 DEF PP!vars, PP!historyVars
<1> QED
  BY <1>1, <1>2, <1>3, <1>4, <1>5, <1>6, <1>7, <1>8 DEF PP!Next, PP!Work, PP!Advance, Sessions

(* Whatever the polling worker does, what is safe to read from at a time   *)
(* that has come stays so.                                                 *)
LEMMA CoveredKept ==
    ASSUME BaseInv, PP!GapInv, [PP!Next]_(PP!vars), NEW p \in Profiles,
           profiles[p].watermark # 0, NEW t \in Nat, t <= now, PP!Covered(p, t)
    PROVE  PP!Covered(p, t)'
<1>0. PP!TypeOK /\ PP!TypeInv /\ Scope[p] \subseteq Items /\ now \in Nat
  BY SettingsAssumption DEF BaseInv, PP!TypeInv, PP!TypeOK
<1>1. CASE SameMarks
  BY <1>1 DEF SameMarks, PP!Covered
<1>2. ASSUME NEW w \in Sessions, PP!SyncSucceeds(w)
      PROVE  PP!Covered(p, t)'
  <2>1. /\ cur[w] = p /\ since'[p] = since[p] /\ stamp' = stamp
        /\ \A i \in Items : rec[i] = stamp[i] => rec'[i] = stamp[i]
    BY <1>0, <1>2, PollingSettings, OneProfile, PP!SuccessEffect DEF Sessions, PP!NoTime
  <2> QED
    BY <1>0, <2>1 DEF PP!Covered
<1>3. CASE TimePasses
  <2>1. ASSUME NEW i \in Scope[p], since[p] < stamp'[i], stamp'[i] <= t
        PROVE  rec'[i] = stamp'[i]
    <3>1. i \in Items /\ rec' = rec /\ stamp'[i] = stamp[i]
      BY <1>0, <1>3, <2>1 DEF TimePasses
    <3> QED
      BY <2>1, <3>1 DEF PP!Covered
  <2> QED
    BY <1>3, <2>1 DEF PP!Covered, TimePasses
<1> QED
  BY <1>0, <1>1, <1>2, <1>3, DataSteps

LEMMA SafeKept ==
    ASSUME MaxRun <= Lookback, BaseInv, PP!ExclusionInv, PP!GapInv, PP!GapInv',
           [PP!Next]_(PP!vars),
           NEW p \in Profiles, NEW at \in Nat, at <= now,
           NEW t \in Nat, t <= now, SafeAt(at, p, t)
    PROVE  SafeAt(at, p, t)'
<1>0. /\ PP!TypeInv /\ PP!TypeOK /\ now \in Nat /\ {Lookback, MaxRun} \subseteq Nat
      /\ profiles[p].watermark \in Nat
  BY SettingsAssumption DEF BaseInv, PP!TypeInv, PP!TypeOK, PP!Profile
<1>1. CASE profiles[p].watermark # 0
  <2>1. PP!Covered(p, t)'
    BY <1>1, CoveredKept DEF SafeAt
  <2>2. profiles'[p].watermark # 0
    <3>1. ASSUME NEW w \in Sessions, PP!SyncSucceeds(w)
          PROVE  profiles'[p].watermark # 0
      <4>1. cur[w] = p /\ pc[w] = "read" /\ profiles'[p].watermark = runAt[w]
        BY <1>0, <3>1, PollingSettings, OneProfile, PP!SuccessEffect DEF Sessions
      <4>2. runAt[w] > 0
        BY <4>1 DEF PP!ExclusionInv, PP!Timely, Sessions
      <4> QED
        BY <4>1, <4>2
    <3> QED
      BY <1>0, <1>1, <3>1, DataSteps DEF SameMarks, TimePasses
  <2> QED
    BY <2>1, <2>2 DEF SafeAt
<1>2. CASE profiles[p].watermark = 0
  <2>1. t = Before(at)
    BY <1>2 DEF SafeAt
  <2>2. CASE profiles'[p].watermark = 0
    BY <2>1, <2>2 DEF SafeAt
  <2>3. CASE profiles'[p].watermark # 0
    <3>1. PICK w \in Sessions : PP!SyncSucceeds(w)
      BY <1>0, <1>2, <2>3, DataSteps DEF SameMarks, TimePasses
    <3>2. cur[w] = p /\ pc[w] = "read" /\ profiles'[p].watermark = runAt[w]
      BY <1>0, <3>1, PollingSettings, OneProfile, PP!SuccessEffect DEF Sessions
    <3>3. now <= runAt[w] + MaxRun /\ runAt[w] \in Nat
      BY <1>0, <3>2 DEF PP!ExclusionInv, PP!Timely, PP!TypeOK, Sessions
    <3>4. t <= runAt[w]
      BY <1>0, <2>1, <3>3 DEF Before
    <3>5. \A i \in Scope[p] : since'[p] < stamp'[i] /\ stamp'[i] <= runAt[w]
                                  => rec'[i] = stamp'[i]
      BY <2>3, <3>2 DEF PP!GapInv, PP!NoSilentGap, PP!NoTime
    <3>6. \A i \in Scope[p] : stamp'[i] \in Nat
      <4>1. stamp' = stamp
        BY <1>0, <3>1, PollingSettings, PP!SuccessEffect DEF Sessions
      <4> QED
        BY <1>0, <4>1, SettingsAssumption DEF PP!TypeOK, PP!Version
    <3>7. PP!Covered(p, t)'
      BY <3>3, <3>4, <3>5, <3>6 DEF PP!Covered
    <3> QED
      BY <2>3, <3>7 DEF SafeAt
  <2> QED
    BY <2>2, <2>3
<1> QED
  BY <1>1, <1>2

(* A copy that shows the watermark of its row is safe.                     *)
LEMMA FreshIsSafe ==
    ASSUME PP!NoSilentGap, NEW p \in Profiles, NEW row, NEW at,
           row.watermark = profiles[p].watermark
    PROVE  SafeAt(at, p, PlannedAt(at, row))
BY DEF SafeAt, PlannedAt, PP!NoSilentGap, PP!Covered, PP!NoTime

-------------------------------------------------------------------------------
(* Whose session a step touches.                                           *)

Syncs(w) == SyncStep(w) \/ SyncCommits(w) \/ SyncBreaks(w)

Untouched(v) ==
    /\ copy'[v] = copy[v] /\ pc'[v] = pc[v] /\ todo'[v] = todo[v]
    /\ planned'[v] = planned[v] /\ unread'[v] = unread[v] /\ got'[v] = got[v]
    /\ succeeded'[v] = succeeded[v] /\ qcur'[v] = qcur[v]
    /\ qpc'[v] = "idle" => qpc[v] = "idle"
    /\ qrunAt'[v] = qrunAt[v] \/ qpc[v] = "idle"

SessionVars == <<copy, pc, todo, planned, unread, got, succeeded, qpc, qrunAt, qcur>>

LEMMA SyncTouchesOne ==
    ASSUME BaseInv, NEW w \in QueueWorkers, Syncs(w)
    PROVE  [PP!Next]_(PP!vars) /\ \A v \in QueueWorkers \ {w} : Untouched(v)
<1>1. PP!Next
  BY SyncIsPolling DEF Syncs, PP!Next, PP!Work, Sessions
<1>2. \A v \in QueueWorkers \ {w} :
          /\ copy'[v] = copy[v] /\ pc'[v] = pc[v] /\ todo'[v] = todo[v]
          /\ planned'[v] = planned[v] /\ unread'[v] = unread[v] /\ got'[v] = got[v]
  BY DEF BaseInv, PP!TypeInv, PP!TypeOK, Syncs, SyncStep, SyncCommits, SyncBreaks, P!Check,
     P!Acquire, P!LockLost, P!Refresh, P!ReadSource, P!RecordFailure, P!Release,
     P!SyncSucceeds, P!SyncFails, P!Commit
<1>3. \A v \in QueueWorkers \ {w} : succeeded'[v] = succeeded[v]
  BY DEF Syncs, SyncStep, SyncCommits, SyncBreaks, linkVars, BaseInv, LinkTypes
<1>4. UNCHANGED <<qpc, qrunAt, qcur>>
  BY SyncIsPolling DEF Syncs, queueVars
<1> QED
  BY <1>1, <1>2, <1>3, <1>4 DEF Untouched

LEMMA HandoverTouchesOne ==
    ASSUME BaseInv, NEW w \in QueueWorkers, Handover(w)
    PROVE  \A v \in QueueWorkers \ {w} : Untouched(v)
<1>1. \A v \in QueueWorkers \ {w} :
          /\ copy'[v] = copy[v] /\ pc'[v] = pc[v] /\ todo'[v] = todo[v]
          /\ planned'[v] = planned[v] /\ unread'[v] = unread[v] /\ got'[v] = got[v]
  BY HandoverEffect DEF PP!OthersSame
<1>2. LinkTypes /\ QQ!TypeOK
  BY DEF BaseInv, QueueInv, QQ!TypeInv
<1>3. \A v \in QueueWorkers \ {w} : succeeded'[v] = succeeded[v]
  <2>1. \/ succeeded' = succeeded
        \/ succeeded' = [succeeded EXCEPT ![w] = FALSE]
    BY DEF Handover, Map, StartSync, EndSync, EndBatch, Die, linkVars
  <2> QED
    BY <1>2, <2>1 DEF LinkTypes
<1>4. \A v \in QueueWorkers \ {w} :
          qpc'[v] = qpc[v] /\ qrunAt'[v] = qrunAt[v] /\ qcur'[v] = qcur[v]
  <2>1. CASE StartSync(w)
    BY <2>1 DEF StartSync, queueVars
  <2>2. CASE Map(w)
    BY <1>2, <2>2 DEF Map, Q!Check, QQ!TypeOK
  <2>3. CASE EndSync(w)
    BY <1>2, <2>3 DEF EndSync, Outcome, Q!SyncSucceeds, Q!SyncFails, QQ!TypeOK
  <2>4. CASE EndBatch(w) \/ Die(w)
    BY <1>2, <2>4 DEF EndBatch, Die, Q!Finish, Q!Crash, Q!EndRequest, QQ!TypeOK
  <2> QED
    BY <2>1, <2>2, <2>3, <2>4 DEF Handover
<1> QED
  BY <1>1, <1>3, <1>4 DEF Untouched

LEMMA WhoIsTouched ==
    ASSUME BaseInv, [Next]_vars
    PROVE  \/ [PP!Next]_(PP!vars) /\ \A v \in QueueWorkers : Untouched(v)
           \/ \E w \in QueueWorkers : Syncs(w) \/ Handover(w)
<1> SUFFICES ASSUME \A w \in QueueWorkers : ~Syncs(w) /\ ~Handover(w)
             PROVE  [PP!Next]_(PP!vars) /\ \A v \in QueueWorkers : Untouched(v)
  OBVIOUS
<1>0. QueueWorkers \cap Pollers = {} /\ PP!TypeOK /\ QQ!TypeOK
  BY EventSyncAssumption DEF BaseInv, QueueInv, PP!TypeInv, QQ!TypeInv
<1>1. [PP!Next]_(PP!vars)
  BY PollingSteps
<1>2. ASSUME NEW w \in QueueWorkers, QueueStep(w), NEW v \in QueueWorkers
      PROVE  Untouched(v)
  <2>1. UNCHANGED <<copy, pc, todo, planned, unread, got, succeeded>>
    BY <1>2 DEF QueueStep, pollVars, linkVars
  <2>2. qpc' \in [QueueWorkers -> QQ!Pc] /\ qpc'[w] # "idle"
        /\ \A u \in QueueWorkers \ {w} : qpc'[u] = qpc[u]
    BY <1>0, <1>2 DEF QueueStep, Q!Start, Q!MarkFailed, Q!MarkSkipped, Q!Acquire,
       Q!LockLost, Q!Refresh, Q!MarkProcessing, Q!RecordFailure, Q!Release, QQ!TypeOK,
       QQ!Pc, QQ!Section
  <2>3. qcur' = qcur /\ (qrunAt'[v] = qrunAt[v] \/ qpc[v] = "idle")
    BY <1>0, <1>2 DEF QueueStep, Q!Start, Q!MarkFailed, Q!MarkSkipped, Q!Acquire,
       Q!LockLost, Q!Refresh, Q!MarkProcessing, Q!RecordFailure, Q!Release, QQ!TypeOK
  <2> QED
    BY <2>1, <2>2, <2>3 DEF Untouched
<1>3. ASSUME NEW w \in Pollers, Poller(w), NEW v \in QueueWorkers
      PROVE  Untouched(v)
  <2>1. v # w /\ UNCHANGED <<succeeded, qpc, qrunAt, qcur>>
    BY <1>0, <1>3 DEF Poller, queueVars, linkVars
  <2>2. /\ copy'[v] = copy[v] /\ pc'[v] = pc[v] /\ todo'[v] = todo[v]
        /\ planned'[v] = planned[v] /\ unread'[v] = unread[v] /\ got'[v] = got[v]
    BY <1>0, <1>3, <2>1 DEF PP!TypeOK, Poller, P!StartDue, P!Begin, P!Advance, P!Finish,
       P!EndRequest, P!Check, P!Acquire, P!LockLost, P!Refresh, P!ReadSource,
       P!RecordFailure, P!Release, P!SyncSucceeds, P!SyncFails, P!Commit
  <2> QED
    BY <2>1, <2>2 DEF Untouched
<1>4. ASSUME UNCHANGED SessionVars
      PROVE  \A v \in QueueWorkers : Untouched(v)
  BY <1>4 DEF Untouched, SessionVars
<1>5. ASSUME NEW r \in Receivers, Receive(r) \/ \E k \in Keys : Deliver(r, k)
      PROVE  UNCHANGED SessionVars
  BY <1>5 DEF Receive, Deliver, Q!Insert, Q!Lookup, Q!workerVars, pollVars, linkVars,
     SessionVars
<1>6. ASSUME Elapse \/ UNCHANGED vars
      PROVE  UNCHANGED SessionVars
  BY <1>6 DEF Elapse, vars, queueVars, pollVars, linkVars, P!Tick, P!Update, P!workerVars,
     SessionVars
<1> QED
  BY <1>1, <1>2, <1>3, <1>4, <1>5, <1>6 DEF Next, QueueWorker, Syncs, Handover

(* What a sync leaves its session: once it has committed, only its lock is *)
(* left, and what it holds of the profile bears the watermark of the row.  *)
LEMMA OwnSync ==
    ASSUME BaseInv, PP!GapInv, PP!GapInv', Outcomes, NEW w \in QueueWorkers, Syncs(w)
    PROVE  /\ qpc'[w] = "sync" /\ pc'[w] # "idle"
           /\ succeeded'[w] => pc'[w] \in {"release", "next"}
           /\ pc'[w] # "next" \/ succeeded'[w] => todo'[w] = {}
           /\ succeeded'[w] => \A p \in Profiles :
                  copy'[w][p].watermark = profiles'[p].watermark
<1>0. /\ PP!TypeOK /\ PP!TypeInv /\ LinkTypes /\ Linked /\ w \in Sessions
      /\ pc[w] # "idle" /\ UNCHANGED queueVars /\ PP!Advance(w)
      /\ cur[w] \in Profiles
  BY SyncIsPolling DEF BaseInv, PP!TypeInv, PP!TypeOK, Sessions, Syncs
<1>1. qpc'[w] = "sync"
  BY <1>0 DEF Linked, queueVars
<1>2. CASE SyncCommits(w)
  <2>1. pc'[w] = "release" /\ pc[w] = "read" /\ todo' = todo /\ cur' = cur
    BY <1>0, <1>2 DEF SyncCommits, P!SyncSucceeds, PP!TypeOK, Sessions
  <2>2. todo[w] = {}
    BY <2>1 DEF Outcomes
  <2>3. copy'[w][cur[w]] = profiles'[cur[w]]
    BY <1>0, <2>1 DEF PP!GapInv, PP!CopyFresh, Sessions
  <2> QED
    BY <1>0, <1>1, <2>1, <2>2, <2>3, OneProfile
<1>3. CASE SyncBreaks(w)
  <2>1. pc'[w] = "fail" /\ pc[w] = "read" /\ todo' = todo /\ succeeded' = succeeded
    BY <1>0, <1>3 DEF SyncBreaks, P!SyncFails, PP!TypeOK, Sessions
  <2> QED
    BY <1>1, <2>1 DEF Outcomes
<1>4. CASE SyncStep(w) /\ pc[w] = "next"
  <2>1. P!Check(w) /\ succeeded' = succeeded
    BY <1>4 DEF SyncStep, linkVars, P!Acquire, P!LockLost, P!Refresh, P!ReadSource,
       P!RecordFailure, P!Release
  <2>2. PICK p \in todo[w] : todo' = [todo EXCEPT ![w] = @ \ {p}]
    BY <2>1 DEF P!Check
  <2>3. todo'[w] = {}
    BY <1>0, <2>2, OneProfile DEF PP!TypeOK, Sessions
  <2>4. pc'[w] # "idle"
    BY <1>0, <2>1 DEF P!Check, PP!TypeOK, Sessions
  <2>5. ~succeeded[w]
    BY <2>2 DEF Outcomes
  <2> QED
    BY <1>1, <2>1, <2>3, <2>4, <2>5
<1>5. CASE SyncStep(w) /\ pc[w] # "next"
  <2>1. todo' = todo /\ todo[w] = {} /\ succeeded' = succeeded
    BY <1>5 DEF SyncStep, linkVars, P!Check, P!Acquire, P!LockLost, P!Refresh,
       P!ReadSource, P!RecordFailure, P!Release, Outcomes
  <2>2. pc'[w] # "idle"
    BY <1>0, <1>5 DEF SyncStep, P!Check, P!Acquire, P!LockLost, P!Refresh,
       P!ReadSource, P!RecordFailure, P!Release, PP!TypeOK, Sessions
  <2>3. ASSUME succeeded[w]
        PROVE  /\ pc'[w] = "next"
               /\ \A p \in Profiles : copy'[w][p].watermark = profiles'[p].watermark
    <3>1. pc[w] = "release"
      BY <1>5, <2>3 DEF Outcomes
    <3>2. P!Release(w)
      BY <1>5, <3>1 DEF SyncStep, P!Check, P!Acquire, P!LockLost, P!Refresh,
         P!ReadSource, P!RecordFailure
    <3>3. PP!Release(w)
      BY <3>2 DEF P!Release, PP!Release, P!Nothing, PP!Nothing, P!Commit, PP!Commit,
         P!Flush, PP!Flush, P!NoTime, PP!NoTime, P!historyVars, PP!historyVars
    <3>4. pc'[w] = "next"
      BY <1>0, <3>2 DEF P!Release, PP!TypeOK, Sessions
    <3>5. copy[w][cur[w]] = profiles[cur[w]]
      BY <1>0, <3>1 DEF PP!GapInv, PP!CopyFresh, Sessions
    <3> QED
      BY <1>0, <3>3, <3>4, <3>5, CommitKeepsMark, OneProfile
  <2> QED
    BY <1>1, <2>1, <2>2, <2>3
<1> QED
  BY <1>2, <1>3, <1>4, <1>5 DEF Syncs

-------------------------------------------------------------------------------
(* The invariant is kept.                                                  *)

LEMMA SyncInvInit == Init => SyncInv
<1> SUFFICES ASSUME Init
             PROVE  SyncInv
  OBVIOUS
<1>1. PP!GapInv
  BY InitBoth, PollingSettings, PP!GapInit
<1>2. \A w \in QueueWorkers : /\ pc[w] = "idle" /\ todo[w] = {} /\ ~succeeded[w]
                              /\ \A p \in Profiles : copy[w][p] = NoRow
  BY DEF Init, P!Init
<1>3. Outcomes /\ SessionSafe
  BY <1>2 DEF Outcomes, SessionSafe
<1> QED
  BY <1>1, <1>3 DEF SyncInv

(* A sync may begin from the copy its session holds.                       *)
LEMMA HandoverGap ==
    ASSUME BaseInv, SyncInv, NEW w \in QueueWorkers, Handover(w)
    PROVE  PP!GapInv'
<1>0. /\ PP!TypeOK /\ PP!TypeInv /\ PP!GapInv /\ w \in Sessions
      /\ now \in Nat
  BY DEF BaseInv, PP!TypeInv, PP!TypeOK, SyncInv, Sessions
<1>1. /\ UNCHANGED <<profiles, rec, stamp, now, adhoc, since>>
      /\ PP!OthersSame(w)
      /\ pc'[w] \in {"idle", "next"} /\ (pc'[w] = "next" => StartSync(w))
      /\ \A p \in Profiles : copy'[w][p] \in {NoRow, copy[w][p], profiles[p]}
      /\ planned'[w] \in {planned[w], 0}
  BY HandoverEffect
<1>2. PP!SameData
  BY <1>1 DEF PP!SameData
<1>3. PP!CopyFresh'
  BY <1>0, <1>1, PollingSettings, PP!FreshKept DEF PP!GapInv, Sessions
<1>4. PP!AtWorker(w)'
  <2>1. CASE pc'[w] = "idle"
    BY <2>1 DEF PP!AtWorker
  <2>2. CASE pc'[w] = "next"
    <3>1. /\ pc[w] = "idle" /\ runAt'[w] = qrunAt[w] /\ copy' = copy
          /\ todo'[w] = {target[w]} /\ target[w] \in Profiles
      BY <1>0, <1>1, <2>2 DEF StartSync, BaseInv, LinkTypes, PP!TypeOK, Sessions
    <3>2. ASSUME NEW p \in todo'[w], copy'[w][p] # NoRow
          PROVE  PP!Safe(w, p, PP!PlannedWatermark(w, copy[w][p]))'
      <4>1. p \in Profiles /\ Held(w)
        BY <3>1 DEF Held
      <4>2. SafeAt(qrunAt[w], p, PlannedAt(qrunAt[w], copy[w][p]))
        BY <3>1, <3>2, <4>1 DEF SyncInv, SessionSafe
      <4>3. PP!PlannedWatermark(w, copy[w][p])' = PlannedAt(qrunAt[w], copy[w][p])
        BY <3>1 DEF PP!PlannedWatermark, PP!NoTime, PlannedAt, Before
      <4>4. PICK t : t = PlannedAt(qrunAt[w], copy[w][p])
        OBVIOUS
      <4>5. PP!Safe(w, p, t)'
        BY <1>1, <3>1, <4>2, <4>4 DEF SafeAt, Before, PP!Safe, PP!Covered, PP!Lookbehind,
           PP!NoTime
      <4> QED
        BY <4>3, <4>4, <4>5 DEF PP!Safe, PP!Covered, PP!Lookbehind
    <3> QED
      BY <2>2, <3>2 DEF PP!AtWorker
  <2> QED
    BY <1>1, <2>1, <2>2
<1>5. /\ planned'[w] <= now
      /\ \A p \in Profiles : copy'[w][p] # NoRow => copy'[w][p].watermark <= now
  BY <1>0, <1>1 DEF PP!GapInv, PP!Past, Sessions
<1> QED
  BY <1>0, <1>1, <1>2, <1>3, <1>4, <1>5, PollingSettings, PP!Frame DEF Sessions

LEMMA GapKept ==
    ASSUME MaxRun < LockTimeout, MaxRun <= Lookback,
           BaseInv, PP!ExclusionInv, SyncInv, [Next]_vars
    PROVE  PP!GapInv'
<1>1. BaseInv' /\ PP!ExclusionInv'
  BY BaseNext, SyncExclusionNext
<1>2. PP!Reliable
  BY OneProfile DEF PP!Reliable, PP!DisjointScopes
<1>3. CASE [PP!Next]_(PP!vars)
  BY <1>1, <1>2, <1>3, PollingSettings, PP!GapNext DEF BaseInv, SyncInv
<1> QED
  BY <1>3, PollingSteps, HandoverGap

LEMMA OutcomesKept ==
    ASSUME BaseInv, SyncInv, PP!GapInv', [Next]_vars
    PROVE  Outcomes'
<1>0. PP!GapInv /\ Outcomes
  BY DEF SyncInv
<1> DEFINE Fine(w) ==
       /\ qpc[w] = "idle" => \A p \in Profiles : copy[w][p] = NoRow
       /\ succeeded[w] => pc[w] \in {"release", "next"}
       /\ pc[w] # "next" \/ succeeded[w] => todo[w] = {}
<1>1. ASSUME NEW v \in QueueWorkers, Untouched(v)
      PROVE  Fine(v)'
  BY <1>0, <1>1 DEF Untouched, Outcomes
<1>2. ASSUME NEW w \in QueueWorkers, Syncs(w)
      PROVE  Fine(w)'
  BY <1>0, <1>2, OwnSync
<1>3. ASSUME NEW w \in QueueWorkers, Handover(w)
      PROVE  Fine(w)'
  <2>0. /\ LinkTypes /\ Linked /\ QQ!TypeOK /\ PP!TypeOK
        /\ DOMAIN succeeded = QueueWorkers /\ DOMAIN pc = Sessions
        /\ DOMAIN todo = Sessions /\ DOMAIN copy = Sessions
        /\ DOMAIN qpc = QueueWorkers /\ w \in Sessions
    BY DEF BaseInv, QueueInv, QQ!TypeInv, QQ!TypeOK, PP!TypeInv, PP!TypeOK, LinkTypes,
       Sessions
  <2>1. CASE Map(w)
    <3>1. qpc[w] = "next" /\ UNCHANGED <<pc, todo, succeeded>>
      BY <2>1 DEF Map, Q!Check
    <3>2. pc[w] = "idle" /\ ~succeeded[w] /\ todo[w] = {}
      BY <1>0, <2>0, <3>1 DEF Linked, Outcomes
    <3>3. qpc'[w] # "idle"
      BY <2>0, <2>1 DEF Map, Q!Check, Q!Verdict
    <3> QED
      BY <3>1, <3>2, <3>3
  <2>2. CASE StartSync(w)
    BY <2>0, <2>2 DEF StartSync, queueVars
  <2>3. CASE EndSync(w)
    <3>1. pc'[w] = "idle" /\ todo'[w] = {} /\ ~succeeded'[w]
      BY <2>0, <2>3 DEF EndSync
    <3>2. qpc'[w] # "idle"
      BY <2>0, <2>3 DEF EndSync, Outcome, Q!SyncSucceeds, Q!SyncFails
    <3> QED
      BY <3>1, <3>2
  <2>4. CASE EndBatch(w)
    <3>1. qpc[w] = "next" /\ UNCHANGED <<pc, todo, succeeded>>
          /\ \A p \in Profiles : copy'[w][p] = NoRow
      BY <2>0, <2>4 DEF EndBatch, Q!Finish, linkVars
    <3>2. pc[w] = "idle" /\ ~succeeded[w] /\ todo[w] = {}
      BY <1>0, <2>0, <3>1 DEF Linked, Outcomes
    <3> QED
      BY <3>1, <3>2
  <2>5. CASE Die(w)
    BY <2>0, <2>5 DEF Die, P!EndRequest
  <2> QED
    BY <1>3, <2>1, <2>2, <2>3, <2>4, <2>5 DEF Handover
<1>4. \A v \in QueueWorkers : Fine(v)'
  BY <1>1, <1>2, <1>3, WhoIsTouched, SyncTouchesOne, HandoverTouchesOne
<1> QED
  BY <1>4 DEF Outcomes

(* A copy nobody touches stays safe.                                       *)
LEMMA CopyStaysSafe ==
    ASSUME MaxRun <= Lookback, BaseInv, PP!ExclusionInv, SyncInv, PP!GapInv',
           NEW v \in QueueWorkers, Untouched(v),
           [PP!Next]_(PP!vars) \/ UNCHANGED <<profiles, rec, stamp, since>>,
           NEW p \in Profiles, Held(v)', copy'[v][p] # NoRow
    PROVE  SafeAt(qrunAt[v], p, PlannedAt(qrunAt[v], copy[v][p]))'
<1>0. /\ PP!TypeOK /\ PP!GapInv /\ Outcomes /\ SessionSafe /\ QQ!Timely /\ QQ!TypeOK
      /\ now \in Nat /\ qrunAt[v] \in Nat /\ Lookback \in Nat
  BY SettingsAssumption
  DEF BaseInv, SyncInv, QueueInv, QQ!TypeInv, QQ!TypeOK, PP!TypeInv, PP!TypeOK
<1>1. /\ copy'[v][p] = copy[v][p] /\ Held(v) /\ copy[v][p] # NoRow
      /\ qpc[v] # "idle" /\ qrunAt'[v] = qrunAt[v]
  BY <1>0 DEF Untouched, Held, Outcomes
<1>2. PICK at \in Nat : at = qrunAt[v] /\ at <= now
  BY <1>0, <1>1 DEF QQ!Timely
<1>3. PICK row \in PP!Profile : row = copy[v][p] /\ row.watermark \in Nat /\ row.watermark <= now
  BY <1>0, <1>1 DEF PP!TypeOK, PP!Profile, PP!GapInv, PP!Past
<1>4. PICK t \in Nat : t = PlannedAt(at, row) /\ t <= now
  BY <1>0, <1>2, <1>3 DEF PlannedAt, Before
<1>5. SafeAt(at, p, t)
  BY <1>0, <1>1, <1>2, <1>3, <1>4 DEF SessionSafe
<1>6. SafeAt(at, p, t)'
  <2>1. CASE UNCHANGED <<profiles, rec, stamp, since>>
    BY <1>5, <2>1 DEF SafeAt, PP!Covered
  <2>2. CASE [PP!Next]_(PP!vars)
    BY <1>0, <1>2, <1>4, <1>5, <2>2, SafeKept
  <2> QED
    BY <2>1, <2>2
<1>7. qrunAt'[v] = at /\ PlannedAt(qrunAt[v], copy[v][p])' = t
  BY <1>1, <1>2, <1>3, <1>4 DEF PlannedAt, Before
<1> QED
  BY <1>6, <1>7 DEF SafeAt, PP!Covered

LEMMA SessionSafeKept ==
    ASSUME MaxRun <= Lookback, BaseInv, PP!ExclusionInv, SyncInv, PP!GapInv', [Next]_vars
    PROVE  SessionSafe'
<1>0. PP!GapInv /\ Outcomes /\ SessionSafe /\ PP!NoSilentGap /\ PP!NoSilentGap'
  BY DEF SyncInv, PP!GapInv
<1> DEFINE Fine(w) == \A p \in Profiles :
        Held(w) /\ copy[w][p] # NoRow
            => SafeAt(qrunAt[w], p, PlannedAt(qrunAt[w], copy[w][p]))
<1>1. ASSUME NEW v \in QueueWorkers, Untouched(v),
             [PP!Next]_(PP!vars) \/ UNCHANGED <<profiles, rec, stamp, since>>
      PROVE  Fine(v)'
  BY <1>1, CopyStaysSafe
<1>2. ASSUME NEW w \in QueueWorkers, NEW p \in Profiles,
             copy'[w][p].watermark = profiles'[p].watermark
      PROVE  SafeAt(qrunAt[w], p, PlannedAt(qrunAt[w], copy[w][p]))'
  BY <1>0, <1>2 DEF SafeAt, PlannedAt, PP!NoSilentGap, PP!Covered, PP!NoTime
<1>3. ASSUME NEW w \in QueueWorkers, Syncs(w)
      PROVE  Fine(w)'
  BY <1>0, <1>2, <1>3, OwnSync DEF Held
<1>4. ASSUME NEW w \in QueueWorkers, Handover(w)
      PROVE  Fine(w)'
  <2>0. /\ UNCHANGED <<profiles, rec, stamp, since>>
        /\ LinkTypes /\ Linked /\ QQ!TypeOK /\ PP!TypeOK
        /\ DOMAIN succeeded = QueueWorkers /\ DOMAIN pc = Sessions
        /\ DOMAIN copy = Sessions /\ w \in Sessions
    BY <1>4, HandoverEffect DEF BaseInv, QueueInv, QQ!TypeInv, PP!TypeInv, PP!TypeOK,
       LinkTypes, Sessions
  <2>1. ASSUME NEW p \in Profiles, Held(w), qrunAt'[w] = qrunAt[w],
               copy'[w][p] = copy[w][p], copy[w][p] # NoRow
        PROVE  SafeAt(qrunAt[w], p, PlannedAt(qrunAt[w], copy[w][p]))'
    <3>1. SafeAt(qrunAt[w], p, PlannedAt(qrunAt[w], copy[w][p]))
      BY <1>0, <2>1 DEF SessionSafe
    <3> QED
      BY <2>0, <2>1, <3>1 DEF SafeAt, PlannedAt, Before, PP!Covered
  <2>2. CASE Map(w)
    <3>1. qpc[w] = "next" /\ qrunAt' = qrunAt
      BY <2>2 DEF Map, Q!Check
    <3>2. Held(w)
      BY <2>0, <3>1 DEF Linked, Held
    <3>3. \A p \in Profiles : copy'[w][p] \in {NoRow, copy[w][p], profiles[p]}
      BY <1>4, HandoverEffect
    <3>4. ASSUME NEW p \in Profiles, copy'[w][p] # NoRow
          PROVE  SafeAt(qrunAt[w], p, PlannedAt(qrunAt[w], copy[w][p]))'
      <4>1. CASE copy'[w][p] = profiles[p]
        BY <1>2, <2>0, <4>1
      <4>2. CASE copy'[w][p] = copy[w][p]
        BY <2>1, <3>1, <3>2, <3>4, <4>2
      <4> QED
        BY <3>3, <3>4, <4>1, <4>2
    <3> QED
      BY <3>4
  <2>3. CASE StartSync(w)
    <3>1. pc'[w] = "next" /\ ~succeeded'[w]
      BY <2>0, <2>3 DEF StartSync
    <3> QED
      BY <3>1 DEF Held
  <2>4. CASE EndSync(w)
    <3>1. qrunAt' = qrunAt
      BY <2>4 DEF EndSync, Outcome, Q!SyncSucceeds, Q!SyncFails
    <3>2. CASE succeeded[w]
      <4>1. copy' = copy /\ Held(w)
        BY <2>4, <3>2 DEF EndSync, Held
      <4> QED
        BY <2>1, <3>1, <4>1
    <3>3. CASE ~succeeded[w]
      BY <2>0, <2>4, <3>3 DEF EndSync
    <3> QED
      BY <3>2, <3>3
  <2>5. CASE EndBatch(w) \/ Die(w)
    BY <2>0, <2>5 DEF EndBatch, Die, P!EndRequest
  <2> QED
    BY <1>4, <2>2, <2>3, <2>4, <2>5 DEF Handover
<1>5. \A w \in QueueWorkers : Handover(w) => UNCHANGED <<profiles, rec, stamp, since>>
  BY HandoverEffect
<1>6. \A v \in QueueWorkers : Fine(v)'
  BY <1>1, <1>3, <1>4, <1>5, WhoIsTouched, SyncTouchesOne, HandoverTouchesOne
<1> QED
  BY <1>6 DEF SessionSafe

LEMMA SyncAlways ==
    ASSUME MaxRun < LockTimeout, MaxRun <= Lookback
    PROVE  Spec => [](BaseInv /\ PP!ExclusionInv /\ SyncInv)
<1>1. Init => BaseInv /\ PP!ExclusionInv /\ SyncInv
  BY BaseInit, InitBoth, PollingSettings, PP!ExclusionInit, SyncInvInit
<1>2. BaseInv /\ PP!ExclusionInv /\ SyncInv /\ [Next]_vars => SyncInv'
  BY GapKept, OutcomesKept, SessionSafeKept DEF SyncInv
<1>3. BaseInv /\ PP!ExclusionInv /\ SyncInv /\ [Next]_vars
          => (BaseInv /\ PP!ExclusionInv /\ SyncInv)'
  BY <1>2, BaseNext, SyncExclusionNext
<1> QED
  BY <1>1, <1>3, PTL DEF Spec

(* Syncs on behalf of events open no gap below the watermark, although     *)
(* they read from a watermark their session may have loaded before others  *)
(* moved it, and move it to a time long past: if requests end before their *)
(* locks are stale and within one lookback.                                *)
THEOREM EventsLeaveNoGap ==
    ASSUME MaxRun < LockTimeout, MaxRun <= Lookback
    PROVE  Spec => []NoGapWithEvents
<1>1. Spec => [](BaseInv /\ PP!ExclusionInv /\ SyncInv)
  BY SyncAlways
<1>2. SyncInv => NoGapWithEvents
  BY DEF SyncInv, PP!GapInv, PP!NoSilentGap, PP!NoTime, NoGapWithEvents,
     P!NoSilentGap, P!NoTime
<1> QED
  BY <1>1, <1>2, PTL

-------------------------------------------------------------------------------
(* A processed event is in the intake records.  What an attempt has read   *)
(* of the event's item, or does not read because it is older than the      *)
(* watermark, is at least as new as the delivery it answers.               *)

Processed(k) == rows[k] # NoRow /\ rows[k].status = "processed"

Attempting == {"acquire", "refresh", "mark", "sync"}

(* What the event was about is stored, or was not new at the first run.    *)
Stored(k) ==
    \A p \in Profiles : /\ profiles[p].watermark # 0
                        /\ rec[ItemOf[k]] >= due[k] \/ due[k] <= since[p]

Fetched(w, k) ==
    \/ got[w][ItemOf[k]] >= due[k]
    \/ rec[ItemOf[k]] >= due[k]
    \/ \A p \in Profiles :
           due[k] <= IF profiles[p].watermark = 0 THEN planned[w] ELSE since[p]

DueKnown == \A k \in Keys : due[k] <= stamp[ItemOf[k]]

Matched ==
    \A w \in QueueWorkers : qpc[w] \in Attempting =>
        \A p \in Profiles : ItemOf[qcur[w]] \in Scope[p]

InHand ==
    \A w \in QueueWorkers :
        /\ pc[w] = "read" /\ ToolOf[ItemOf[qcur[w]]] \notin unread[w] => Fetched(w, qcur[w])
        /\ succeeded[w] => Stored(qcur[w])

AllStored == \A k \in Keys : Processed(k) => Stored(k)

StoredInv == DueKnown /\ Matched /\ InHand /\ AllStored

WholeInv == BaseInv /\ PP!ExclusionInv /\ SyncInv

(* The facts about types the steps below need.                             *)
LEMMA WholeTypes ==
    ASSUME WholeInv
    PROVE  /\ PP!TypeInv /\ PP!TypeOK /\ PP!GapInv /\ QQ!TypeInv /\ QQ!TypeOK
           /\ LinkTypes /\ Linked /\ Outcomes /\ PP!ProfileLockExclusion
           /\ \A i \in Items : rec[i] \in Nat /\ stamp[i] \in Nat /\ rec[i] <= stamp[i]
           /\ \A k \in Keys : due[k] \in Nat /\ ItemOf[k] \in Items
           /\ \A w \in QueueWorkers : qcur[w] \in Keys
           /\ \A p \in Profiles : since[p] \in Nat /\ profiles[p].watermark \in Nat
BY EventSyncAssumption
DEF WholeInv, BaseInv, SyncInv, QueueInv, QQ!TypeInv, QQ!TypeOK, PP!TypeInv, PP!TypeOK,
    LinkTypes, PP!Version, PP!Profile, PP!GapInv, PP!Past, PP!ExclusionInv

(* A stored event's due version is settled.                                *)
LEMMA DueFixed ==
    ASSUME WholeInv, [Next]_vars, NEW k \in Keys
    PROVE  /\ rows[k] # NoRow => due'[k] = due[k]
           /\ due'[k] = due[k] \/ due'[k] = stamp[ItemOf[k]]
<1>0. LinkTypes
  BY WholeTypes
<1>1. ASSUME NEW r \in Receivers, NEW j \in Keys, Deliver(r, j)
      PROVE  /\ rows[k] # NoRow => due'[k] = due[k]
             /\ due'[k] = due[k] \/ due'[k] = stamp[ItemOf[k]]
  BY <1>0, <1>1 DEF Deliver, Q!Lookup, LinkTypes
<1>2. ASSUME NEW r \in Receivers, Receive(r)
      PROVE  due' = due
  BY <1>2 DEF Receive, linkVars
<1>3. ASSUME NEW w \in QueueWorkers, QueueWorker(w) \/ Die(w)
      PROVE  due' = due
  BY <1>3 DEF QueueWorker, Map, StartSync, SyncStep, SyncCommits, SyncBreaks, EndSync,
     QueueStep, EndBatch, Die, linkVars
<1>4. ASSUME (\E w \in Pollers : Poller(w)) \/ Elapse \/ UNCHANGED vars
      PROVE  due' = due
  BY <1>4 DEF Poller, Elapse, vars, linkVars
<1> QED
  BY <1>1, <1>2, <1>3, <1>4 DEF Next

(* Rows of attempts exist.                                                 *)
LEMMA AttemptHasRow ==
    ASSUME WholeInv, NEW w \in QueueWorkers, qpc[w] \notin {"idle", "next"}
    PROVE  rows[qcur[w]] \in QQ!Row /\ qcopy[w][qcur[w]] \in QQ!Row /\ rows[qcur[w]] # NoRow
BY WholeTypes, QueueSettings DEF QQ!TypeInv, QQ!RowsInPlace, QQ!AtEvent, QQ!NullAssumption

(* What is stored stays stored.                                            *)
LEMMA StoredKept ==
    ASSUME WholeInv, [Next]_vars, NEW k \in Keys, rows[k] # NoRow, Stored(k)
    PROVE  Stored(k)'
<1>0. /\ PP!TypeInv /\ PP!GapInv /\ due'[k] = due[k] /\ ItemOf[k] \in Items
      /\ \A i \in Items : rec[i] \in Nat
      /\ due[k] \in Nat
  BY WholeTypes, DueFixed
<1>1. ASSUME UNCHANGED <<profiles, rec, since>> \/ SameMarks \/ TimePasses
      PROVE  Stored(k)'
  BY <1>0, <1>1 DEF Stored, SameMarks, TimePasses
<1>2. ASSUME NEW w \in Sessions, PP!SyncSucceeds(w)
      PROVE  Stored(k)'
  <2>1. ASSUME NEW p \in Profiles
        PROVE  /\ profiles'[p].watermark # 0
               /\ rec'[ItemOf[k]] >= due[k] \/ due[k] <= since'[p]
    <3>1. /\ cur[w] = p /\ pc[w] = "read" /\ profiles'[p].watermark = runAt[w]
          /\ profiles[p].watermark # 0 => since'[p] = since[p]
          /\ rec[ItemOf[k]] <= rec'[ItemOf[k]]
          /\ rec'[ItemOf[k]] <= stamp[ItemOf[k]]
      BY <1>0, <1>2, PollingSettings, OneProfile, PP!SuccessEffect DEF Sessions, PP!NoTime
    <3>2. runAt[w] > 0
      BY <3>1 DEF WholeInv, PP!ExclusionInv, PP!Timely, Sessions
    <3>3. rec'[ItemOf[k]] \in Nat
      BY BaseNext, <1>0 DEF WholeInv, BaseInv, PP!TypeInv, PP!TypeOK, PP!Version
    <3> QED
      BY <1>0, <3>1, <3>2, <3>3 DEF Stored
  <2> QED
    BY <1>0, <2>1 DEF Stored
<1>3. ASSUME NEW w \in QueueWorkers, Handover(w)
      PROVE  UNCHANGED <<profiles, rec, since>>
  BY <1>3, HandoverEffect DEF WholeInv
<1> QED
  BY <1>0, <1>1, <1>2, <1>3, PollingSteps, DataSteps

(* Only the end of a sync that has committed makes an event processed.     *)
LEMMA CommitRows ==
    ASSUME WholeInv, NEW w \in QueueWorkers, qpc[w] \notin {"idle", "next"},
           NEW new \in QQ!Row, Q!Commit(w, new),
           new.status = qcopy[w][qcur[w]].status \/ new.status # "processed",
           NEW k \in Keys, Processed(k)'
    PROVE  Processed(k)
<1>0. /\ rows[qcur[w]] \in QQ!Row /\ qcopy[w][qcur[w]] \in QQ!Row
      /\ rows[qcur[w]] # NoRow /\ qcur[w] \in Keys
      /\ rows \in [Keys -> QQ!Row \cup {NoRow}]
  BY AttemptHasRow, WholeTypes DEF QQ!TypeOK
<1>1. rows' = [rows EXCEPT ![qcur[w]] = Q!Flush(rows[qcur[w]], qcopy[w][qcur[w]], new)]
  BY <1>0 DEF Q!Commit
<1>2. CASE k # qcur[w]
  BY <1>0, <1>1, <1>2 DEF Processed
<1>3. CASE k = qcur[w]
  <2>1. rows'[k].status = IF new.status # qcopy[w][qcur[w]].status
                          THEN new.status ELSE rows[k].status
    BY <1>0, <1>1, <1>3 DEF Q!Flush, QQ!Row
  <2> QED
    BY <1>0, <1>3, <2>1 DEF Processed
<1> QED
  BY <1>2, <1>3

LEMMA RowStatus ==
    ASSUME NEW row \in QQ!Row, NEW s \in QQ!Status, NEW at \in Nat
    PROVE  /\ [row EXCEPT !.status = s] \in QQ!Row
           /\ [row EXCEPT !.status = s].status = s
           /\ [row EXCEPT !.lockedAt = at] \in QQ!Row
           /\ [row EXCEPT !.lockedAt = at].status = row.status
BY DEF QQ!Row

LEMMA OnlySuccess ==
    ASSUME WholeInv, [Next]_vars, NEW k \in Keys, Processed(k)'
    PROVE  \/ Processed(k)
           \/ \E w \in QueueWorkers : succeeded[w] /\ k = qcur[w] /\ qpc[w] = "sync"
<1>0. QQ!TypeOK /\ QQ!TypeInv /\ QQ!SettingsAssumption /\ rows \in [Keys -> QQ!Row \cup {NoRow}]
  BY WholeTypes, QueueSettings DEF QQ!TypeOK
<1>1. ASSUME rows' = rows
      PROVE  Processed(k)
  BY <1>1 DEF Processed
<1>2. ASSUME NEW r \in Receivers, Receive(r)
      PROVE  Processed(k)
  <2>1. rx[r] # NoRequest /\ rx[r].key \in Keys
    BY <1>0, <1>2 DEF Receive, Q!Insert, QQ!TypeOK
  <2>2. rows'[k] = rows[k] \/ (rows'[k].status \in {"queued", "skipped"})
    BY <1>0, <1>2, <2>1 DEF Receive, Q!Insert, Q!FirstInserted, Q!NewRow
  <2> QED
    BY <2>2 DEF Processed
<1>3. ASSUME NEW w \in QueueWorkers, NEW s \in {"failed", "skipped", "processing"},
             qpc[w] \notin {"idle", "next"},
             Q!Commit(w, [qcopy[w][qcur[w]] EXCEPT !.status = s])
      PROVE  Processed(k)
  BY <1>3, AttemptHasRow, RowStatus, CommitRows DEF QQ!Status
<1>4. ASSUME NEW w \in QueueWorkers, Q!MarkFailed(w) \/ Q!MarkSkipped(w) \/ Q!MarkProcessing(w)
      PROVE  Processed(k)
  BY <1>3, <1>4 DEF Q!MarkFailed, Q!MarkSkipped, Q!MarkProcessing
<1>5. ASSUME NEW w \in QueueWorkers, Q!Release(w)
      PROVE  Processed(k)
  <2>1. /\ qpc[w] \notin {"idle", "next"}
        /\ Q!Commit(w, [qcopy[w][qcur[w]] EXCEPT !.lockedAt = 0])
    BY <1>5 DEF Q!Release, Q!Unlocked, Q!NoTime
  <2>2. qcopy[w][qcur[w]] \in QQ!Row /\ "failed" \in QQ!Status
    BY <2>1, AttemptHasRow DEF QQ!Status
  <2>3. /\ [qcopy[w][qcur[w]] EXCEPT !.lockedAt = 0] \in QQ!Row
        /\ [qcopy[w][qcur[w]] EXCEPT !.lockedAt = 0].status = qcopy[w][qcur[w]].status
    BY <2>2, RowStatus
  <2> QED
    BY <2>1, <2>3, CommitRows
<1>6. ASSUME NEW w \in QueueWorkers, Q!RecordFailure(w)
      PROVE  Processed(k)
  <2>1. PICK row \in QQ!Row : row = qcopy[w][qcur[w]]
    BY <1>6, AttemptHasRow DEF Q!RecordFailure
  <2>2. qrunAt[w] \in Nat
    BY <1>0 DEF QQ!TypeOK
  <2>3. Q!AfterFailure(row, qrunAt[w]) = QQ!AfterFailure(row, qrunAt[w])
    BY DEF Q!AfterFailure, QQ!AfterFailure
  <2>4. Q!AfterFailure(row, qrunAt[w]) \in QQ!Row
    BY <2>1, <2>2, <2>3, QueueSettings, QQ!AfterFailureType
  <2>5. Q!AfterFailure(row, qrunAt[w]).status \in {"failed", "queued"}
    BY <2>1 DEF Q!AfterFailure, QQ!Row
  <2> QED
    BY <1>6, <2>1, <2>4, <2>5, CommitRows DEF Q!RecordFailure
<1>7. ASSUME NEW w \in QueueWorkers, Q!Acquire(w)
      PROVE  Processed(k)
  <2>1. rows[qcur[w]] \in QQ!Row /\ rows[qcur[w]] # NoRow /\ qcur[w] \in Keys
    BY <1>7, AttemptHasRow, WholeTypes DEF Q!Acquire
  <2>2. rows' = [rows EXCEPT ![qcur[w]] = [rows[qcur[w]] EXCEPT !.lockedAt = qrunAt[w]]]
    BY <1>0, <1>7, <2>1 DEF Q!Acquire
  <2>3. rows'[k] = rows[k] \/ (k = qcur[w] /\ rows'[k].status = rows[k].status)
    BY <1>0, <2>1, <2>2 DEF QQ!Row
  <2> QED
    BY <2>1, <2>3 DEF Processed
<1>8. ASSUME NEW w \in QueueWorkers, EndSync(w)
      PROVE  \/ Processed(k)
             \/ succeeded[w] /\ k = qcur[w] /\ qpc[w] = "sync"
  <2>1. CASE succeeded[w]
    <3>1. Q!SyncSucceeds(w) /\ qpc[w] = "sync" /\ qcur[w] \in Keys
      BY <1>8, <2>1, WholeTypes DEF EndSync, Outcome
    <3>2. k # qcur[w] => rows'[k] = rows[k]
      BY <1>0, <3>1 DEF Q!SyncSucceeds, Q!Commit
    <3> QED
      BY <2>1, <3>1, <3>2 DEF Processed
  <2>2. CASE ~succeeded[w]
    BY <1>1, <1>8, <2>2 DEF EndSync, Outcome, Q!SyncFails
  <2> QED
    BY <2>1, <2>2
<1>9. ASSUME NEW w \in QueueWorkers,
             \/ Map(w) \/ StartSync(w) \/ Syncs(w) \/ EndBatch(w) \/ Die(w)
             \/ Q!Start(w, FALSE) \/ Q!LockLost(w) \/ Q!Refresh(w)
      PROVE  rows' = rows
  <2>1. CASE Syncs(w)
    BY <2>1, SyncIsPolling DEF Syncs, queueVars
  <2> QED
    BY <1>9, <2>1 DEF Map, StartSync, EndBatch, Die, Q!Check, Q!Finish, Q!Crash, Q!Start,
       Q!LockLost, Q!Refresh, queueVars
<1>10. ASSUME NEW r \in Receivers, NEW j \in Keys, Deliver(r, j)
       PROVE  rows' = rows
  BY <1>10 DEF Deliver, Q!Lookup
<1>11. ASSUME (\E w \in Pollers : Poller(w)) \/ Elapse \/ UNCHANGED vars
       PROVE  rows' = rows
  BY <1>11 DEF Poller, Elapse, vars, queueVars
<1> QED
  BY <1>1, <1>2, <1>4, <1>5, <1>6, <1>7, <1>8, <1>9, <1>10, <1>11
  DEF Next, QueueWorker, QueueStep, Syncs

LEMMA StoredInvInit == Init => StoredInv
BY EventSyncAssumption
DEF Init, Q!Init, P!Init, P!Nothing, P!NoTime, StoredInv, DueKnown, Matched, InHand,
    AllStored, Processed, Attempting

LEMMA DueKnownKept ==
    ASSUME WholeInv, DueKnown, [Next]_vars
    PROVE  DueKnown'
<1>1. ASSUME NEW i \in Items
      PROVE  stamp'[i] \in Nat /\ stamp[i] <= stamp'[i]
  <2>1. stamp[i] \in Nat /\ stamp[i] <= now /\ now \in Nat
    BY WholeTypes DEF PP!GapInv, PP!Past, PP!TypeOK
  <2>2. stamp' = stamp \/ TimePasses
    <3>1. ASSUME NEW w \in Sessions, PP!SyncSucceeds(w)
          PROVE  stamp' = stamp
      BY <3>1 DEF PP!SyncSucceeds
    <3>2. ASSUME NEW w \in QueueWorkers, Handover(w)
          PROVE  stamp' = stamp
      BY <3>2, HandoverEffect DEF WholeInv
    <3> QED
      BY <3>1, <3>2, WholeTypes, PollingSteps, DataSteps DEF SameMarks
  <2> QED
    BY <2>1, <2>2 DEF TimePasses
<1>2. ASSUME NEW k \in Keys
      PROVE  due'[k] <= stamp'[ItemOf[k]]
  BY <1>1, WholeTypes, DueFixed DEF DueKnown
<1> QED
  BY <1>2 DEF DueKnown

(* An attempt is mapped to a profile that lists its item.                  *)
LEMMA MatchedKept ==
    ASSUME WholeInv, Matched, [Next]_vars
    PROVE  Matched'
<1>0. QQ!TypeOK /\ qpc \in [QueueWorkers -> QQ!Pc] /\ Linked
  BY WholeTypes DEF QQ!TypeOK
<1>1. ASSUME NEW v \in QueueWorkers, qcur'[v] = qcur[v],
             qpc'[v] \in Attempting => qpc[v] \in Attempting
      PROVE  qpc'[v] \in Attempting => \A p \in Profiles : ItemOf[qcur'[v]] \in Scope[p]
  BY <1>1 DEF Matched
<1>2. ASSUME NEW w \in QueueWorkers, Map(w), NEW v \in QueueWorkers, qpc'[v] \in Attempting
      PROVE  \A p \in Profiles : ItemOf[qcur'[v]] \in Scope[p]
  <2>1. CASE v = w
    <3>1. qpc'[w] = "acquire"
      BY <1>0, <1>2, <2>1 DEF Map, Q!Check, Q!Verdict, Attempting
    <3>2. Matching(qcur'[w]) # {}
      BY <1>2, <3>1 DEF Map
    <3> QED
      BY <2>1, <3>2, OneProfile DEF Matching
  <2>2. CASE v # w
    <3>1. qcur'[v] = qcur[v] /\ qpc'[v] = qpc[v]
      BY <1>0, <1>2, <2>2 DEF Map, Q!Check
    <3> QED
      BY <1>2, <3>1 DEF Matched
  <2> QED
    BY <2>1, <2>2
<1>3. ASSUME NEW w \in QueueWorkers, QueueStep(w), NEW v \in QueueWorkers
      PROVE  qcur'[v] = qcur[v] /\ (qpc'[v] \in Attempting => qpc[v] \in Attempting)
  BY <1>0, <1>3 DEF QueueStep, Q!Start, Q!MarkFailed, Q!MarkSkipped, Q!Acquire,
     Q!LockLost, Q!Refresh, Q!MarkProcessing, Q!RecordFailure, Q!Release, Attempting
<1>4. ASSUME NEW w \in QueueWorkers, EndSync(w), NEW v \in QueueWorkers
      PROVE  qcur'[v] = qcur[v] /\ (qpc'[v] \in Attempting => qpc[v] \in Attempting)
  BY <1>0, <1>4 DEF EndSync, Outcome, Q!SyncSucceeds, Q!SyncFails, Attempting
<1>5. ASSUME NEW w \in QueueWorkers, EndBatch(w) \/ Die(w), NEW v \in QueueWorkers,
             qpc'[v] \in Attempting
      PROVE  \A p \in Profiles : ItemOf[qcur'[v]] \in Scope[p]
  <2>1. Q!EndRequest(w)
    BY <1>5 DEF EndBatch, Die, Q!Finish, Q!Crash
  <2>2. v # w
    BY <1>0, <1>5, <2>1 DEF Q!EndRequest, Attempting
  <2>3. qcur'[v] = qcur[v] /\ qpc'[v] = qpc[v]
    BY <1>0, <2>1, <2>2 DEF Q!EndRequest, QQ!TypeOK
  <2> QED
    BY <1>5, <2>3 DEF Matched
<1>6. ASSUME UNCHANGED <<qpc, qcur>>
      PROVE  Matched'
  BY <1>6 DEF Matched
<1>7. ASSUME NEW w \in QueueWorkers, StartSync(w) \/ Syncs(w)
      PROVE  UNCHANGED <<qpc, qcur>>
  BY <1>7, SyncIsPolling DEF StartSync, Syncs, queueVars
<1>8. ASSUME NEW r \in Receivers, Receive(r) \/ \E k \in Keys : Deliver(r, k)
      PROVE  UNCHANGED <<qpc, qcur>>
  BY <1>8 DEF Receive, Deliver, Q!Insert, Q!Lookup, Q!workerVars
<1>9. ASSUME (\E w \in Pollers : Poller(w)) \/ Elapse \/ UNCHANGED vars
      PROVE  UNCHANGED <<qpc, qcur>>
  BY <1>9 DEF Poller, Elapse, vars, queueVars
<1>10. ASSUME NEW w \in QueueWorkers, QueueWorker(w) \/ Die(w)
       PROVE  Matched'
  <2>1. ASSUME \A v \in QueueWorkers : qpc'[v] \in Attempting =>
                   \A p \in Profiles : ItemOf[qcur'[v]] \in Scope[p]
        PROVE  Matched'
    BY <2>1 DEF Matched
  <2> QED
    BY <1>1, <1>2, <1>3, <1>4, <1>5, <1>6, <1>7, <1>10, <2>1 DEF QueueWorker, Syncs
<1> QED
  BY <1>6, <1>8, <1>9, <1>10 DEF Next

(* Reading a source brings what an event was about, unless it lies before  *)
(* the time read from; then it is stored already, or was not new at the    *)
(* profile's first run.                                                    *)
LEMMA ReadFetches ==
    ASSUME WholeInv, StoredInv, NEW w \in QueueWorkers, P!ReadSource(w), qpc[w] = "sync",
           UNCHANGED <<due, qcur>>, ToolOf[ItemOf[qcur[w]]] \notin unread'[w]
    PROVE  Fetched(w, qcur[w])'
<1> DEFINE k == qcur[w]
           i == ItemOf[qcur[w]]
<1>0. /\ PP!TypeOK /\ PP!GapInv /\ w \in Sessions /\ pc[w] = "read"
      /\ k \in Keys /\ i \in Items /\ due[k] \in Nat /\ due[k] <= stamp[i]
      /\ stamp[i] \in Nat /\ planned[w] \in Nat /\ cur[w] \in Profiles
      /\ rec[i] \in Nat /\ \A p \in Profiles : since[p] \in Nat
      /\ \A p \in Profiles : p = cur[w] /\ i \in Scope[p]
  <2>1. k \in Keys /\ PP!TypeOK /\ w \in Sessions /\ qpc[w] \in Attempting
    BY WholeTypes DEF Sessions, Attempting
  <2>2. cur[w] \in Profiles /\ planned[w] \in Nat
    BY <2>1 DEF PP!TypeOK, Sessions
  <2> QED
    BY <2>1, <2>2, WholeTypes, OneProfile DEF StoredInv, DueKnown, Matched, P!ReadSource
<1>1. UNCHANGED <<profiles, rec, stamp, planned, since>>
  BY DEF P!ReadSource, P!historyVars
<1>2. PICK t \in unread[w] :
          /\ unread' = [unread EXCEPT ![w] = @ \ {t}]
          /\ got' = [got EXCEPT ![w] = P!Listed(t, Scope[cur[w]], planned[w], @)]
  BY DEF P!ReadSource
<1>3. /\ unread'[w] = unread[w] \ {t}
      /\ got'[w][i] = IF ToolOf[i] = t /\ stamp[i] > planned[w] THEN stamp[i] ELSE got[w][i]
  BY <1>0, <1>2 DEF PP!TypeOK, P!Listed, Sessions
<1>4. CASE ToolOf[i] # t
  <2>1. Fetched(w, k) /\ got'[w][i] = got[w][i]
    BY <1>0, <1>3, <1>4 DEF StoredInv, InHand
  <2> QED
    BY <1>1, <2>1 DEF Fetched
<1>5. CASE ToolOf[i] = t /\ stamp[i] > planned[w]
  BY <1>0, <1>3, <1>5 DEF Fetched
<1>6. CASE ToolOf[i] = t /\ stamp[i] <= planned[w]
  <2>1. PP!Safe(w, cur[w], planned[w])
    BY <1>0 DEF PP!GapInv, PP!AtWorker, Sessions
  <2>2. CASE profiles[cur[w]].watermark = 0
    BY <1>0, <1>1, <1>6, <2>2 DEF Fetched
  <2>3. CASE profiles[cur[w]].watermark # 0
    <3>1. since[cur[w]] < stamp[i] => rec[i] = stamp[i]
      BY <1>0, <1>6, <2>1, <2>3 DEF PP!Safe, PP!Covered, PP!NoTime
    <3>2. rec[i] >= due[k] \/ due[k] <= since[cur[w]]
      BY <1>0, <3>1
    <3> QED
      BY <1>0, <1>1, <2>3, <3>2 DEF Fetched
  <2> QED
    BY <2>2, <2>3
<1> QED
  BY <1>0, <1>4, <1>5, <1>6

(* The commit stores what was fetched.                                     *)
LEMMA CommitStores ==
    ASSUME WholeInv, StoredInv, NEW w \in QueueWorkers, SyncCommits(w), qpc[w] = "sync",
           UNCHANGED qcur
    PROVE  Stored(qcur[w])'
<1> DEFINE k == qcur[w]
           i == ItemOf[qcur[w]]
<1>0. /\ PP!TypeInv /\ PP!GapInv /\ w \in Sessions /\ k \in Keys /\ i \in Items
      /\ due[k] \in Nat /\ rec[i] \in Nat /\ got[w] \in PP!Version
      /\ \A p \in Profiles : since[p] \in Nat
  BY WholeTypes DEF PP!TypeOK, Sessions
<1>1. /\ P!SyncSucceeds(w) /\ PP!SyncSucceeds(w) /\ due' = due
      /\ pc[w] = "read" /\ unread[w] = {}
  <2>1. P!SyncSucceeds(w) /\ due' = due
    BY DEF SyncCommits
  <2>2. PP!SyncSucceeds(w)
    BY <2>1 DEF P!SyncSucceeds, PP!SyncSucceeds, P!Stored, PP!Stored, P!Commit, PP!Commit,
       P!Flush, PP!Flush, P!AfterSuccess, PP!AfterSuccess, P!NoTime, PP!NoTime
  <2> QED
    BY <2>1, <2>2 DEF P!SyncSucceeds
<1>2. Fetched(w, k)
  BY <1>1 DEF StoredInv, InHand
<1>3. /\ cur[w] \in Profiles /\ profiles'[cur[w]].watermark = runAt[w]
      /\ since'[cur[w]] = IF profiles[cur[w]].watermark = 0
                          THEN planned[w] ELSE since[cur[w]]
      /\ rec[i] <= rec'[i] /\ rec'[i] <= stamp[i]
  BY <1>0, <1>1, PollingSettings, PP!SuccessEffect DEF Sessions, PP!NoTime
<1>4. rec'[i] = IF got[w][i] # 0 THEN got[w][i] ELSE rec[i]
  BY <1>0, <1>1 DEF P!SyncSucceeds, P!Stored, P!NoTime
<1>5. runAt[w] > 0
  BY <1>1 DEF WholeInv, PP!ExclusionInv, PP!Timely, Sessions
<1>6. rec'[i] >= due[k] \/ due[k] <= since'[cur[w]]
  <2>1. got[w][i] \in Nat
    BY <1>0 DEF PP!Version
  <2>2. CASE got[w][i] >= due[k]
    BY <1>0, <1>4, <2>1, <2>2
  <2>3. CASE rec[i] >= due[k]
    BY <1>0, <1>3, <1>4, <2>1, <2>3
  <2>4. CASE due[k] <= IF profiles[cur[w]].watermark = 0 THEN planned[w] ELSE since[cur[w]]
    BY <1>3, <2>4
  <2> QED
    BY <1>2, <1>3, <2>2, <2>3, <2>4 DEF Fetched
<1> QED
  BY <1>1, <1>3, <1>5, <1>6, OneProfile DEF Stored

LEMMA InHandKept ==
    ASSUME WholeInv, StoredInv, [Next]_vars
    PROVE  InHand'
<1>0. /\ PP!TypeInv /\ PP!TypeOK /\ PP!GapInv /\ Linked /\ Outcomes /\ LinkTypes
      /\ PP!ProfileLockExclusion /\ InHand
  BY WholeTypes DEF StoredInv
<1> DEFINE Fine(w) ==
       /\ pc[w] = "read" /\ ToolOf[ItemOf[qcur[w]]] \notin unread[w] => Fetched(w, qcur[w])
       /\ succeeded[w] => Stored(qcur[w])
<1>1. ASSUME NEW w \in QueueWorkers, pc[w] # "idle"
      PROVE  qpc[w] = "sync" /\ qcur[w] \in Keys /\ rows[qcur[w]] # NoRow
  BY <1>0, <1>1, WholeTypes, AttemptHasRow DEF Linked
<1>2. ASSUME NEW v \in QueueWorkers, Untouched(v),
             [PP!Next]_(PP!vars) \/ UNCHANGED <<profiles, rec, since>>
      PROVE  Fine(v)'
  <2>1. ASSUME succeeded'[v]
        PROVE  Stored(qcur[v])'
    <3>1. /\ succeeded[v] /\ qcur'[v] = qcur[v] /\ Stored(qcur[v])
          /\ qcur[v] \in Keys /\ rows[qcur[v]] # NoRow
      BY <1>0, <1>1, <1>2, <2>1 DEF Untouched, InHand, Outcomes
    <3>2. PICK k \in Keys : k = qcur[v]
      BY <3>1
    <3>3. Stored(k)'
      BY <3>1, <3>2, StoredKept
    <3> QED
      BY <3>1, <3>2, <3>3 DEF Stored
  <2>2. ASSUME pc'[v] = "read", ToolOf[ItemOf[qcur'[v]]] \notin unread'[v]
        PROVE  Fetched(v, qcur[v])'
    <3>1. /\ pc[v] = "read" /\ qcur'[v] = qcur[v] /\ Fetched(v, qcur[v])
          /\ qcur[v] \in Keys /\ rows[qcur[v]] # NoRow
          /\ got'[v] = got[v] /\ planned'[v] = planned[v]
      BY <1>0, <1>1, <1>2, <2>2 DEF Untouched, InHand
    <3>2. due'[qcur[v]] = due[qcur[v]]
      BY <3>1, DueFixed
    <3>3. ASSUME NEW u \in Sessions, PP!SyncSucceeds(u)
          PROVE  FALSE
      <4>1. cur[u] \in Profiles /\ cur[v] \in Profiles
        BY <1>0, <3>3 DEF PP!TypeOK, Sessions
      <4>2. u = v
        BY <1>0, <3>1, <3>3, <4>1, OneProfile
        DEF PP!ProfileLockExclusion, PP!InSection, PP!Section, PP!SyncSucceeds, Sessions
      <4> QED
        BY <1>0, <2>2, <3>3, <4>2 DEF PP!SyncSucceeds, PP!TypeOK, Sessions
    <3>4. /\ rec' = rec /\ since' = since
          /\ \A p \in Profiles : profiles'[p].watermark = profiles[p].watermark
      BY <1>0, <1>2, <3>3, DataSteps DEF SameMarks, TimePasses
    <3> QED
      BY <3>1, <3>2, <3>4 DEF Fetched
  <2> QED
    BY <2>1, <2>2
<1>3. ASSUME NEW w \in QueueWorkers, Syncs(w)
      PROVE  Fine(w)'
  <2>0. /\ pc[w] # "idle" /\ UNCHANGED <<qcur, due>> /\ qpc[w] = "sync"
        /\ qcur[w] \in Keys /\ rows[qcur[w]] # NoRow
    BY <1>1, <1>3, SyncIsPolling
    DEF queueVars, Syncs, SyncStep, SyncCommits, SyncBreaks, linkVars
  <2>1. ASSUME pc'[w] = "read", ToolOf[ItemOf[qcur[w]]] \notin unread'[w]
        PROVE  Fetched(w, qcur[w])'
    <3>1. P!Refresh(w) \/ P!ReadSource(w)
      BY <1>0, <1>3, <2>1 DEF Syncs, SyncStep, SyncCommits, SyncBreaks, P!Check, P!Acquire,
         P!LockLost, P!RecordFailure, P!Release, P!SyncSucceeds, P!SyncFails, PP!TypeOK
    <3>2. CASE P!Refresh(w)
      <4>1. unread'[w] = Tools
        BY <1>0, <3>2 DEF P!Refresh, PP!TypeOK, PP!GapInv, PP!Calm
      <4> QED
        BY <2>0, <2>1, <4>1, SettingsAssumption, EventSyncAssumption
    <3>3. CASE P!ReadSource(w)
      BY <2>0, <2>1, <3>3, ReadFetches
    <3> QED
      BY <3>1, <3>2, <3>3
  <2>2. ASSUME succeeded'[w]
        PROVE  Stored(qcur[w])'
    <3>1. CASE SyncCommits(w)
      BY <2>0, <3>1, CommitStores
    <3>2. CASE succeeded' = succeeded
      <4>1. Stored(qcur[w])
        BY <1>0, <2>2, <3>2 DEF InHand
      <4>2. PICK k \in Keys : k = qcur[w]
        BY <2>0
      <4>3. Stored(k)'
        BY <2>0, <4>1, <4>2, StoredKept
      <4> QED
        BY <2>0, <4>2, <4>3 DEF Stored
    <3> QED
      BY <1>3, <3>1, <3>2 DEF Syncs, SyncStep, SyncBreaks, linkVars
  <2> QED
    BY <2>0, <2>1, <2>2
<1>4. ASSUME NEW w \in QueueWorkers, Handover(w)
      PROVE  Fine(w)'
  <2>1. pc'[w] # "read"
    BY <1>4, HandoverEffect DEF WholeInv
  <2>2. ~succeeded'[w]
    <3>1. CASE StartSync(w) \/ EndSync(w) \/ Die(w)
      BY <1>0, <3>1 DEF StartSync, EndSync, Die, LinkTypes
    <3>2. CASE Map(w) \/ EndBatch(w)
      <4>1. qpc[w] = "next" /\ succeeded' = succeeded
        BY <3>2 DEF Map, Q!Check, EndBatch, Q!Finish, linkVars
      <4> QED
        BY <1>0, <4>1 DEF Linked, Outcomes
    <3> QED
      BY <1>4, <3>1, <3>2 DEF Handover
  <2> QED
    BY <2>1, <2>2
<1>5. \A w \in QueueWorkers : Handover(w) => UNCHANGED <<profiles, rec, since>>
  BY HandoverEffect DEF WholeInv
<1>6. \A v \in QueueWorkers : Fine(v)'
  BY <1>2, <1>3, <1>4, <1>5, WhoIsTouched, SyncTouchesOne, HandoverTouchesOne DEF WholeInv
<1> QED
  BY <1>6 DEF InHand

LEMMA AllStoredKept ==
    ASSUME WholeInv, StoredInv, [Next]_vars
    PROVE  AllStored'
<1>1. ASSUME NEW k \in Keys, Processed(k)'
      PROVE  Stored(k)'
  <2>1. CASE Processed(k)
    BY <2>1, StoredKept DEF StoredInv, AllStored, Processed
  <2>2. ASSUME NEW w \in QueueWorkers, succeeded[w], k = qcur[w], qpc[w] = "sync"
        PROVE  Stored(k)'
    <3>1. Stored(k) /\ rows[k] # NoRow
      BY <2>2, AttemptHasRow DEF StoredInv, InHand
    <3> QED
      BY <3>1, StoredKept
  <2> QED
    BY <1>1, <2>1, <2>2, OnlySuccess
<1> QED
  BY <1>1 DEF AllStored

LEMMA StoredAlways ==
    ASSUME MaxRun < LockTimeout, MaxRun <= Lookback
    PROVE  Spec => [](WholeInv /\ StoredInv)
<1>1. Spec => []WholeInv
  BY SyncAlways DEF WholeInv
<1>2. WholeInv /\ StoredInv /\ [Next]_vars => StoredInv'
  BY DueKnownKept, MatchedKept, InHandKept, AllStoredKept DEF StoredInv
<1> QED
  BY <1>1, <1>2, StoredInvInit, PTL DEF Spec

(* A processed event's change is stored, or was a lookback older than the  *)
(* first run of the profile, which none of its runs reads.                 *)
StoredUnlessOld ==
    \A k \in Keys : Processed(k) =>
        rec[ItemOf[k]] >= due[k] \/ \A p \in Profiles : due[k] <= since[p]

(* For every setting with runs shorter than the lock timeout and than the  *)
(* lookback: process_event marks an event processed only when the version  *)
(* of its item that the delivery told of, or a later one, is stored, or    *)
(* lies before the lookback of the first run.                              *)
THEOREM ProcessedIsSeen ==
    ASSUME MaxRun < LockTimeout, MaxRun <= Lookback
    PROVE  Spec => []StoredUnlessOld
<1>1. StoredInv => StoredUnlessOld
  BY OneProfile DEF StoredInv, AllStored, Stored, StoredUnlessOld
<1> QED
  BY <1>1, StoredAlways, PTL

-------------------------------------------------------------------------------
(* Where the lookback reaches to the beginning, nothing is that old.       *)

ReachesBack == now <= MaxTime /\ \A p \in Profiles : since[p] = 0

LEMMA NowBounded ==
    ASSUME WholeInv, now <= MaxTime, [Next]_vars
    PROVE  now' <= MaxTime
<1>0. now \in Nat /\ MaxTime \in Nat
  BY WholeTypes, SettingsAssumption DEF PP!TypeOK
<1>1. ASSUME Q!Next
      PROVE  now' = now \/ (now < MaxTime /\ now' = now + 1)
  BY <1>1
  DEF Q!Next, Q!Receive, Q!Insert, Q!Lookup, Q!Advance, Q!Finish, Q!Check, Q!MarkFailed,
      Q!MarkSkipped, Q!Acquire, Q!LockLost, Q!Refresh, Q!MarkProcessing, Q!SyncSucceeds,
      Q!SyncFails, Q!RecordFailure, Q!Release, Q!Crash, Q!Start, Q!ReplayRead,
      Q!ReplayWrite, Q!Tick
<1> QED
  BY <1>0, <1>1, QueueSteps DEF Q!vars

LEMMA ReachesBackKept ==
    ASSUME MaxTime \in 1 .. Lookback, WholeInv, ReachesBack, [Next]_vars
    PROVE  ReachesBack'
<1>0. PP!TypeInv /\ PP!TypeOK /\ PP!GapInv
  BY WholeTypes
<1>1. ASSUME NEW w \in Sessions, PP!SyncSucceeds(w)
      PROVE  \A p \in Profiles : since'[p] = 0
  <2>1. /\ cur[w] \in Profiles /\ pc[w] = "read"
        /\ since'[cur[w]] = IF profiles[cur[w]].watermark = 0
                            THEN planned[w] ELSE since[cur[w]]
    BY <1>0, <1>1, PollingSettings, PP!SuccessEffect DEF Sessions, PP!NoTime, PP!SyncSucceeds
  <2>2. profiles[cur[w]].watermark = 0 => planned[w] = PP!Lookbehind(w)
    BY <1>0, <2>1 DEF PP!GapInv, PP!AtWorker, PP!Safe, PP!NoTime, Sessions
  <2>3. runAt[w] \in Nat /\ runAt[w] <= MaxTime /\ now \in Nat
    BY <1>0, <2>1, SettingsAssumption
    DEF WholeInv, PP!ExclusionInv, PP!Timely, Sessions, PP!TypeOK, ReachesBack
  <2>4. PP!Lookbehind(w) = 0
    BY <2>3, SettingsAssumption DEF PP!Lookbehind
  <2>5. since'[cur[w]] = 0
    BY <2>1, <2>2, <2>4 DEF ReachesBack
  <2> QED
    BY <2>1, <2>5, OneProfile
<1>2. ASSUME NEW w \in QueueWorkers, Handover(w)
      PROVE  since' = since
  BY <1>2, HandoverEffect DEF WholeInv
<1>3. ASSUME SameMarks \/ TimePasses
      PROVE  since' = since
  BY <1>3 DEF SameMarks, TimePasses
<1>4. \A p \in Profiles : since'[p] = 0
  BY <1>0, <1>1, <1>2, <1>3, PollingSteps, DataSteps DEF ReachesBack
<1> QED
  BY <1>4, NowBounded DEF ReachesBack

(* For every setting with runs shorter than the lock timeout and than the  *)
(* lookback, over a time no longer than the lookback: a processed event is *)
(* in the intake records (process_event after run_sync_profile_once).      *)
THEOREM ProcessedAreStored ==
    ASSUME MaxRun < LockTimeout, MaxRun <= Lookback,
           MaxTime \in 1 .. Lookback
    PROVE  Spec => []ProcessedIsStored
<1>1. Init => ReachesBack
  BY SettingsAssumption DEF Init, P!Init, P!NoTime, ReachesBack
<1>2. WholeInv /\ ReachesBack /\ [Next]_vars => ReachesBack'
  BY ReachesBackKept
<1>3. WholeInv /\ StoredInv /\ ReachesBack => ProcessedIsStored
  BY WholeTypes, OneProfile
  DEF StoredInv, AllStored, Processed, Stored, ReachesBack, ProcessedIsStored
<1> QED
  BY <1>1, <1>2, <1>3, StoredAlways, PTL DEF Spec
===============================================================================
