-------------------------- MODULE PollingWorkerProofs --------------------------
(***************************************************************************)
(* Proofs about PollingWorker, for every set of profiles, items, tools and *)
(* workers and all settings: type correctness; the exclusion of the        *)
(* profile lock when no request outlives the lock timeout; that no lock is *)
(* left behind without a crash; and, under conditions named below, that    *)
(* the watermark hides no change and no record goes back.                  *)
(***************************************************************************)
EXTENDS PollingWorker, TLAPS

-------------------------------------------------------------------------------
(* What a commit does to a row.                                            *)

LEMMA FlushType ==
    ASSUME NEW row \in Profile, NEW cpy \in Profile, NEW new \in Profile
    PROVE  Flush(row, cpy, new) \in Profile
BY DEF Flush, Profile

(* A session that did not assign locked_at does not write it.              *)
LEMMA FlushKeepsLock ==
    ASSUME NEW row \in Profile, NEW cpy \in Profile, NEW new \in Profile,
           new.lockedAt = cpy.lockedAt
    PROVE  Flush(row, cpy, new).lockedAt = row.lockedAt
BY DEF Flush, Profile

LEMMA AfterSuccessType ==
    ASSUME NEW w \in Workers, NEW row \in Profile, runAt[w] \in Nat
    PROVE  /\ AfterSuccess(w, row) \in Profile
           /\ AfterSuccess(w, row).lockedAt = row.lockedAt
           /\ AfterSuccess(w, row).tools = row.tools
           /\ AfterSuccess(w, row).watermark = runAt[w]
<1>1. runAt[w] + Interval \in Nat
  BY PollingAssumption
<1> QED
  BY <1>1 DEF AfterSuccess, Profile

LEMMA NextRunType ==
    ASSUME NEW row \in Profile, NEW at \in Nat
    PROVE  /\ [row EXCEPT !.nextRun = at] \in Profile
           /\ [row EXCEPT !.nextRun = at].lockedAt = row.lockedAt
           /\ [row EXCEPT !.nextRun = at].tools = row.tools
           /\ [row EXCEPT !.nextRun = at].watermark = row.watermark
BY DEF Profile

LEMMA LockedType ==
    ASSUME NEW row \in Profile, NEW at \in Nat
    PROVE  /\ [row EXCEPT !.lockedAt = at] \in Profile
           /\ [row EXCEPT !.lockedAt = at].lockedAt = at
           /\ [row EXCEPT !.lockedAt = at].tools = row.tools
           /\ [row EXCEPT !.lockedAt = at].watermark = row.watermark
BY DEF Profile

LEMMA NewProfileType == NewProfile \in Profile
BY DEF NewProfile, Profile, NoTime

LEMMA AnyProfileType == AnyProfile \in Profiles
BY PollingAssumption DEF AnyProfile

LEMMA NothingType == Nothing \in Version
BY DEF Nothing, Version, NoTime

LEMMA ListedType ==
    ASSUME NEW t, NEW scope, NEW after, NEW old \in Version, stamp \in Version
    PROVE  Listed(t, scope, after, old) \in Version
BY DEF Listed, Version

LEMMA StoredType ==
    ASSUME NEW new \in Version, rec \in Version
    PROVE  Stored(new) \in Version
BY DEF Stored, Version

LEMMA SpentType ==
    ASSUME NEW s \in [patch : Nat, adhoc : Nat, crash : Nat]
    PROVE  /\ [s EXCEPT !.patch = s.patch + 1] \in [patch : Nat, adhoc : Nat, crash : Nat]
           /\ [s EXCEPT !.adhoc = s.adhoc + 1] \in [patch : Nat, adhoc : Nat, crash : Nat]
           /\ [s EXCEPT !.crash = s.crash + 1] \in [patch : Nat, adhoc : Nat, crash : Nat]
<1>1. s.patch + 1 \in Nat /\ s.adhoc + 1 \in Nat /\ s.crash + 1 \in Nat
  OBVIOUS
<1> QED
  BY <1>1

LEMMA PlannedType ==
    ASSUME NEW w \in Workers, NEW row \in Profile, runAt[w] \in Nat
    PROVE  PlannedWatermark(w, row) \in Nat
BY PollingAssumption DEF PlannedWatermark, Profile

-------------------------------------------------------------------------------
(* Type correctness, together with the fact that a worker at a profile has *)
(* loaded it.                                                              *)

AtProfile(w) == pc[w] \notin {"idle", "next"}

CopyInPlace == \A w \in Workers : AtProfile(w) => copy[w][cur[w]] \in Profile

TypeInv == TypeOK /\ CopyInPlace

LEMMA TypeInvInit == Init => TypeInv
<1> SUFFICES ASSUME Init
             PROVE  TypeInv
  OBVIOUS
<1>1. DueRequest \in [force : BOOLEAN, mock : BOOLEAN]
  BY DEF DueRequest
<1>2. TypeOK
  BY <1>1, NewProfileType, AnyProfileType, NothingType
     DEF Init, TypeOK, Pc, NoTime
<1>3. CopyInPlace
  BY DEF Init, CopyInPlace, AtProfile
<1> QED
  BY <1>2, <1>3 DEF TypeInv

(* A commit: the table and the copies keep their types.                    *)
LEMMA CommitType ==
    ASSUME TypeInv, NEW w \in Workers, AtProfile(w), NEW new \in Profile,
           Commit(w, new)
    PROVE  /\ profiles' \in [Profiles -> Profile]
           /\ copy' \in [Workers -> [Profiles -> Profile \cup {NoRow}]]
           /\ copy'[w][cur[w]] = new
           /\ \A v \in Workers \ {w} : copy'[v] = copy[v]
           /\ profiles'[cur[w]] = Flush(profiles[cur[w]], copy[w][cur[w]], new)
           /\ \A p \in Profiles \ {cur[w]} :
                  profiles'[p] = profiles[p] /\ copy'[w][p] = copy[w][p]
<1>1. cur[w] \in Profiles /\ profiles[cur[w]] \in Profile /\ copy[w][cur[w]] \in Profile
  BY DEF TypeInv, TypeOK, CopyInPlace
<1>2. Flush(profiles[cur[w]], copy[w][cur[w]], new) \in Profile
  BY <1>1, FlushType
<1>3. profiles' = [profiles EXCEPT ![cur[w]] =
                       Flush(profiles[cur[w]], copy[w][cur[w]], new)]
  BY <1>1 DEF Commit, TypeInv, TypeOK
<1>4. copy' = [copy EXCEPT ![w] = [copy[w] EXCEPT ![cur[w]] = new]]
  BY <1>1 DEF Commit, TypeInv, TypeOK
<1> QED
  BY <1>1, <1>2, <1>3, <1>4 DEF TypeInv, TypeOK

(* The step of one worker.                                                 *)
LEMMA WorkerStep ==
    ASSUME TypeInv, NEW w \in Workers, TypeOK',
           \A v \in Workers \ {w} :
               pc'[v] = pc[v] /\ cur'[v] = cur[v] /\ copy'[v] = copy[v],
           AtProfile(w)' => copy'[w][cur'[w]] \in Profile
    PROVE  TypeInv'
BY DEF TypeInv, CopyInPlace, AtProfile

(* A commit that moves the worker on and changes nothing else it has.      *)
LEMMA CommitStep ==
    ASSUME TypeInv, NEW w \in Workers, AtProfile(w), NEW new \in Profile,
           Commit(w, new),
           NEW next \in Pc, pc' = [pc EXCEPT ![w] = next],
           UNCHANGED <<stamp, now, req, runAt, todo, cur, planned, adhoc,
                       abandoned, spent>>,
           rec' \in Version, since' \in [Profiles -> Nat],
           unread' \in [Workers -> SUBSET Tools], got' \in [Workers -> Version]
    PROVE  TypeInv'
<1>1. /\ profiles' \in [Profiles -> Profile]
      /\ copy' \in [Workers -> [Profiles -> Profile \cup {NoRow}]]
      /\ copy'[w][cur[w]] = new
      /\ \A v \in Workers \ {w} : copy'[v] = copy[v]
  BY CommitType
<1>2. pc' \in [Workers -> Pc] /\ \A v \in Workers \ {w} : pc'[v] = pc[v]
  BY DEF TypeInv, TypeOK
<1>3. TypeOK'
  BY <1>1, <1>2 DEF TypeInv, TypeOK
<1> QED
  BY <1>1, <1>2, <1>3, WorkerStep

LEMMA TypeInvNext == TypeInv /\ [Next]_vars => TypeInv'
<1> SUFFICES ASSUME TypeInv, [Next]_vars
             PROVE  TypeInv'
  OBVIOUS
<1>0. TypeOK /\ CopyInPlace
  BY DEF TypeInv
<1>1. ASSUME NEW w \in Workers, NEW r, r \in [force : BOOLEAN, mock : BOOLEAN],
             NEW ps \in SUBSET Profiles, Begin(w, r, ps)
      PROVE  TypeInv'
  <2>1. /\ pc' = [pc EXCEPT ![w] = "next"] /\ pc' \in [Workers -> Pc]
        /\ req' \in [Workers -> [force : BOOLEAN, mock : BOOLEAN]]
        /\ runAt' \in [Workers -> Nat]
        /\ todo' \in [Workers -> SUBSET Profiles]
        /\ copy' \in [Workers -> [Profiles -> Profile \cup {NoRow}]]
    BY <1>0, <1>1 DEF Begin, TypeOK, Pc
  <2>2. /\ TypeOK'
        /\ \A v \in Workers \ {w} :
               pc'[v] = pc[v] /\ cur'[v] = cur[v] /\ copy'[v] = copy[v]
    BY <1>0, <1>1, <2>1 DEF Begin, TypeOK, historyVars
  <2>3. ~AtProfile(w)'
    BY <1>0, <2>1 DEF AtProfile, TypeOK
  <2> QED
    BY <2>2, <2>3, WorkerStep
<1>2. ASSUME NEW w \in Workers, EndRequest(w),
             UNCHANGED <<profiles, rec, stamp, now, adhoc, since>>,
             abandoned' \in SUBSET Profiles,
             spent' \in [patch : Nat, adhoc : Nat, crash : Nat]
      PROVE  TypeInv'
  <2>1. DueRequest \in [force : BOOLEAN, mock : BOOLEAN]
    BY DEF DueRequest
  <2>2. /\ pc' = [pc EXCEPT ![w] = "idle"] /\ pc' \in [Workers -> Pc]
        /\ req' \in [Workers -> [force : BOOLEAN, mock : BOOLEAN]]
        /\ runAt' \in [Workers -> Nat]
        /\ todo' \in [Workers -> SUBSET Profiles]
        /\ cur' \in [Workers -> Profiles]
        /\ copy' \in [Workers -> [Profiles -> Profile \cup {NoRow}]]
        /\ planned' \in [Workers -> Nat]
        /\ unread' \in [Workers -> SUBSET Tools]
        /\ got' \in [Workers -> Version]
    BY <1>0, <1>2, <2>1, AnyProfileType, NothingType DEF EndRequest, TypeOK, Pc, NoTime
  <2>3. \A v \in Workers \ {w} :
            pc'[v] = pc[v] /\ cur'[v] = cur[v] /\ copy'[v] = copy[v]
    BY <1>0, <1>2 DEF EndRequest, TypeOK
  <2>4. TypeOK'
    BY <1>0, <1>2, <2>2 DEF TypeOK
  <2>5. ~AtProfile(w)'
    BY <1>0, <2>2 DEF AtProfile, TypeOK
  <2> QED
    BY <2>3, <2>4, <2>5, WorkerStep
<1>3. ASSUME NEW w \in Workers, StartDue(w)
      PROVE  TypeInv'
  <2>1. DueRequest \in [force : BOOLEAN, mock : BOOLEAN]
    BY DEF DueRequest
  <2> QED
    BY <1>1, <1>3, <2>1 DEF StartDue
<1>4. ASSUME NEW w \in Workers, NEW p \in Profiles, StartOne(w, p)
      PROVE  TypeInv'
  BY <1>1, <1>4, PollingAssumption DEF StartOne
<1>5. ASSUME NEW w \in Workers, Finish(w)
      PROVE  TypeInv'
  BY <1>0, <1>2, <1>5 DEF Finish, historyVars, TypeOK
<1>6. ASSUME NEW w \in Workers, Crash(w)
      PROVE  TypeInv'
  <2>1. abandoned' \in SUBSET Profiles /\ spent' \in [patch : Nat, adhoc : Nat, crash : Nat]
    BY <1>0, <1>6, SpentType DEF Crash, TypeOK
  <2> QED
    BY <1>2, <1>6, <2>1 DEF Crash
<1>7. ASSUME NEW w \in Workers, Check(w)
      PROVE  TypeInv'
  <2> DEFINE row(p) == Loaded(profiles[p], copy[w][p], NoRow)
  <2>1. PICK p \in todo[w] :
            /\ pc' = [pc EXCEPT ![w] = IF Refused(w, row(p)) THEN "next" ELSE "acquire"]
            /\ planned' = [planned EXCEPT ![w] = PlannedWatermark(w, row(p))]
            /\ copy' = [copy EXCEPT ![w] =
                   [q \in Profiles |-> IF q = p THEN row(p)
                                       ELSE IF q \in todo[w] THEN @[q] ELSE NoRow]]
            /\ cur' = [cur EXCEPT ![w] = p]
            /\ todo' = [todo EXCEPT ![w] = @ \ {p}]
    BY <1>7 DEF Check
  <2>2. p \in Profiles
    BY <1>0 DEF TypeOK
  <2>3. row(p) \in Profile
    BY <1>0, <2>2 DEF Loaded, TypeOK
  <2>4. PlannedWatermark(w, row(p)) \in Nat
    BY <1>0, <2>3, PlannedType DEF TypeOK
  <2> HIDE DEF row
  <2>5. /\ pc' \in [Workers -> Pc]
        /\ planned' \in [Workers -> Nat]
        /\ todo' \in [Workers -> SUBSET Profiles]
    BY <1>0, <2>1, <2>4 DEF TypeOK, Pc
  <2>6. /\ copy' \in [Workers -> [Profiles -> Profile \cup {NoRow}]]
        /\ copy'[w][p] = row(p)
    BY <1>0, <2>1, <2>2, <2>3 DEF TypeOK
  <2>7. cur' \in [Workers -> Profiles] /\ cur'[w] = p
    BY <1>0, <2>1, <2>2 DEF TypeOK
  <2>8. \A v \in Workers \ {w} :
            pc'[v] = pc[v] /\ cur'[v] = cur[v] /\ copy'[v] = copy[v]
    BY <1>0, <2>1 DEF TypeOK
  <2>9. TypeOK'
    BY <1>0, <1>7, <2>5, <2>6, <2>7 DEF Check, TypeOK, historyVars
  <2> QED
    BY <2>3, <2>6, <2>7, <2>8, <2>9, WorkerStep
<1>8. ASSUME NEW w \in Workers, Acquire(w)
      PROVE  TypeInv'
  <2>1. cur[w] \in Profiles /\ profiles[cur[w]] \in Profile /\ runAt[w] \in Nat
    BY <1>0 DEF TypeOK
  <2>2. profiles' = [profiles EXCEPT ![cur[w]] = [profiles[cur[w]] EXCEPT !.lockedAt = runAt[w]]]
    BY <1>8, <2>1 DEF Acquire
  <2>3. profiles' \in [Profiles -> Profile]
    BY <1>0, <2>1, <2>2, LockedType DEF TypeOK
  <2>4. pc' \in [Workers -> Pc] /\ AtProfile(w)
    BY <1>0, <1>8 DEF Acquire, TypeOK, Pc, Section, AtProfile
  <2>5. TypeOK'
    BY <1>0, <1>8, <2>3, <2>4 DEF Acquire, TypeOK, historyVars
  <2>6. \A v \in Workers \ {w} :
            pc'[v] = pc[v] /\ cur'[v] = cur[v] /\ copy'[v] = copy[v]
    BY <1>0, <1>8 DEF Acquire, TypeOK
  <2>7. copy'[w][cur'[w]] \in Profile
    BY <1>0, <1>8, <2>4 DEF Acquire, CopyInPlace
  <2> QED
    BY <2>5, <2>6, <2>7, WorkerStep
<1>9. ASSUME NEW w \in Workers, LockLost(w) \/ Refresh(w) \/ SyncFails(w)
      PROVE  TypeInv'
  <2>1. cur[w] \in Profiles /\ profiles[cur[w]] \in Profile /\ profiles[cur[w]].tools \in SUBSET Tools
    BY <1>0 DEF TypeOK, Profile
  <2>2. /\ copy' \in [Workers -> [Profiles -> Profile \cup {NoRow}]]
        /\ copy'[w][cur[w]] = profiles[cur[w]]
        /\ \A v \in Workers \ {w} : copy'[v] = copy[v]
    <3>1. CASE SyncFails(w)
      BY <1>0, <2>1, <3>1 DEF SyncFails, TypeOK
    <3>2. CASE LockLost(w) \/ Refresh(w)
      <4>1. copy' = [copy EXCEPT ![w] = [copy[w] EXCEPT ![cur[w]] = profiles[cur[w]]]]
        BY <1>0, <3>2 DEF LockLost, Refresh, TypeOK
      <4> QED
        BY <1>0, <2>1, <4>1 DEF TypeOK
    <3> QED
      BY <1>9, <3>1, <3>2
  <2>3. /\ pc' \in [Workers -> Pc]
        /\ \A v \in Workers \ {w} : pc'[v] = pc[v]
    BY <1>0, <1>9 DEF LockLost, Refresh, SyncFails, TypeOK, Pc, Section
  <2>4. unread' \in [Workers -> SUBSET Tools] /\ got' \in [Workers -> Version]
    <3>1. CASE Refresh(w)
      BY <1>0, <2>1, <3>1, NothingType DEF Refresh, TypeOK
    <3>2. CASE LockLost(w) \/ SyncFails(w)
      BY <1>0, <3>2 DEF LockLost, SyncFails, TypeOK
    <3> QED
      BY <1>9, <3>1, <3>2
  <2>5. UNCHANGED <<profiles, rec, stamp, now, req, runAt, todo, cur, planned,
                    adhoc, since, abandoned, spent>>
    BY <1>9 DEF LockLost, Refresh, SyncFails, historyVars
  <2>6. TypeOK'
    BY <1>0, <2>2, <2>3, <2>4, <2>5 DEF TypeOK
  <2> QED
    BY <2>1, <2>2, <2>3, <2>5, <2>6, WorkerStep
<1>10. ASSUME NEW w \in Workers, ReadSource(w)
       PROVE  TypeInv'
  <2>1. PICK t \in unread[w] :
            /\ unread' = [unread EXCEPT ![w] = @ \ {t}]
            /\ got' = [got EXCEPT ![w] = Listed(t, Scope[cur[w]], planned[w], @)]
    BY <1>10 DEF ReadSource
  <2>2. Listed(t, Scope[cur[w]], planned[w], got[w]) \in Version
    BY <1>0, ListedType DEF TypeOK
  <2>3. unread' \in [Workers -> SUBSET Tools] /\ got' \in [Workers -> Version]
    BY <1>0, <2>1, <2>2 DEF TypeOK
  <2>4. TypeOK'
    BY <1>0, <1>10, <2>3 DEF ReadSource, TypeOK, historyVars
  <2>5. UNCHANGED <<pc, cur, copy>>
    BY <1>10 DEF ReadSource
  <2> QED
    BY <1>0, <2>4, <2>5 DEF TypeInv, CopyInPlace, AtProfile
<1>11. ASSUME NEW w \in Workers, SyncSucceeds(w)
       PROVE  TypeInv'
  <2>1. AtProfile(w) /\ copy[w][cur[w]] \in Profile
    BY <1>0, <1>11 DEF SyncSucceeds, AtProfile, CopyInPlace
  <2>2. AfterSuccess(w, copy[w][cur[w]]) \in Profile
    BY <1>0, <2>1, AfterSuccessType DEF TypeOK
  <2>3. rec' \in Version
    BY <1>0, <1>11, StoredType DEF SyncSucceeds, TypeOK
  <2>4. since' \in [Profiles -> Nat]
    BY <1>0, <1>11 DEF SyncSucceeds, TypeOK
  <2>5. /\ Commit(w, AfterSuccess(w, copy[w][cur[w]]))
        /\ pc' = [pc EXCEPT ![w] = "release"]
        /\ UNCHANGED <<stamp, now, req, runAt, todo, cur, planned, unread, got,
                       adhoc, abandoned, spent>>
    BY <1>11 DEF SyncSucceeds
  <2>6. "release" \in Pc
    BY DEF Pc, Section
  <2>7. unread' \in [Workers -> SUBSET Tools] /\ got' \in [Workers -> Version]
    BY <1>0, <2>5 DEF TypeOK
  <2> QED
    BY <2>1, <2>2, <2>3, <2>4, <2>5, <2>6, <2>7, CommitStep
<1>12. ASSUME NEW w \in Workers, RecordFailure(w)
       PROVE  TypeInv'
  <2>1. AtProfile(w) /\ copy[w][cur[w]] \in Profile
    BY <1>0, <1>12 DEF RecordFailure, AtProfile, CopyInPlace
  <2>2. runAt[w] + Interval \in Nat
    BY <1>0, PollingAssumption DEF TypeOK
  <2>3. [copy[w][cur[w]] EXCEPT !.nextRun = runAt[w] + Interval] \in Profile
    BY <2>1, <2>2, NextRunType
  <2>4. /\ Commit(w, [copy[w][cur[w]] EXCEPT !.nextRun = runAt[w] + Interval])
        /\ pc' = [pc EXCEPT ![w] = "release"]
        /\ UNCHANGED <<rec, stamp, now, req, runAt, todo, cur, planned, unread, got,
                       adhoc, since, abandoned, spent>>
    BY <1>12 DEF RecordFailure, historyVars
  <2>5. "release" \in Pc
    BY DEF Pc, Section
  <2>6. /\ rec' \in Version /\ since' \in [Profiles -> Nat]
        /\ unread' \in [Workers -> SUBSET Tools] /\ got' \in [Workers -> Version]
    BY <1>0, <2>4 DEF TypeOK
  <2> QED
    BY <2>1, <2>3, <2>4, <2>5, <2>6, CommitStep
<1>13. ASSUME NEW w \in Workers, Release(w)
       PROVE  TypeInv'
  <2>1. AtProfile(w) /\ copy[w][cur[w]] \in Profile
    BY <1>0, <1>13 DEF Release, AtProfile, CopyInPlace
  <2>2. [copy[w][cur[w]] EXCEPT !.lockedAt = NoTime] \in Profile
    BY <2>1, LockedType DEF NoTime
  <2>3. /\ Commit(w, [copy[w][cur[w]] EXCEPT !.lockedAt = NoTime])
        /\ pc' = [pc EXCEPT ![w] = "next"]
        /\ UNCHANGED <<rec, stamp, now, req, runAt, todo, cur, planned, adhoc,
                       since, abandoned, spent>>
    BY <1>13 DEF Release, historyVars
  <2>4. "next" \in Pc
    BY DEF Pc
  <2>5. /\ rec' \in Version /\ since' \in [Profiles -> Nat]
        /\ unread' \in [Workers -> SUBSET Tools] /\ got' \in [Workers -> Version]
    BY <1>0, <1>13, NothingType DEF Release, TypeOK, historyVars
  <2> QED
    BY <2>1, <2>2, <2>3, <2>4, <2>5, CommitStep
<1>14. ASSUME StartAdhoc \/ ReadAdhoc \/ CommitAdhoc
       PROVE  TypeInv'
  <2>1. adhoc' \in [unread : SUBSET Tools, got : Version] \cup {NoRequest}
    <3>1. CASE StartAdhoc
      BY <3>1, NothingType DEF StartAdhoc
    <3>2. CASE ReadAdhoc
      <4>1. adhoc \in [unread : SUBSET Tools, got : Version]
        BY <1>0, <3>2 DEF ReadAdhoc, TypeOK
      <4>2. PICK t \in adhoc.unread :
                adhoc' = [unread |-> adhoc.unread \ {t},
                          got    |-> Listed(t, Items, 0, adhoc.got)]
        BY <3>2 DEF ReadAdhoc
      <4>3. Listed(t, Items, 0, adhoc.got) \in Version
        BY <1>0, <4>1, ListedType DEF TypeOK
      <4> QED
        BY <4>1, <4>2, <4>3
    <3>3. CASE CommitAdhoc
      BY <3>3 DEF CommitAdhoc
    <3> QED
      BY <1>14, <3>1, <3>2, <3>3
  <2>2. rec' \in Version
    <3>1. CASE CommitAdhoc
      <4>1. adhoc.got \in Version
        BY <1>0, <3>1 DEF CommitAdhoc, TypeOK
      <4> QED
        BY <1>0, <3>1, <4>1, StoredType DEF CommitAdhoc, TypeOK
    <3> QED
      BY <1>0, <1>14, <3>1 DEF StartAdhoc, ReadAdhoc, TypeOK
  <2>3. spent' \in [patch : Nat, adhoc : Nat, crash : Nat]
    BY <1>0, <1>14 DEF StartAdhoc, ReadAdhoc, CommitAdhoc, TypeOK, historyVars
  <2>4. UNCHANGED <<profiles, stamp, now, workerVars, since, abandoned>>
    BY <1>14 DEF StartAdhoc, ReadAdhoc, CommitAdhoc, historyVars
  <2> QED
    BY <1>0, <2>1, <2>2, <2>3, <2>4
    DEF TypeInv, TypeOK, CopyInPlace, AtProfile, workerVars
<1>15. ASSUME NEW p \in Profiles, PatchProfile(p)
       PROVE  TypeInv'
  <2>1. PICK e \in BOOLEAN, ts \in SUBSET Tools, m \in {"mock", "live"} :
            profiles' = [profiles EXCEPT ![p].enabled = e, ![p].tools = ts, ![p].mode = m]
    BY <1>15 DEF PatchProfile
  <2>2. profiles' = [profiles EXCEPT ![p] =
            [[[profiles[p] EXCEPT !.enabled = e] EXCEPT !.tools = ts] EXCEPT !.mode = m]]
    BY <1>0, <2>1 DEF TypeOK
  <2>3. profiles[p] \in Profile
    BY <1>0 DEF TypeOK
  <2>4. [[[profiles[p] EXCEPT !.enabled = e] EXCEPT !.tools = ts] EXCEPT !.mode = m] \in Profile
    BY <2>3 DEF Profile
  <2>5. profiles' \in [Profiles -> Profile]
    BY <1>0, <2>2, <2>4 DEF TypeOK
  <2>6. spent' \in [patch : Nat, adhoc : Nat, crash : Nat]
    BY <1>0, <1>15, SpentType DEF PatchProfile, TypeOK
  <2>7. UNCHANGED <<rec, stamp, now, workerVars, adhoc, since, abandoned>>
    BY <1>15 DEF PatchProfile
  <2> QED
    BY <1>0, <2>5, <2>6, <2>7 DEF TypeInv, TypeOK, CopyInPlace, AtProfile, workerVars
<1>16. ASSUME (\E i \in Items : Update(i)) \/ Tick
       PROVE  TypeInv'
  <2>1. now' \in Nat \ {0} /\ stamp' \in Version
    <3>1. now \in Nat /\ now + 1 \in Nat \ {0}
      BY <1>0 DEF TypeOK
    <3>2. CASE Tick
      BY <1>0, <3>1, <3>2 DEF Tick, TypeOK
    <3>3. ASSUME NEW i \in Items, Update(i)
          PROVE  now' \in Nat \ {0} /\ stamp' \in Version
      BY <1>0, <3>1, <3>3 DEF Update, TypeOK, Version
    <3> QED
      BY <1>16, <3>2, <3>3
  <2>2. UNCHANGED <<profiles, rec, workerVars, adhoc, historyVars>>
    BY <1>16 DEF Update, Tick
  <2> QED
    BY <1>0, <2>1, <2>2
    DEF TypeInv, TypeOK, CopyInPlace, AtProfile, workerVars, historyVars
<1>17. ASSUME UNCHANGED vars
       PROVE  TypeInv'
  BY <1>0, <1>17 DEF vars, TypeInv, TypeOK, CopyInPlace, AtProfile, workerVars, historyVars
<1> QED
  BY <1>3, <1>4, <1>5, <1>6, <1>7, <1>8, <1>9, <1>10, <1>11, <1>12, <1>13, <1>14,
     <1>15, <1>16, <1>17
  DEF Next, Work, Advance

(* Every reachable state is well typed.                                    *)
THEOREM PollingTypeCorrectness == Spec => []TypeOK
<1>1. Spec => []TypeInv
  BY TypeInvInit, TypeInvNext, PTL DEF Spec
<1>2. TypeInv => TypeOK
  BY DEF TypeInv
<1> QED
  BY <1>1, <1>2, PTL

-------------------------------------------------------------------------------
(* Exclusion.  A request that lasts no longer than MaxRun is over before   *)
(* its lock is stale, so whoever is in the section still owns the lock.    *)

Timely ==
    \A w \in Workers : pc[w] # "idle" =>
        runAt[w] > 0 /\ runAt[w] <= now /\ now <= runAt[w] + MaxRun

LockHeld ==
    \A w \in Workers : pc[w] \in Section => profiles[cur[w]].lockedAt = runAt[w]

ExclusionInv == Timely /\ LockHeld /\ ProfileLockExclusion

LEMMA ExclusionInit == Init => ExclusionInv
BY DEF Init, ExclusionInv, Timely, LockHeld, ProfileLockExclusion, InSection, Section

(* Time: a request starts now, and the clock waits for it.                 *)
LEMMA TimelyNext == TypeInv /\ Timely /\ [Next]_vars => Timely'
<1> SUFFICES ASSUME TypeInv, Timely, [Next]_vars
             PROVE  Timely'
  OBVIOUS
<1> USE DEF TypeInv, TypeOK, Timely
<1>1. ASSUME NEW w \in Workers, StartDue(w) \/ \E p \in Profiles : StartOne(w, p)
      PROVE  Timely'
  <2>1. PICK r, ps : Begin(w, r, ps)
    BY <1>1 DEF StartDue, StartOne
  <2> QED
    BY <2>1, PollingAssumption DEF Begin
<1>2. ASSUME NEW w \in Workers, Finish(w) \/ Crash(w)
      PROVE  Timely'
  <2>1. pc' = [pc EXCEPT ![w] = "idle"] /\ runAt' = [runAt EXCEPT ![w] = NoTime] /\ now' = now
    BY <1>2 DEF Finish, Crash, EndRequest
  <2> QED
    BY <2>1
<1>3. ASSUME NEW w \in Workers,
             \/ Check(w)      \/ Acquire(w)      \/ LockLost(w)  \/ Refresh(w)
             \/ ReadSource(w) \/ SyncSucceeds(w) \/ SyncFails(w)
             \/ RecordFailure(w) \/ Release(w)
      PROVE  Timely'
  <2>1. /\ pc[w] # "idle" /\ now' = now /\ runAt' = runAt
        /\ \A v \in Workers \ {w} : pc'[v] = pc[v]
    BY <1>3 DEF Check, Acquire, LockLost, Refresh, ReadSource, SyncSucceeds,
                SyncFails, RecordFailure, Release
  <2> QED
    BY <2>1
<1>4. ASSUME Tick \/ \E i \in Items : Update(i)
      PROVE  Timely'
  BY <1>4, PollingAssumption DEF Tick, Update, TimeMayPass, workerVars
<1>5. ASSUME \/ StartAdhoc \/ ReadAdhoc \/ CommitAdhoc
             \/ \E p \in Profiles : PatchProfile(p)
             \/ UNCHANGED vars
      PROVE  Timely'
  BY <1>5 DEF StartAdhoc, ReadAdhoc, CommitAdhoc, PatchProfile, vars, workerVars
<1> QED
  BY <1>1, <1>2, <1>3, <1>4, <1>5 DEF Next, Work, Advance

(* What one commit does to the lock.                                       *)
LEMMA CommitLock ==
    ASSUME TypeInv, NEW w \in Workers, AtProfile(w), NEW new \in Profile,
           Commit(w, new)
    PROVE  /\ \A p \in Profiles \ {cur[w]} : profiles'[p] = profiles[p]
           /\ profiles'[cur[w]].lockedAt = IF new.lockedAt # copy[w][cur[w]].lockedAt
                                           THEN new.lockedAt ELSE profiles[cur[w]].lockedAt
           /\ cur[w] \in Profiles
<1>1. cur[w] \in Profiles /\ profiles[cur[w]] \in Profile /\ copy[w][cur[w]] \in Profile
  BY DEF TypeInv, TypeOK, CopyInPlace
<1>2. Flush(profiles[cur[w]], copy[w][cur[w]], new).lockedAt =
          IF new.lockedAt # copy[w][cur[w]].lockedAt
          THEN new.lockedAt ELSE profiles[cur[w]].lockedAt
  BY <1>1 DEF Flush, Profile
<1> QED
  BY <1>1, <1>2, CommitType

(* The commits that end a run, successful or not, leave the lock alone.    *)
LEMMA OutcomeKeepsLock ==
    ASSUME TypeInv, NEW w \in Workers, SyncSucceeds(w) \/ RecordFailure(w)
    PROVE  /\ \A p \in Profiles : profiles'[p].lockedAt = profiles[p].lockedAt
           /\ copy'[w][cur[w]].lockedAt = copy[w][cur[w]].lockedAt
           /\ \A v \in Workers \ {w} : pc'[v] = pc[v] /\ copy'[v] = copy[v]
           /\ pc[w] \in {"read", "fail"} /\ pc'[w] = "release"
           /\ UNCHANGED <<runAt, cur, abandoned>>
<1>0. TypeOK /\ CopyInPlace
  BY DEF TypeInv
<1>1. AtProfile(w) /\ copy[w][cur[w]] \in Profile /\ runAt[w] \in Nat
  BY <1>0 DEF SyncSucceeds, RecordFailure, AtProfile, CopyInPlace, TypeOK
<1>2. PICK new \in Profile : Commit(w, new) /\ new.lockedAt = copy[w][cur[w]].lockedAt
  <2>1. CASE SyncSucceeds(w)
    BY <1>1, <2>1, AfterSuccessType DEF SyncSucceeds
  <2>2. CASE RecordFailure(w)
    <3>1. runAt[w] + Interval \in Nat
      BY <1>1, PollingAssumption
    <3> QED
      BY <1>1, <2>2, <3>1, NextRunType DEF RecordFailure
  <2> QED
    BY <2>1, <2>2
<1>3. /\ \A p \in Profiles : profiles'[p].lockedAt = profiles[p].lockedAt
      /\ copy'[w][cur[w]].lockedAt = copy[w][cur[w]].lockedAt
      /\ \A v \in Workers \ {w} : copy'[v] = copy[v]
  BY <1>1, <1>2, CommitLock, CommitType
<1>4. pc' = [pc EXCEPT ![w] = "release"] /\ pc[w] \in {"read", "fail"}
  BY DEF SyncSucceeds, RecordFailure
<1>5. UNCHANGED <<runAt, cur, abandoned>>
  BY DEF SyncSucceeds, RecordFailure, historyVars
<1> QED
  BY <1>0, <1>3, <1>4, <1>5 DEF TypeOK, Pc, Section

(* PATCH leaves the lock alone.                                            *)
LEMMA PatchKeepsLock ==
    ASSUME TypeInv, NEW p \in Profiles, PatchProfile(p)
    PROVE  \A q \in Profiles : profiles'[q].lockedAt = profiles[q].lockedAt
<1>1. PICK e \in BOOLEAN, ts \in SUBSET Tools, m \in {"mock", "live"} :
          profiles' = [profiles EXCEPT ![p].enabled = e, ![p].tools = ts, ![p].mode = m]
  BY DEF PatchProfile
<1>2. profiles' = [profiles EXCEPT ![p] =
          [[[profiles[p] EXCEPT !.enabled = e] EXCEPT !.tools = ts] EXCEPT !.mode = m]]
  BY <1>1 DEF TypeInv, TypeOK
<1>3. profiles[p] \in Profile
  BY DEF TypeInv, TypeOK
<1>4. [[[profiles[p] EXCEPT !.enabled = e] EXCEPT !.tools = ts] EXCEPT !.mode = m].lockedAt
          = profiles[p].lockedAt
  BY <1>3 DEF Profile
<1> QED
  BY <1>2, <1>4 DEF TypeInv, TypeOK

LEMMA ExclusionNext ==
    ASSUME MaxRun < LockTimeout
    PROVE  TypeInv /\ ExclusionInv /\ [Next]_vars => ExclusionInv'
<1> SUFFICES ASSUME TypeInv, ExclusionInv, [Next]_vars
             PROVE  LockHeld' /\ ProfileLockExclusion'
  BY TimelyNext DEF ExclusionInv
<1>0. /\ Timely /\ LockHeld /\ ProfileLockExclusion
      /\ TypeOK /\ CopyInPlace
  BY DEF ExclusionInv, TypeInv
<1>1. ASSUME \A p \in Profiles : profiles'[p].lockedAt = profiles[p].lockedAt,
             \A v \in Workers : pc'[v] \in Section =>
                 pc[v] \in Section /\ cur'[v] = cur[v] /\ runAt'[v] = runAt[v]
      PROVE  LockHeld' /\ ProfileLockExclusion'
  <2>1. LockHeld'
    BY <1>0, <1>1 DEF LockHeld, TypeOK
  <2>2. ProfileLockExclusion'
    BY <1>0, <1>1 DEF ProfileLockExclusion, InSection
  <2> QED
    BY <2>1, <2>2
<1>2. ASSUME NEW w \in Workers, StartDue(w) \/ \E p \in Profiles : StartOne(w, p)
      PROVE  LockHeld' /\ ProfileLockExclusion'
  <2>1. PICK r, ps : Begin(w, r, ps)
    BY <1>2 DEF StartDue, StartOne
  <2>2. \A v \in Workers : pc'[v] \in Section => v # w /\ pc[v] \in Section
    BY <1>0, <2>1 DEF Begin, Section, TypeOK
  <2>3. \A v \in Workers \ {w} : runAt'[v] = runAt[v]
    BY <1>0, <2>1 DEF Begin, TypeOK
  <2> QED
    BY <1>1, <2>1, <2>2, <2>3 DEF Begin
<1>3. ASSUME NEW w \in Workers, Finish(w) \/ Crash(w)
      PROVE  LockHeld' /\ ProfileLockExclusion'
  <2>1. EndRequest(w) /\ profiles' = profiles
    BY <1>3 DEF Finish, Crash
  <2>2. \A v \in Workers : pc'[v] \in Section => v # w /\ pc[v] \in Section
    BY <1>0, <2>1 DEF EndRequest, Section, TypeOK
  <2>3. \A v \in Workers \ {w} : cur'[v] = cur[v] /\ runAt'[v] = runAt[v]
    BY <1>0, <2>1 DEF EndRequest, TypeOK
  <2> QED
    BY <1>1, <2>1, <2>2, <2>3
<1>4. ASSUME NEW w \in Workers, Check(w)
      PROVE  LockHeld' /\ ProfileLockExclusion'
  <2>1. pc'[w] \in {"next", "acquire"}
    BY <1>0, <1>4 DEF Check, TypeOK
  <2>2. \A v \in Workers \ {w} : pc'[v] = pc[v] /\ cur'[v] = cur[v]
    BY <1>0, <1>4 DEF Check, TypeOK
  <2>3. UNCHANGED <<profiles, runAt>>
    BY <1>4 DEF Check
  <2> QED
    BY <1>1, <2>1, <2>2, <2>3 DEF Section
<1>5. ASSUME NEW w \in Workers, Acquire(w)
      PROVE  LockHeld' /\ ProfileLockExclusion'
  <2>1. cur[w] \in Profiles /\ profiles[cur[w]] \in Profile /\ runAt[w] \in Nat /\ now \in Nat
    BY <1>0 DEF TypeOK
  <2>2. profiles' = [profiles EXCEPT ![cur[w]] =
                         [profiles[cur[w]] EXCEPT !.lockedAt = runAt[w]]]
    BY <1>0, <1>5, <2>1 DEF Acquire, TypeOK
  <2>3. /\ profiles'[cur[w]].lockedAt = runAt[w]
        /\ \A p \in Profiles \ {cur[w]} : profiles'[p] = profiles[p]
    BY <1>0, <2>1, <2>2, LockedType DEF TypeOK
  <2>4. /\ pc'[w] = "refresh" /\ \A v \in Workers \ {w} : pc'[v] = pc[v]
        /\ pc[w] = "acquire"
        /\ UNCHANGED <<runAt, cur>>
    BY <1>0, <1>5 DEF Acquire, TypeOK
  <2>5. ASSUME NEW v \in Workers, InSection(v, cur[w])
        PROVE  FALSE
    <3>1. profiles[cur[w]].lockedAt = runAt[v]
      BY <1>0, <2>5 DEF LockHeld, InSection
    <3>2. /\ runAt[v] \in Nat /\ runAt[v] > 0 /\ now <= runAt[v] + MaxRun
          /\ runAt[w] <= now
      BY <1>0, <2>4, <2>5 DEF Timely, InSection, Section, TypeOK
    <3>3. profiles[cur[w]].lockedAt = 0 \/ profiles[cur[w]].lockedAt + LockTimeout <= runAt[w]
      BY <1>5 DEF Acquire, LockFree, NoTime
    <3> QED
      BY <2>1, <3>1, <3>2, <3>3, PollingAssumption
  <2>6. LockHeld'
    BY <1>0, <2>1, <2>3, <2>4, <2>5 DEF LockHeld, InSection, TypeOK
  <2>7. ProfileLockExclusion'
    BY ZenonT(60), <1>0, <2>4, <2>5 DEF ProfileLockExclusion, InSection, TypeOK
  <2> QED
    BY <2>6, <2>7
<1>6. ASSUME NEW w \in Workers,
             LockLost(w) \/ Refresh(w) \/ ReadSource(w) \/ SyncFails(w)
      PROVE  LockHeld' /\ ProfileLockExclusion'
  <2>1. \A v \in Workers : pc'[v] \in Section => pc[v] \in Section
    BY <1>0, <1>6 DEF LockLost, Refresh, ReadSource, SyncFails, Section, TypeOK
  <2>2. UNCHANGED <<profiles, runAt, cur>>
    BY <1>6 DEF LockLost, Refresh, ReadSource, SyncFails
  <2> QED
    BY <1>1, <2>1, <2>2
<1>7. ASSUME NEW w \in Workers, SyncSucceeds(w) \/ RecordFailure(w)
      PROVE  LockHeld' /\ ProfileLockExclusion'
  BY <1>1, <1>7, OutcomeKeepsLock DEF Section
<1>8. ASSUME NEW w \in Workers, Release(w)
      PROVE  LockHeld' /\ ProfileLockExclusion'
  <2>1. /\ pc[w] \in Section /\ pc'[w] = "next"
        /\ \A v \in Workers \ {w} : pc'[v] = pc[v]
        /\ UNCHANGED <<runAt, cur>>
    BY <1>0, <1>8 DEF Release, TypeOK, Section
  <2>2. \A p \in Profiles \ {cur[w]} : profiles'[p] = profiles[p]
    BY <1>0, <1>8 DEF Release, Commit, TypeOK
  <2>3. \A v \in Workers : pc'[v] \in Section => v # w /\ pc[v] \in Section
    BY <2>1 DEF Section
  <2>4. \A v \in Workers : pc'[v] \in Section => cur[v] # cur[w]
    BY <1>0, <2>1, <2>3 DEF ProfileLockExclusion, InSection, TypeOK
  <2>5. LockHeld'
    BY <1>0, <2>1, <2>2, <2>3, <2>4 DEF LockHeld, TypeOK
  <2>6. ProfileLockExclusion'
    BY <1>0, <2>1, <2>3 DEF ProfileLockExclusion, InSection
  <2> QED
    BY <2>5, <2>6
<1>9. ASSUME NEW p \in Profiles, PatchProfile(p)
      PROVE  LockHeld' /\ ProfileLockExclusion'
  BY <1>1, <1>9, PatchKeepsLock DEF PatchProfile, workerVars
<1>10. ASSUME \/ StartAdhoc \/ ReadAdhoc \/ CommitAdhoc
              \/ (\E i \in Items : Update(i)) \/ Tick \/ UNCHANGED vars
       PROVE  LockHeld' /\ ProfileLockExclusion'
  BY <1>1, <1>10
  DEF StartAdhoc, ReadAdhoc, CommitAdhoc, Update, Tick, vars, workerVars
<1> QED
  BY <1>2, <1>3, <1>4, <1>5, <1>6, <1>7, <1>8, <1>9, <1>10 DEF Next, Work, Advance

(* If every request ends before its lock is stale, no two sessions run one *)
(* profile at a time, whatever is patched meanwhile.                       *)
THEOREM ProfileExclusion ==
    ASSUME MaxRun < LockTimeout
    PROVE  Spec => []ProfileLockExclusion
<1>1. Init => TypeInv /\ ExclusionInv
  BY TypeInvInit, ExclusionInit
<1>2. TypeInv /\ ExclusionInv /\ [Next]_vars => (TypeInv /\ ExclusionInv)'
  BY TypeInvNext, ExclusionNext
<1>3. ExclusionInv => ProfileLockExclusion
  BY DEF ExclusionInv
<1> QED
  BY <1>1, <1>2, <1>3, PTL DEF Spec

-------------------------------------------------------------------------------
(* No lock is left behind without a crash, whatever goes stale and is      *)
(* taken over.  A lock in the row has a worker that will clear it: one     *)
(* whose copy shows a lock, or is about to be refreshed while it is there. *)

WillUnlock(w, p) ==
    InSection(w, p) /\ (pc[w] = "refresh" \/ copy[w][p].lockedAt # NoTime)

LockOwned ==
    \A p \in Profiles \ abandoned :
        profiles[p].lockedAt # NoTime => \E w \in Workers : WillUnlock(w, p)

LEMMA LockOwnedInit == Init => LockOwned
BY DEF Init, LockOwned, NewProfile

(* A step by which no worker ceases to own a lock, and no row gets one.    *)
LEMMA NobodyLeaves ==
    ASSUME LockOwned, NEW w \in Workers, abandoned \subseteq abandoned',
           \A v \in Workers \ {w} :
               pc'[v] = pc[v] /\ cur'[v] = cur[v] /\ copy'[v] = copy[v],
           \A p \in Profiles \ abandoned' :
               /\ WillUnlock(w, p) /\ profiles'[p].lockedAt # NoTime => WillUnlock(w, p)'
               /\ profiles'[p].lockedAt # NoTime => profiles[p].lockedAt # NoTime
    PROVE  LockOwned'
<1>1. \A p \in Profiles, v \in Workers \ {w} : WillUnlock(v, p) => WillUnlock(v, p)'
  BY DEF WillUnlock, InSection
<1> QED
  BY <1>1 DEF LockOwned

LEMMA LockOwnedNext == TypeInv /\ LockOwned /\ [Next]_vars => LockOwned'
<1> SUFFICES ASSUME TypeInv, LockOwned, [Next]_vars
             PROVE  LockOwned'
  OBVIOUS
<1>0. TypeOK /\ CopyInPlace
  BY DEF TypeInv
<1>1. ASSUME UNCHANGED <<pc, cur, copy, abandoned>>,
             \A p \in Profiles : profiles'[p].lockedAt = profiles[p].lockedAt
      PROVE  LockOwned'
  BY <1>1 DEF LockOwned, WillUnlock, InSection
<1>2. ASSUME NEW w \in Workers, StartDue(w) \/ \E p \in Profiles : StartOne(w, p)
      PROVE  LockOwned'
  <2>1. PICK r, ps : Begin(w, r, ps)
    BY <1>2 DEF StartDue, StartOne
  <2>2. pc[w] = "idle" /\ UNCHANGED <<profiles, cur, abandoned>>
    BY <2>1 DEF Begin, historyVars
  <2>3. \A v \in Workers \ {w} : pc'[v] = pc[v] /\ copy'[v] = copy[v]
    BY <1>0, <2>1 DEF Begin, TypeOK
  <2> QED
    BY <2>2, <2>3, NobodyLeaves DEF WillUnlock, InSection, Section
<1>3. ASSUME NEW w \in Workers, Finish(w) \/ Crash(w)
      PROVE  LockOwned'
  <2>1. EndRequest(w) /\ profiles' = profiles /\ abandoned \subseteq abandoned'
    BY <1>3 DEF Finish, Crash, historyVars
  <2>2. \A v \in Workers \ {w} : pc'[v] = pc[v] /\ cur'[v] = cur[v] /\ copy'[v] = copy[v]
    BY <1>0, <2>1 DEF EndRequest, TypeOK
  <2>3. \A p \in Profiles \ abandoned' : ~InSection(w, p)
    BY <1>3 DEF Finish, Crash, InSection, Section
  <2> QED
    BY <2>1, <2>2, <2>3, NobodyLeaves DEF WillUnlock
<1>4. ASSUME NEW w \in Workers, Check(w)
      PROVE  LockOwned'
  <2>1. pc[w] = "next" /\ UNCHANGED <<profiles, abandoned>>
    BY <1>4 DEF Check, historyVars
  <2>2. \A v \in Workers \ {w} : pc'[v] = pc[v] /\ cur'[v] = cur[v] /\ copy'[v] = copy[v]
    BY <1>0, <1>4 DEF Check, TypeOK
  <2> QED
    BY <2>1, <2>2, NobodyLeaves DEF WillUnlock, InSection, Section
<1>5. ASSUME NEW w \in Workers, Acquire(w)
      PROVE  LockOwned'
  <2>1. cur[w] \in Profiles /\ pc[w] = "acquire" /\ pc'[w] = "refresh"
    BY <1>0, <1>5 DEF Acquire, TypeOK
  <2>2. \A p \in Profiles \ {cur[w]} : profiles'[p] = profiles[p]
    BY <1>0, <1>5 DEF Acquire, TypeOK
  <2>3. UNCHANGED <<cur, copy, abandoned>> /\ \A v \in Workers \ {w} : pc'[v] = pc[v]
    BY <1>0, <1>5 DEF Acquire, TypeOK, historyVars
  <2>4. WillUnlock(w, cur[w])'
    BY <2>1, <2>3 DEF WillUnlock, InSection, Section
  <2>5. \A p \in Profiles, v \in Workers : WillUnlock(v, p) => WillUnlock(v, p)'
    BY <2>1, <2>3, <2>4 DEF WillUnlock, InSection, Section
  <2> QED
    BY <2>1, <2>2, <2>3, <2>4, <2>5 DEF LockOwned
<1>6. ASSUME NEW w \in Workers, LockLost(w)
      PROVE  LockOwned'
  <2>1. pc[w] = "acquire" /\ UNCHANGED <<profiles, cur, abandoned>>
    BY <1>6 DEF LockLost, historyVars
  <2>2. \A v \in Workers \ {w} : pc'[v] = pc[v] /\ copy'[v] = copy[v]
    BY <1>0, <1>6 DEF LockLost, TypeOK
  <2> QED
    BY <2>1, <2>2, NobodyLeaves DEF WillUnlock, InSection, Section
<1>7. ASSUME NEW w \in Workers, Refresh(w) \/ SyncFails(w)
      PROVE  LockOwned'
  <2>1. cur[w] \in Profiles /\ UNCHANGED <<profiles, cur, abandoned>>
    BY <1>0, <1>7 DEF Refresh, SyncFails, TypeOK, historyVars
  <2>2. \A v \in Workers \ {w} : pc'[v] = pc[v] /\ copy'[v] = copy[v]
    BY <1>0, <1>7 DEF Refresh, SyncFails, TypeOK
  <2>3. pc[w] \in Section /\ pc'[w] \in Section
    BY <1>0, <1>7 DEF Refresh, SyncFails, TypeOK, Section
  <2>4. copy'[w][cur[w]] = profiles[cur[w]]
    BY <1>0, <1>7, <2>1 DEF Refresh, SyncFails, TypeOK
  <2> QED
    BY <2>1, <2>2, <2>3, <2>4, NobodyLeaves DEF WillUnlock, InSection
<1>8. ASSUME NEW w \in Workers, ReadSource(w)
      PROVE  LockOwned'
  BY <1>1, <1>8 DEF ReadSource, historyVars
<1>9. ASSUME NEW w \in Workers, SyncSucceeds(w) \/ RecordFailure(w)
      PROVE  LockOwned'
  BY <1>9, OutcomeKeepsLock, NobodyLeaves DEF WillUnlock, InSection, Section
<1>10. ASSUME NEW w \in Workers, Release(w)
       PROVE  LockOwned'
  <2>1. AtProfile(w) /\ copy[w][cur[w]] \in Profile /\ pc[w] = "release"
    BY <1>0, <1>10 DEF Release, AtProfile, CopyInPlace
  <2> DEFINE new == [copy[w][cur[w]] EXCEPT !.lockedAt = NoTime]
  <2>2. new \in Profile /\ new.lockedAt = NoTime
    BY <2>1, LockedType DEF NoTime
  <2>3. Commit(w, new)
    BY <1>10 DEF Release
  <2> HIDE DEF new
  <2>4. /\ \A p \in Profiles \ {cur[w]} : profiles'[p] = profiles[p]
        /\ profiles'[cur[w]].lockedAt = IF copy[w][cur[w]].lockedAt # NoTime
                                        THEN NoTime ELSE profiles[cur[w]].lockedAt
    BY <2>1, <2>2, <2>3, CommitLock
  <2>5. \A v \in Workers \ {w} : pc'[v] = pc[v] /\ copy'[v] = copy[v]
    BY <1>0, <1>10, <2>1, <2>2, <2>3, CommitType DEF Release, TypeOK
  <2>6. UNCHANGED <<cur, abandoned>>
    BY <1>10 DEF Release, historyVars
  <2> QED
    BY <2>1, <2>4, <2>5, <2>6, NobodyLeaves DEF WillUnlock, InSection
<1>11. ASSUME NEW p \in Profiles, PatchProfile(p)
       PROVE  LockOwned'
  BY <1>1, <1>11, PatchKeepsLock DEF PatchProfile, workerVars
<1>12. ASSUME \/ StartAdhoc \/ ReadAdhoc \/ CommitAdhoc
              \/ (\E i \in Items : Update(i)) \/ Tick \/ UNCHANGED vars
       PROVE  LockOwned'
  BY <1>1, <1>12
  DEF StartAdhoc, ReadAdhoc, CommitAdhoc, Update, Tick, vars, workerVars, historyVars
<1> QED
  BY <1>2, <1>3, <1>4, <1>5, <1>6, <1>7, <1>8, <1>9, <1>10, <1>11, <1>12
  DEF Next, Work, Advance

(* A locked profile whose worker has not died is being run.  No timing is  *)
(* assumed: locks may go stale and be taken over.                          *)
THEOREM ProfileLockHolder == Spec => []ProfileLockHasHolder
<1>1. Init => TypeInv /\ LockOwned
  BY TypeInvInit, LockOwnedInit
<1>2. TypeInv /\ LockOwned /\ [Next]_vars => (TypeInv /\ LockOwned)'
  BY TypeInvNext, LockOwnedNext
<1>3. LockOwned => ProfileLockHasHolder
  BY DEF LockOwned, ProfileLockHasHolder, WillUnlock
<1> QED
  BY <1>1, <1>2, <1>3, PTL DEF Spec
-------------------------------------------------------------------------------
(* The watermark: that it hides no change of the source, and that no       *)
(* record falls back to an older version of its item.  The reason is that  *)
(* a run lists all that changed since a time up to which everything is     *)
(* already stored, and stores it before it moves the watermark; the lock   *)
(* keeps every other writer of the profile away in between.                *)

(* The parts of the inductive invariant.                                   *)

DisjointScopes == \A p, q \in Profiles : p # q => Scope[p] \cap Scope[q] = {}

(* Everything the source holds for p since its first lookback, as far as   *)
(* time t, is stored.                                                      *)
Covered(p, t) ==
    \A i \in Scope[p] : since[p] < stamp[i] /\ stamp[i] <= t => rec[i] = stamp[i]

Lookbehind(w) == IF runAt[w] > Lookback THEN runAt[w] - Lookback ELSE 0

(* Reading what is newer than t misses nothing: t is the first lookback,   *)
(* or all up to t is stored already.                                       *)
Safe(w, p, t) ==
    IF profiles[p].watermark = NoTime THEN t = Lookbehind(w) ELSE Covered(p, t)

(* Nobody has switched a source off or begun an ad-hoc sync.               *)
Calm == adhoc = NoRequest /\ \A p \in Profiles : profiles[p].tools = Tools

CopyFresh ==
    \A w \in Workers : pc[w] \in {"read", "fail", "release"} =>
        copy[w][cur[w]] = profiles[cur[w]]

(* Nothing is dated later than the clock, no record later than its item.   *)
Past ==
    /\ \A i \in Items : rec[i] <= stamp[i] /\ stamp[i] <= now
    /\ \A p \in Profiles : profiles[p].watermark <= now
    /\ \A w \in Workers : planned[w] <= now
    /\ \A w \in Workers, p \in Profiles :
           copy[w][p] # NoRow => copy[w][p].watermark <= now

(* What a worker has listed is no older than the record and no newer than  *)
(* the item.                                                               *)
ListedOnly(w) ==
    \A i \in Items : got[w][i] # NoTime =>
        /\ i \in Scope[cur[w]]
        /\ rec[i] <= got[w][i] /\ got[w][i] <= stamp[i]

(* Once a source was read, all of it has been listed that is newer than    *)
(* planned, but for what changed after the request began.                  *)
ListedAll(w) ==
    \A i \in Scope[cur[w]] : ToolOf[i] \notin unread[w] =>
        got[w][i] = stamp[i] \/ stamp[i] <= planned[w] \/ stamp[i] > runAt[w]

AtWorker(w) ==
    /\ pc[w] # "idle" => \A p \in todo[w] :
           copy[w][p] # NoRow => Safe(w, p, PlannedWatermark(w, copy[w][p]))
    /\ pc[w] \in {"acquire", "refresh", "read"} => Safe(w, cur[w], planned[w])
    /\ pc[w] = "read" => ListedOnly(w) /\ ListedAll(w)

GapInv == Calm /\ CopyFresh /\ Past /\ NoSilentGap /\ \A w \in Workers : AtWorker(w)

LEMMA GapInit == Init => GapInv
<1> SUFFICES ASSUME Init
             PROVE  GapInv
  OBVIOUS
<1>1. \A p \in Profiles : profiles[p].tools = Tools /\ profiles[p].watermark = 0
  BY DEF Init, NewProfile, NoTime
<1>2. \A w \in Workers : pc[w] = "idle" /\ planned[w] = 0
                         /\ \A p \in Profiles : copy[w][p] = NoRow
  BY DEF Init, NoTime
<1>3. now = 1 /\ adhoc = NoRequest /\ \A i \in Items : rec[i] = 0 /\ stamp[i] = 0
  BY DEF Init, Nothing, NoTime
<1>4. Calm /\ CopyFresh /\ Past
  BY <1>1, <1>2, <1>3 DEF Calm, CopyFresh, Past
<1>5. NoSilentGap /\ \A w \in Workers : AtWorker(w)
  BY <1>1, <1>2 DEF NoSilentGap, AtWorker, NoTime
<1> QED
  BY <1>4, <1>5 DEF GapInv

(* A commit by a session whose copy is fresh writes just what it assigned. *)
LEMMA FlushFresh ==
    ASSUME NEW row \in Profile, NEW new \in Profile
    PROVE  Flush(row, row, new) = new
BY DEF Flush, Profile

(* The watermark of the row as it now is, is safe to read from.            *)
LEMMA FreshIsSafe ==
    ASSUME TypeOK, NoSilentGap, NEW w \in Workers, NEW p \in Profiles,
           NEW row \in Profile, row.watermark = profiles[p].watermark
    PROVE  Safe(w, p, PlannedWatermark(w, row))
BY DEF Safe, PlannedWatermark, Lookbehind, NoSilentGap, Covered

LEMMA PlannedPast ==
    ASSUME TypeOK, NEW w \in Workers, NEW row \in Profile,
           row.watermark <= now, runAt[w] <= now
    PROVE  PlannedWatermark(w, row) \in Nat /\ PlannedWatermark(w, row) <= now
<1>1. /\ row.watermark \in Nat /\ runAt[w] \in Nat /\ now \in Nat /\ Lookback \in Nat
  BY PollingAssumption DEF TypeOK, Profile
<1> QED
  BY <1>1 DEF PlannedWatermark

(* A step that stores nothing and moves neither clock nor watermark keeps  *)
(* all but what it changes of its own worker.                              *)
SameData ==
    /\ UNCHANGED <<rec, stamp, now, since, adhoc>>
    /\ \A p \in Profiles : /\ profiles'[p].watermark = profiles[p].watermark
                           /\ profiles'[p].tools = profiles[p].tools

OthersSame(w) ==
    \A v \in Workers \ {w} :
        /\ pc'[v] = pc[v] /\ runAt'[v] = runAt[v] /\ todo'[v] = todo[v]
        /\ cur'[v] = cur[v] /\ copy'[v] = copy[v] /\ planned'[v] = planned[v]
        /\ unread'[v] = unread[v] /\ got'[v] = got[v]

LEMMA SafeKept ==
    ASSUME SameData, NEW w \in Workers, runAt'[w] = runAt[w],
           NEW p \in Profiles, NEW t, Safe(w, p, t)
    PROVE  Safe(w, p, t)'
BY DEF SameData, Safe, Covered, Lookbehind

LEMMA OtherKept ==
    ASSUME TypeOK, SameData, NEW w \in Workers, OthersSame(w),
           NEW v \in Workers \ {w}, AtWorker(v)
    PROVE  AtWorker(v)'
<1>1. /\ pc'[v] = pc[v] /\ runAt'[v] = runAt[v] /\ todo'[v] = todo[v]
      /\ cur'[v] = cur[v] /\ copy'[v] = copy[v] /\ planned'[v] = planned[v]
      /\ unread'[v] = unread[v] /\ got'[v] = got[v]
  BY DEF OthersSame
<1>2. ASSUME pc[v] # "idle", NEW p \in todo[v], copy[v][p] # NoRow
      PROVE  Safe(v, p, PlannedWatermark(v, copy[v][p]))'
  <2>1. PICK t : t = PlannedWatermark(v, copy[v][p])
    OBVIOUS
  <2>2. Safe(v, p, t) /\ p \in Profiles
    BY <1>2, <2>1 DEF AtWorker, TypeOK
  <2>3. Safe(v, p, t)'
    BY <1>1, <2>2, SafeKept
  <2>4. PlannedWatermark(v, copy[v][p])' = t
    BY <1>1, <2>1 DEF PlannedWatermark
  <2> QED
    BY <2>3, <2>4 DEF Safe, Covered, Lookbehind
<1>3. ASSUME pc[v] \in {"acquire", "refresh", "read"}
      PROVE  Safe(v, cur[v], planned[v])'
  <2>1. PICK p \in Profiles : p = cur[v]
    BY DEF TypeOK
  <2>2. Safe(v, p, planned[v])
    BY <1>3, <2>1 DEF AtWorker
  <2>3. \A t : t = planned[v] => Safe(v, p, t)'
    BY <1>1, <2>2, SafeKept
  <2> QED
    BY <1>1, <2>1, <2>3 DEF Safe, Covered, Lookbehind
<1>4. ASSUME pc[v] = "read"
      PROVE  (ListedOnly(v) /\ ListedAll(v))'
  BY <1>1, <1>4 DEF AtWorker, ListedOnly, ListedAll, SameData
<1> QED
  BY <1>1, <1>2, <1>3, <1>4 DEF AtWorker

LEMMA Frame ==
    ASSUME TypeOK, GapInv, SameData, NEW w \in Workers, OthersSame(w),
           CopyFresh', AtWorker(w)', planned'[w] <= now,
           \A p \in Profiles : copy'[w][p] # NoRow => copy'[w][p].watermark <= now
    PROVE  GapInv'
<1>1. Calm' /\ Past'
  BY DEF GapInv, SameData, OthersSame, Calm, Past
<1>2. NoSilentGap'
  BY DEF GapInv, SameData, NoSilentGap
<1>3. \A v \in Workers : AtWorker(v)'
  BY OtherKept DEF GapInv
<1> QED
  BY <1>1, <1>2, <1>3 DEF GapInv

(* What a worker may do with the copies its session holds: keep, expire or *)
(* refresh them.                                                           *)
CopiesMove(w) ==
    \A p \in Profiles : \/ copy'[w][p] \in {NoRow, copy[w][p]}
                        \/ copy'[w][p].watermark = profiles[p].watermark

LEMMA CopiesKept ==
    ASSUME TypeOK, TypeOK', GapInv, SameData, NEW w \in Workers, pc[w] # "idle",
           runAt'[w] = runAt[w], todo'[w] \subseteq todo[w], CopiesMove(w)
    PROVE  /\ \A p \in todo'[w] : copy'[w][p] # NoRow =>
                  Safe(w, p, PlannedWatermark(w, copy[w][p]))'
           /\ \A p \in Profiles : copy'[w][p] # NoRow => copy'[w][p].watermark <= now
<1>1. ASSUME NEW p \in todo'[w], copy'[w][p] # NoRow
      PROVE  Safe(w, p, PlannedWatermark(w, copy[w][p]))'
  <2>1. PICK row \in Profile : row = copy'[w][p]
    BY <1>1 DEF TypeOK
  <2>2. p \in Profiles /\ p \in todo[w]
    BY DEF TypeOK
  <2>3. Safe(w, p, PlannedWatermark(w, row))
    <3>1. CASE copy'[w][p] = copy[w][p]
      BY <1>1, <2>1, <2>2, <3>1 DEF GapInv, AtWorker
    <3>2. CASE row.watermark = profiles[p].watermark
      BY <2>2, <3>2, FreshIsSafe DEF GapInv
    <3> QED
      BY <1>1, <2>1, <2>2, <3>1, <3>2 DEF CopiesMove
  <2>4. PICK t : t = PlannedWatermark(w, row)
    OBVIOUS
  <2>5. Safe(w, p, t)'
    BY <2>2, <2>3, <2>4, SafeKept
  <2>6. PlannedWatermark(w, copy[w][p])' = t
    BY <2>1, <2>4 DEF PlannedWatermark
  <2> QED
    BY <2>5, <2>6 DEF Safe, Covered, Lookbehind
<1>2. ASSUME NEW p \in Profiles, copy'[w][p] # NoRow
      PROVE  copy'[w][p].watermark <= now
  BY <1>2 DEF CopiesMove, GapInv, Past
<1> QED
  BY <1>1, <1>2

(* What is planned stays safe until it is read.                            *)
LEMMA PlannedKept ==
    ASSUME TypeOK, GapInv, SameData, NEW w \in Workers,
           pc[w] \in {"acquire", "refresh", "read"},
           runAt'[w] = runAt[w], cur'[w] = cur[w], planned'[w] = planned[w]
    PROVE  Safe(w, cur[w], planned[w])' /\ planned'[w] <= now
<1>1. PICK p \in Profiles : p = cur[w]
  BY DEF TypeOK
<1>2. Safe(w, p, planned[w]) /\ planned[w] <= now
  BY <1>1 DEF GapInv, AtWorker, Past
<1>3. \A t : t = planned[w] => Safe(w, p, t)'
  BY <1>2, SafeKept
<1> QED
  BY <1>1, <1>2, <1>3 DEF Safe, Covered, Lookbehind

(* A copy stays fresh while only the holder of the lock writes the row.    *)
LEMMA FreshKept ==
    ASSUME TypeOK, CopyFresh, NEW w \in Workers, OthersSame(w),
           \A p \in Profiles \ {cur[w]} : profiles'[p] = profiles[p],
           \/ profiles' = profiles
           \/ \A v \in Workers \ {w} : pc[v] \in Section => cur[v] # cur[w],
           pc'[w] \in {"read", "fail", "release"} =>
               copy'[w][cur'[w]] = profiles'[cur'[w]]
    PROVE  CopyFresh'
<1>1. ASSUME NEW v \in Workers \ {w}, pc'[v] \in {"read", "fail", "release"}
      PROVE  copy'[v][cur'[v]] = profiles'[cur'[v]]
  <2>1. /\ copy'[v] = copy[v] /\ cur'[v] = cur[v] /\ pc[v] \in Section
        /\ cur[v] \in Profiles /\ copy[v][cur[v]] = profiles[cur[v]]
    BY <1>1 DEF CopyFresh, OthersSame, TypeOK, Section
  <2> QED
    BY <2>1
<1> QED
  BY <1>1 DEF CopyFresh

(* The steps that store nothing.                                           *)
LEMMA GapBegin ==
    ASSUME TypeOK, TypeOK', GapInv, NEW w \in Workers, NEW r, NEW ps, Begin(w, r, ps)
    PROVE  GapInv'
<1>1. SameData /\ OthersSame(w) /\ profiles' = profiles
  BY DEF Begin, SameData, OthersSame, historyVars, TypeOK
<1>2. /\ pc'[w] = "next" /\ runAt'[w] = now /\ planned'[w] = planned[w]
      /\ \A p \in Profiles : copy'[w][p] \in {profiles[p], NoRow}
      /\ now \in Nat
  BY DEF Begin, TypeOK
<1>3. CopyFresh'
  BY <1>1, <1>2, FreshKept DEF GapInv
<1>4. ASSUME NEW p \in todo'[w], copy'[w][p] # NoRow
      PROVE  Safe(w, p, PlannedWatermark(w, copy[w][p]))'
  <2>1. /\ p \in Profiles /\ copy'[w][p].watermark = profiles'[p].watermark
        /\ profiles'[p].watermark = profiles[p].watermark
    BY <1>1, <1>2, <1>4 DEF TypeOK
  <2>2. profiles[p].watermark # NoTime => Covered(p, profiles[p].watermark)
    BY <2>1 DEF GapInv, NoSilentGap, Covered
  <2>3. PICK t : t = profiles[p].watermark
    OBVIOUS
  <2>4. t # NoTime => Covered(p, t)'
    BY <1>1, <2>1, <2>2, <2>3 DEF Covered, SameData
  <2> QED
    BY <2>1, <2>3, <2>4 DEF Safe, PlannedWatermark, Lookbehind, Covered
<1>5. AtWorker(w)'
  BY <1>2, <1>4 DEF AtWorker
<1>6. \A p \in Profiles : copy'[w][p] # NoRow => copy'[w][p].watermark <= now
  BY <1>2 DEF GapInv, Past
<1>7. planned'[w] <= now
  BY <1>2 DEF GapInv, Past
<1> QED
  BY <1>1, <1>3, <1>5, <1>6, <1>7, Frame

LEMMA GapEnd ==
    ASSUME TypeOK, GapInv, NEW w \in Workers, EndRequest(w),
           UNCHANGED <<profiles, rec, stamp, now, adhoc, since>>
    PROVE  GapInv'
<1>1. SameData /\ OthersSame(w)
  BY DEF EndRequest, SameData, OthersSame, TypeOK
<1>2. /\ pc'[w] = "idle" /\ planned'[w] = 0 /\ now \in Nat
      /\ \A p \in Profiles : copy'[w][p] = NoRow
  BY DEF EndRequest, TypeOK, NoTime
<1>3. CopyFresh'
  BY <1>1, <1>2, FreshKept DEF GapInv
<1>4. AtWorker(w)'
  BY <1>2 DEF AtWorker
<1> QED
  BY <1>1, <1>2, <1>3, <1>4, Frame

LEMMA GapCheck ==
    ASSUME TypeOK, TypeOK', GapInv, Timely, NEW w \in Workers, Check(w)
    PROVE  GapInv'
<1> DEFINE row(p) == Loaded(profiles[p], copy[w][p], NoRow)
<1>1. PICK p \in todo[w] :
          /\ pc' = [pc EXCEPT ![w] = IF Refused(w, row(p)) THEN "next" ELSE "acquire"]
          /\ planned' = [planned EXCEPT ![w] = PlannedWatermark(w, row(p))]
          /\ copy' = [copy EXCEPT ![w] =
                 [q \in Profiles |-> IF q = p THEN row(p)
                                     ELSE IF q \in todo[w] THEN @[q] ELSE NoRow]]
          /\ cur' = [cur EXCEPT ![w] = p]
          /\ todo' = [todo EXCEPT ![w] = @ \ {p}]
  BY DEF Check
<1>2. p \in Profiles /\ pc[w] = "next"
  BY DEF Check, TypeOK
<1>3. /\ row(p) \in Profile
      /\ row(p) \in {profiles[p], copy[w][p]}
      /\ Safe(w, p, PlannedWatermark(w, row(p)))
      /\ row(p).watermark <= now
  <2>1. CASE copy[w][p] = NoRow
    <3>1. row(p) = profiles[p] /\ profiles[p] \in Profile
      BY <1>2, <2>1 DEF Loaded, TypeOK
    <3>2. profiles[p].watermark <= now
      BY <1>2 DEF GapInv, Past
    <3> QED
      BY <1>2, <3>1, <3>2, FreshIsSafe DEF GapInv
  <2>2. CASE copy[w][p] # NoRow
    <3>1. row(p) = copy[w][p] /\ copy[w][p] \in Profile
      BY <1>2, <2>2 DEF Loaded, TypeOK
    <3>2. Safe(w, p, PlannedWatermark(w, copy[w][p])) /\ copy[w][p].watermark <= now
      BY <1>1, <1>2, <2>2 DEF GapInv, AtWorker, Past
    <3> QED
      BY <3>1, <3>2
  <2> QED
    BY <2>1, <2>2
<1> HIDE DEF row
<1>4. UNCHANGED <<profiles, rec, stamp, now, since, adhoc, runAt, unread, got>>
  BY DEF Check, historyVars
<1>5. SameData
  BY <1>4 DEF SameData
<1>6. OthersSame(w)
  BY <1>1, <1>4 DEF OthersSame, TypeOK
<1>7. /\ pc'[w] \in {"next", "acquire"} /\ cur'[w] = p
      /\ planned'[w] = PlannedWatermark(w, row(p)) /\ todo'[w] \subseteq todo[w]
  BY <1>1 DEF TypeOK
<1>8. CopiesMove(w)
  <2>1. copy'[w] = [q \in Profiles |-> IF q = p THEN row(p)
                        ELSE IF q \in todo[w] THEN copy[w][q] ELSE NoRow]
    BY <1>1 DEF TypeOK
  <2> QED
    BY <1>3, <2>1 DEF CopiesMove
<1>9. CopyFresh'
  BY <1>4, <1>6, <1>7, FreshKept DEF GapInv
<1>10. planned'[w] <= now
  BY <1>2, <1>3, <1>7, PlannedPast DEF Timely
<1>11. Safe(w, cur[w], planned[w])'
  <2>1. PICK t : t = PlannedWatermark(w, row(p))
    OBVIOUS
  <2>2. Safe(w, p, t)'
    BY <1>2, <1>3, <1>4, <1>5, <2>1, SafeKept
  <2> QED
    BY <1>7, <2>1, <2>2 DEF Safe, Covered, Lookbehind
<1>12. AtWorker(w)' /\ \A q \in Profiles : copy'[w][q] # NoRow => copy'[w][q].watermark <= now
  BY <1>2, <1>4, <1>5, <1>7, <1>8, <1>11, CopiesKept DEF AtWorker
<1> QED
  BY <1>5, <1>6, <1>9, <1>10, <1>12, Frame

LEMMA GapAcquire ==
    ASSUME TypeOK, TypeOK', GapInv, ProfileLockExclusion', NEW w \in Workers,
           Acquire(w)
    PROVE  GapInv'
<1>1. /\ cur[w] \in Profiles /\ profiles[cur[w]] \in Profile /\ runAt[w] \in Nat
      /\ pc[w] = "acquire"
  BY DEF Acquire, TypeOK
<1>2. profiles' = [profiles EXCEPT ![cur[w]] = [profiles[cur[w]] EXCEPT !.lockedAt = runAt[w]]]
  BY <1>1 DEF Acquire, TypeOK
<1>3. /\ profiles'[cur[w]].watermark = profiles[cur[w]].watermark
      /\ profiles'[cur[w]].tools = profiles[cur[w]].tools
      /\ \A p \in Profiles \ {cur[w]} : profiles'[p] = profiles[p]
  BY <1>1, <1>2, LockedType DEF TypeOK
<1>4. UNCHANGED <<rec, stamp, now, since, adhoc, runAt, todo, cur, copy, planned,
                  unread, got>>
  BY DEF Acquire, historyVars
<1>5. pc'[w] = "refresh" /\ \A v \in Workers \ {w} : pc'[v] = pc[v]
  BY DEF Acquire, TypeOK
<1>6. SameData /\ OthersSame(w) /\ CopiesMove(w)
  BY <1>3, <1>4, <1>5 DEF SameData, OthersSame, CopiesMove
<1>7. \A v \in Workers \ {w} : pc[v] \in Section => cur[v] # cur[w]
  BY <1>1, <1>4, <1>5 DEF ProfileLockExclusion, InSection, Section
<1>8. CopyFresh'
  BY <1>3, <1>5, <1>6, <1>7, FreshKept DEF GapInv
<1>9. AtWorker(w)' /\ planned'[w] <= now
      /\ \A q \in Profiles : copy'[w][q] # NoRow => copy'[w][q].watermark <= now
  BY <1>1, <1>4, <1>5, <1>6, CopiesKept, PlannedKept DEF AtWorker
<1> QED
  BY <1>6, <1>8, <1>9, Frame

LEMMA GapLoad ==
    ASSUME TypeOK, TypeOK', GapInv, NEW w \in Workers,
           LockLost(w) \/ Refresh(w) \/ SyncFails(w)
    PROVE  GapInv'
<1>1. /\ cur[w] \in Profiles /\ profiles[cur[w]] \in Profile
      /\ pc[w] \in {"acquire", "refresh", "read"}
  BY DEF LockLost, Refresh, SyncFails, TypeOK
<1>2. UNCHANGED <<profiles, rec, stamp, now, since, adhoc, runAt, todo, cur, planned>>
  BY DEF LockLost, Refresh, SyncFails, historyVars
<1>3. /\ copy'[w][cur[w]] = profiles[cur[w]]
      /\ \A p \in Profiles \ {cur[w]} : copy'[w][p] \in {NoRow, copy[w][p]}
      /\ \A v \in Workers \ {w} : copy'[v] = copy[v]
  <2>1. CASE SyncFails(w)
    BY <1>1, <2>1 DEF SyncFails, TypeOK
  <2>2. CASE LockLost(w) \/ Refresh(w)
    <3>1. copy' = [copy EXCEPT ![w] = [copy[w] EXCEPT ![cur[w]] = profiles[cur[w]]]]
      BY <1>1, <2>2 DEF LockLost, Refresh, TypeOK
    <3> QED
      BY <1>1, <3>1 DEF TypeOK
  <2> QED
    BY <2>1, <2>2
<1>4. /\ pc'[w] \in {"next", "read", "fail"}
      /\ \A v \in Workers \ {w} :
             pc'[v] = pc[v] /\ unread'[v] = unread[v] /\ got'[v] = got[v]
  BY DEF LockLost, Refresh, SyncFails, TypeOK
<1>5. SameData /\ OthersSame(w) /\ CopiesMove(w)
  BY <1>1, <1>2, <1>3, <1>4 DEF SameData, OthersSame, CopiesMove
<1>6. CopyFresh'
  BY <1>2, <1>3, <1>4, <1>5, FreshKept DEF GapInv
<1>7. pc'[w] = "read" => (ListedOnly(w) /\ ListedAll(w))'
  <2>1. ASSUME pc'[w] = "read"
        PROVE  unread'[w] = Tools /\ \A i \in Items : got'[w][i] = NoTime
    <3>1. Refresh(w)
      BY <2>1 DEF LockLost, SyncFails, TypeOK
    <3> QED
      BY <1>1, <3>1 DEF Refresh, TypeOK, GapInv, Calm, Nothing
  <2>2. \A i \in Scope[cur[w]] : ToolOf[i] \in Tools
    BY <1>1, PollingAssumption
  <2> QED
    BY <1>2, <2>1, <2>2 DEF ListedOnly, ListedAll
<1>8. AtWorker(w)' /\ planned'[w] <= now
      /\ \A q \in Profiles : copy'[w][q] # NoRow => copy'[w][q].watermark <= now
  BY <1>1, <1>2, <1>5, <1>7, CopiesKept, PlannedKept DEF AtWorker
<1> QED
  BY <1>5, <1>6, <1>8, Frame

LEMMA GapRead ==
    ASSUME TypeOK, TypeOK', GapInv, NEW w \in Workers, ReadSource(w)
    PROVE  GapInv'
<1>1. UNCHANGED <<profiles, rec, stamp, now, since, adhoc, pc, runAt, todo, cur,
                  copy, planned>>
  BY DEF ReadSource, historyVars
<1>2. PICK t \in unread[w] :
          /\ unread' = [unread EXCEPT ![w] = @ \ {t}]
          /\ got' = [got EXCEPT ![w] = Listed(t, Scope[cur[w]], planned[w], @)]
  BY DEF ReadSource
<1>3. /\ cur[w] \in Profiles /\ pc[w] = "read" /\ planned[w] \in Nat
      /\ Scope[cur[w]] \subseteq Items
      /\ unread'[w] = unread[w] \ {t}
      /\ \A i \in Items : got'[w][i] =
             IF i \in Scope[cur[w]] /\ ToolOf[i] = t /\ stamp[i] > planned[w]
             THEN stamp[i] ELSE got[w][i]
  BY <1>2, PollingAssumption DEF ReadSource, TypeOK, Listed
<1>4. \A i \in Items : rec[i] \in Nat /\ stamp[i] \in Nat /\ got[w][i] \in Nat
  BY DEF TypeOK, Version
<1>5. SameData /\ OthersSame(w) /\ CopiesMove(w)
  BY <1>1, <1>2 DEF SameData, OthersSame, CopiesMove, TypeOK
<1>6. CopyFresh'
  BY <1>1 DEF GapInv, CopyFresh
<1>7. ListedOnly(w)'
  <2>1. ListedOnly(w) /\ \A i \in Items : rec[i] <= stamp[i]
    BY <1>3 DEF GapInv, AtWorker, Past
  <2> QED
    BY <1>1, <1>3, <1>4, <2>1 DEF ListedOnly
<1>8. ListedAll(w)'
  <2>1. ListedAll(w)
    BY <1>3 DEF GapInv, AtWorker
  <2>2. ASSUME NEW i \in Scope[cur[w]], ToolOf[i] \notin unread'[w]
        PROVE  got'[w][i] = stamp[i] \/ stamp[i] <= planned[w] \/ stamp[i] > runAt[w]
    <3>1. CASE ToolOf[i] = t
      BY <1>3, <1>4, <3>1
    <3>2. CASE ToolOf[i] # t
      BY <1>3, <2>1, <2>2, <3>2 DEF ListedAll
    <3> QED
      BY <3>1, <3>2
  <2> QED
    BY <1>1, <2>2 DEF ListedAll
<1>9. AtWorker(w)' /\ planned'[w] <= now
      /\ \A q \in Profiles : copy'[w][q] # NoRow => copy'[w][q].watermark <= now
  BY <1>1, <1>3, <1>5, <1>7, <1>8, CopiesKept, PlannedKept DEF AtWorker
<1> QED
  BY <1>5, <1>6, <1>9, Frame

(* A commit that leaves watermark and sources alone.                       *)
LEMMA GapCommit ==
    ASSUME TypeInv, TypeOK', GapInv, ProfileLockExclusion, NEW w \in Workers,
           RecordFailure(w) \/ Release(w)
    PROVE  GapInv'
<1>0. TypeOK /\ CopyInPlace
  BY DEF TypeInv
<1>1. /\ cur[w] \in Profiles /\ profiles[cur[w]] \in Profile /\ runAt[w] \in Nat
      /\ pc[w] \in {"fail", "release"} /\ AtProfile(w)
      /\ copy[w][cur[w]] = profiles[cur[w]] /\ planned[w] <= now
  BY <1>0 DEF RecordFailure, Release, AtProfile, TypeOK, GapInv, CopyFresh, Past
<1>2. PICK new \in Profile :
          /\ Commit(w, new)
          /\ new.watermark = profiles[cur[w]].watermark
          /\ new.tools = profiles[cur[w]].tools
  <2>1. CASE RecordFailure(w)
    <3>1. runAt[w] + Interval \in Nat
      BY <1>1, PollingAssumption
    <3> QED
      BY <1>1, <2>1, <3>1, NextRunType DEF RecordFailure
  <2>2. CASE Release(w)
    BY ZenonT(60), <1>1, <2>2, LockedType DEF Release, NoTime
  <2> QED
    BY <2>1, <2>2
<1>3. /\ profiles'[cur[w]] = new /\ copy'[w][cur[w]] = new
      /\ \A p \in Profiles \ {cur[w]} :
             profiles'[p] = profiles[p] /\ copy'[w][p] = copy[w][p]
      /\ \A v \in Workers \ {w} : copy'[v] = copy[v]
  BY <1>1, <1>2, CommitType, FlushFresh
<1>4. /\ UNCHANGED <<rec, stamp, now, since, adhoc, runAt, todo, cur, planned>>
      /\ pc'[w] \in {"release", "next"}
      /\ \A v \in Workers \ {w} :
             pc'[v] = pc[v] /\ unread'[v] = unread[v] /\ got'[v] = got[v]
  BY <1>0 DEF RecordFailure, Release, TypeOK, historyVars
<1>5. SameData /\ OthersSame(w) /\ CopiesMove(w)
  BY <1>2, <1>3, <1>4 DEF SameData, OthersSame, CopiesMove
<1>6. \A v \in Workers \ {w} : pc[v] \in Section => cur[v] # cur[w]
  BY <1>1 DEF ProfileLockExclusion, InSection, Section
<1>7. CopyFresh'
  BY <1>0, <1>3, <1>4, <1>5, <1>6, FreshKept DEF GapInv
<1>8. AtWorker(w)'
      /\ \A q \in Profiles : copy'[w][q] # NoRow => copy'[w][q].watermark <= now
  BY <1>0, <1>1, <1>4, <1>5, CopiesKept DEF AtWorker
<1> QED
  BY <1>0, <1>1, <1>4, <1>5, <1>7, <1>8, Frame

(* The commit of a successful run: the profile's row is what the run made  *)
(* of it, and records only move forward, and only within its scope.        *)
LEMMA SuccessEffect ==
    ASSUME TypeInv, GapInv, NEW w \in Workers, SyncSucceeds(w)
    PROVE  /\ cur[w] \in Profiles /\ pc[w] = "read" /\ pc'[w] = "release"
           /\ profiles'[cur[w]].watermark = runAt[w]
           /\ profiles'[cur[w]].tools = profiles[cur[w]].tools
           /\ copy'[w][cur[w]] = profiles'[cur[w]]
           /\ \A p \in Profiles \ {cur[w]} :
                  /\ profiles'[p] = profiles[p] /\ since'[p] = since[p]
                  /\ copy'[w][p] = copy[w][p]
           /\ since'[cur[w]] = IF profiles[cur[w]].watermark = NoTime
                               THEN planned[w] ELSE since[cur[w]]
           /\ \A v \in Workers \ {w} : pc'[v] = pc[v] /\ copy'[v] = copy[v]
           /\ UNCHANGED <<stamp, now, adhoc, runAt, todo, cur, planned, unread, got>>
           /\ \A i \in Items :
                  /\ rec[i] <= rec'[i] /\ rec'[i] <= stamp[i]
                  /\ rec[i] = stamp[i] => rec'[i] = stamp[i]
                  /\ got[w][i] = stamp[i] => rec'[i] = stamp[i]
                  /\ i \notin Scope[cur[w]] => rec'[i] = rec[i]
<1>0. TypeOK /\ CopyInPlace
  BY DEF TypeInv
<1>1. /\ cur[w] \in Profiles /\ profiles[cur[w]] \in Profile /\ runAt[w] \in Nat
      /\ pc[w] = "read" /\ AtProfile(w) /\ copy[w][cur[w]] = profiles[cur[w]]
  BY <1>0 DEF SyncSucceeds, AtProfile, TypeOK, GapInv, CopyFresh
<1> DEFINE new == AfterSuccess(w, copy[w][cur[w]])
<1>2. /\ new \in Profile /\ Commit(w, new)
      /\ new.watermark = runAt[w] /\ new.tools = profiles[cur[w]].tools
  BY <1>1, AfterSuccessType DEF SyncSucceeds
<1> HIDE DEF new
<1>3. /\ profiles'[cur[w]] = new /\ copy'[w][cur[w]] = new
      /\ \A p \in Profiles \ {cur[w]} :
             profiles'[p] = profiles[p] /\ copy'[w][p] = copy[w][p]
      /\ \A v \in Workers \ {w} : copy'[v] = copy[v]
  BY <1>1, <1>2, CommitType, FlushFresh
<1>4. /\ since'[cur[w]] = IF profiles[cur[w]].watermark = NoTime
                          THEN planned[w] ELSE since[cur[w]]
      /\ \A p \in Profiles \ {cur[w]} : since'[p] = since[p]
      /\ pc'[w] = "release" /\ \A v \in Workers \ {w} : pc'[v] = pc[v]
  BY <1>0, <1>1 DEF SyncSucceeds, TypeOK
<1>5. UNCHANGED <<stamp, now, adhoc, runAt, todo, cur, planned, unread, got>>
  BY DEF SyncSucceeds
<1>6. ASSUME NEW i \in Items
      PROVE  /\ rec[i] <= rec'[i] /\ rec'[i] <= stamp[i]
             /\ rec[i] = stamp[i] => rec'[i] = stamp[i]
             /\ got[w][i] = stamp[i] => rec'[i] = stamp[i]
             /\ i \notin Scope[cur[w]] => rec'[i] = rec[i]
  <2>1. rec[i] \in Nat /\ stamp[i] \in Nat /\ got[w][i] \in Nat
    BY <1>0 DEF TypeOK, Version
  <2>2. rec'[i] = IF got[w][i] # 0 THEN got[w][i] ELSE rec[i]
    BY DEF SyncSucceeds, Stored, NoTime
  <2>3. rec[i] <= stamp[i]
    BY DEF GapInv, Past
  <2>4. got[w][i] # 0 => i \in Scope[cur[w]] /\ rec[i] <= got[w][i] /\ got[w][i] <= stamp[i]
    BY <1>1 DEF GapInv, AtWorker, ListedOnly, NoTime
  <2> QED
    BY <2>1, <2>2, <2>3, <2>4
<1> QED
  BY <1>1, <1>2, <1>3, <1>4, <1>5, <1>6

LEMMA GapSucceeds ==
    ASSUME TypeInv, TypeOK', GapInv, Timely, ProfileLockExclusion,
           DisjointScopes, MaxRun <= Lookback, NEW w \in Workers, SyncSucceeds(w)
    PROVE  GapInv'
<1>0. TypeOK /\ CopyInPlace
  BY DEF TypeInv
<1>1. PICK p \in Profiles : p = cur[w]
  BY <1>0 DEF TypeOK
<1>2. /\ profiles'[p].watermark = runAt[w] /\ profiles'[p].tools = profiles[p].tools
      /\ copy'[w][p] = profiles'[p]
      /\ \A q \in Profiles \ {p} :
             profiles'[q] = profiles[q] /\ since'[q] = since[q] /\ copy'[w][q] = copy[w][q]
      /\ since'[p] = IF profiles[p].watermark = NoTime THEN planned[w] ELSE since[p]
  BY <1>1, SuccessEffect
<1>3. /\ pc[w] = "read" /\ pc'[w] = "release"
      /\ \A v \in Workers \ {w} : pc'[v] = pc[v] /\ copy'[v] = copy[v]
      /\ UNCHANGED <<stamp, now, adhoc, runAt, todo, cur, planned, unread, got>>
  BY SuccessEffect
<1>4. \A i \in Items :
          /\ rec'[i] <= stamp[i]
          /\ rec[i] = stamp[i] => rec'[i] = stamp[i]
          /\ got[w][i] = stamp[i] => rec'[i] = stamp[i]
          /\ i \notin Scope[p] => rec'[i] = rec[i]
  BY <1>1, SuccessEffect
<1>5. /\ runAt[w] \in Nat \ {0} /\ runAt[w] <= now /\ now <= runAt[w] + MaxRun
      /\ Safe(w, p, planned[w]) /\ ListedAll(w) /\ unread[w] = {}
  BY <1>0, <1>1, <1>3 DEF Timely, TypeOK, GapInv, AtWorker, SyncSucceeds
<1>6. \A q \in Profiles : Scope[q] \subseteq Items
  BY PollingAssumption
<1>7. Calm'
  BY <1>2, <1>3 DEF GapInv, Calm
<1>8. \A v \in Workers \ {w} : pc[v] \in Section => cur[v] # p
  BY <1>1, <1>3 DEF ProfileLockExclusion, InSection, Section
<1>9. CopyFresh'
  <2>1. ASSUME NEW v \in Workers \ {w}, pc[v] \in {"read", "fail", "release"}
        PROVE  copy[v][cur[v]] = profiles'[cur[v]]
    <3>1. cur[v] \in Profiles \ {p}
      BY <1>0, <1>8, <2>1 DEF TypeOK, Section
    <3>2. copy[v][cur[v]] = profiles[cur[v]]
      BY <2>1 DEF GapInv, CopyFresh
    <3> QED
      BY <1>2, <3>1, <3>2
  <2> QED
    BY <1>1, <1>2, <1>3, <2>1 DEF CopyFresh
<1>10. Past'
  <2>1. Past
    BY DEF GapInv
  <2>2. \A q \in Profiles : profiles'[q].watermark <= now
    BY <1>2, <1>5, <2>1 DEF Past
  <2>3. \A v \in Workers, q \in Profiles :
            copy'[v][q] # NoRow => copy'[v][q].watermark <= now
    BY <1>2, <1>3, <2>1, <2>2 DEF Past
  <2> QED
    BY <1>3, <1>4, <2>1, <2>2, <2>3 DEF Past
<1>11. ASSUME NEW t \in Nat, t <= runAt[w]
       PROVE  Covered(p, t)'
  <2>1. ASSUME NEW i \in Scope[p], since'[p] < stamp[i], stamp[i] <= t
        PROVE  rec'[i] = stamp[i]
    <3>1. i \in Items /\ stamp[i] \in Nat /\ planned[w] \in Nat /\ ToolOf[i] \notin unread[w]
      BY <1>0, <1>5, <1>6 DEF TypeOK, Version
    <3>2. got[w][i] = stamp[i] \/ stamp[i] <= planned[w]
      BY <1>1, <1>5, <1>11, <2>1, <3>1 DEF ListedAll
    <3>3. ASSUME stamp[i] <= planned[w]
          PROVE  rec[i] = stamp[i]
      <4>1. profiles[p].watermark # NoTime
        BY <1>2, <2>1, <3>1, <3>3
      <4> QED
        BY <1>2, <1>5, <2>1, <3>3, <4>1 DEF Safe, Covered
    <3> QED
      BY <1>4, <3>1, <3>2, <3>3
  <2> QED
    BY <1>3, <2>1 DEF Covered
<1>12. ASSUME NEW q \in Profiles \ {p}, NEW t, Covered(q, t)
       PROVE  Covered(q, t)'
  <2>1. \A i \in Scope[q] : i \in Items /\ i \notin Scope[p]
    BY <1>6 DEF DisjointScopes
  <2> QED
    BY <1>2, <1>3, <1>4, <1>12, <2>1 DEF Covered
<1>13. NoSilentGap'
  <2>1. ASSUME NEW q \in Profiles, profiles'[q].watermark # NoTime,
               NEW t, t = profiles'[q].watermark
        PROVE  Covered(q, t)'
    <3>1. CASE q = p
      BY <1>2, <1>5, <1>11, <2>1, <3>1
    <3>2. CASE q # p
      <4>1. Covered(q, t)
        BY <1>2, <2>1, <3>2 DEF GapInv, NoSilentGap, Covered
      <4> QED
        BY <1>12, <3>2, <4>1
    <3> QED
      BY <3>1, <3>2
  <2> QED
    BY <2>1 DEF NoSilentGap, Covered
<1>14. ASSUME NEW v \in Workers, pc[v] # "idle", NEW q \in Profiles,
              NEW t \in Nat, Safe(v, q, t)
       PROVE  Safe(v, q, t)'
  <2>1. CASE q # p
    BY <1>2, <1>3, <1>12, <1>14, <2>1 DEF Safe, Lookbehind
  <2>2. CASE q = p /\ profiles[p].watermark # NoTime
    <3>1. Covered(p, t) /\ since'[p] = since[p]
      BY <1>2, <1>14, <2>2 DEF Safe
    <3>2. Covered(p, t)'
      BY <1>3, <1>4, <1>6, <3>1 DEF Covered
    <3>3. profiles'[p].watermark # NoTime
      BY <1>2, <1>5 DEF NoTime
    <3> QED
      BY <2>2, <3>2, <3>3 DEF Safe
  <2>3. CASE q = p /\ profiles[p].watermark = NoTime
    <3>1. t = Lookbehind(v)
      BY <1>14, <2>3 DEF Safe
    <3>2. runAt[v] <= now /\ runAt[v] \in Nat /\ now \in Nat
      BY <1>0, <1>14 DEF Timely, TypeOK
    <3>3. t <= runAt[w]
      BY <1>5, <3>1, <3>2, PollingAssumption DEF Lookbehind
    <3>4. profiles'[p].watermark # NoTime
      BY <1>2, <1>5 DEF NoTime
    <3> QED
      BY <1>11, <2>3, <3>3, <3>4 DEF Safe
  <2> QED
    BY <2>1, <2>2, <2>3
<1>15. ASSUME NEW v \in Workers
       PROVE  AtWorker(v)'
  <2>1. AtWorker(v) /\ (pc'[v] # "idle" => pc[v] # "idle")
    BY <1>3 DEF GapInv
  <2>2. ASSUME pc'[v] # "idle", NEW q \in todo[v], copy'[v][q] # NoRow
        PROVE  Safe(v, q, PlannedWatermark(v, copy[v][q]))'
    <3>1. q \in Profiles
      BY <1>0 DEF TypeOK
    <3>2. PICK row \in Profile : row = copy'[v][q]
      BY <2>2, <3>1 DEF TypeOK
    <3>3. PICK t \in Nat : t = PlannedWatermark(v, row)
      BY <1>0, PlannedType DEF TypeOK
    <3>4. Safe(v, q, t)'
      <4>1. CASE v = w /\ q = p
        <5>1. row.watermark = runAt[w]
          BY <1>2, <3>2, <4>1
        <5>2. t = runAt[w] /\ profiles'[p].watermark # NoTime
          BY <1>2, <1>5, <3>3, <4>1, <5>1 DEF PlannedWatermark, NoTime
        <5> QED
          BY <1>5, <1>11, <4>1, <5>2 DEF Safe
      <4>2. CASE v # w \/ q # p
        <5>1. row = copy[v][q]
          BY <1>2, <1>3, <3>1, <3>2, <4>2
        <5>2. Safe(v, q, t)
          BY <2>1, <2>2, <3>2, <3>3, <5>1 DEF AtWorker
        <5> QED
          BY <1>14, <2>1, <2>2, <3>1, <5>2
      <4> QED
        BY <4>1, <4>2
    <3>5. PlannedWatermark(v, copy[v][q])' = t
      BY <1>3, <3>2, <3>3 DEF PlannedWatermark
    <3> QED
      BY <3>4, <3>5 DEF Safe, Covered, Lookbehind
  <2>3. ASSUME pc'[v] \in {"acquire", "refresh", "read"}
        PROVE  Safe(v, cur[v], planned[v])'
    <3>1. PICK q \in Profiles : q = cur[v]
      BY <1>0 DEF TypeOK
    <3>2. PICK t \in Nat : t = planned[v]
      BY <1>0 DEF TypeOK
    <3>3. v # w /\ pc[v] \in {"acquire", "refresh", "read"}
      BY <1>3, <2>3
    <3>4. Safe(v, q, t)
      BY <2>1, <3>1, <3>2, <3>3 DEF AtWorker
    <3>5. Safe(v, q, t)'
      BY <1>14, <3>3, <3>4
    <3> QED
      BY <1>3, <3>1, <3>2, <3>5 DEF Safe, Covered, Lookbehind
  <2>4. ASSUME pc'[v] = "read"
        PROVE  ListedOnly(v)' /\ ListedAll(v)'
    <3>1. v # w /\ pc[v] = "read" /\ cur[v] \in Profiles \ {p}
      BY <1>0, <1>3, <1>8, <2>4 DEF TypeOK, Section
    <3>2. ListedOnly(v) /\ ListedAll(v)
      BY <2>1, <3>1 DEF AtWorker
    <3>3. \A i \in Scope[cur[v]] : rec'[i] = rec[i]
      BY <1>4, <1>6, <3>1 DEF DisjointScopes
    <3> QED
      BY <1>3, <3>2, <3>3 DEF ListedOnly, ListedAll
  <2> QED
    BY <1>3, <2>2, <2>3, <2>4 DEF AtWorker
<1> QED
  BY <1>7, <1>9, <1>10, <1>13, <1>15 DEF GapInv

(* Time passes, and an item may change: its stamp is ahead of everything.  *)
LEMMA GapTime ==
    ASSUME TypeOK, GapInv, Timely, Tick \/ \E i \in Items : Update(i)
    PROVE  GapInv'
<1>1. /\ UNCHANGED <<profiles, rec, since, adhoc, pc, runAt, todo, cur, copy,
                     planned, unread, got>>
      /\ now' = now + 1 /\ now \in Nat
  BY DEF Tick, Update, workerVars, historyVars, TypeOK
<1>2. \A i \in Items : /\ stamp[i] \in Nat /\ rec[i] \in Nat
                       /\ stamp'[i] = stamp[i] \/ stamp'[i] = now + 1
  BY DEF Tick, Update, TypeOK, Version
<1>3. /\ \A i \in Items : rec[i] <= stamp[i] /\ stamp[i] <= now
      /\ \A p \in Profiles : profiles[p].watermark \in Nat /\ profiles[p].watermark <= now
      /\ \A w \in Workers : planned[w] \in Nat /\ planned[w] <= now
  BY DEF GapInv, Past, TypeOK, Profile
<1>4. \A w \in Workers, p \in Profiles : copy[w][p] # NoRow =>
          /\ copy[w][p] \in Profile /\ copy[w][p].watermark \in Nat
          /\ copy[w][p].watermark <= now
  BY DEF GapInv, Past, TypeOK, Profile
<1>5. \A p \in Profiles : Scope[p] \subseteq Items
  BY PollingAssumption
<1>6. Calm' /\ CopyFresh'
  BY <1>1 DEF GapInv, Calm, CopyFresh
<1>7. Past'
  BY <1>1, <1>2, <1>3, <1>4 DEF Past
<1>8. ASSUME NEW p \in Profiles, NEW t \in Nat, t <= now, Covered(p, t)
      PROVE  Covered(p, t)'
  <2>1. ASSUME NEW i \in Scope[p], since[p] < stamp'[i], stamp'[i] <= t
        PROVE  rec[i] = stamp'[i]
    <3>1. i \in Items /\ stamp'[i] = stamp[i]
      BY <1>1, <1>2, <1>5, <1>8, <2>1
    <3> QED
      BY <1>8, <2>1, <3>1 DEF Covered
  <2> QED
    BY <1>1, <2>1 DEF Covered
<1>9. NoSilentGap'
  <2>1. ASSUME NEW p \in Profiles, profiles[p].watermark # NoTime,
               NEW t \in Nat, t = profiles[p].watermark
        PROVE  Covered(p, t)'
    BY <1>3, <1>8, <2>1 DEF GapInv, NoSilentGap, Covered
  <2> QED
    BY <1>1, <1>3, <2>1 DEF NoSilentGap, Covered
<1>10. ASSUME NEW w \in Workers, NEW p \in Profiles, NEW t \in Nat, t <= now, Safe(w, p, t)
       PROVE  Safe(w, p, t)'
  BY <1>1, <1>8, <1>10 DEF Safe, Lookbehind
<1>11. ASSUME NEW w \in Workers
       PROVE  AtWorker(w)'
  <2>1. AtWorker(w)
    BY DEF GapInv
  <2>2. ASSUME pc[w] # "idle", NEW p \in todo[w], copy[w][p] # NoRow
        PROVE  Safe(w, p, PlannedWatermark(w, copy[w][p]))'
    <3>1. p \in Profiles /\ runAt[w] <= now
      BY <2>2 DEF TypeOK, Timely
    <3>2. PICK row \in Profile : row = copy[w][p]
      BY <1>4, <2>2, <3>1
    <3>3. PICK t \in Nat : t = PlannedWatermark(w, row) /\ t <= now
      BY <1>4, <2>2, <3>1, <3>2, PlannedPast
    <3>4. Safe(w, p, t)
      BY <2>1, <2>2, <3>2, <3>3 DEF AtWorker
    <3>5. Safe(w, p, t)'
      BY <1>10, <3>1, <3>3, <3>4
    <3>6. PlannedWatermark(w, copy[w][p])' = t
      BY <1>1, <3>2, <3>3 DEF PlannedWatermark
    <3> QED
      BY <3>5, <3>6 DEF Safe, Covered, Lookbehind
  <2>3. ASSUME pc[w] \in {"acquire", "refresh", "read"}
        PROVE  Safe(w, cur[w], planned[w])'
    <3>1. PICK p \in Profiles : p = cur[w]
      BY DEF TypeOK
    <3>2. PICK t \in Nat : t = planned[w]
      BY <1>3
    <3>3. Safe(w, p, t)
      BY <2>1, <2>3, <3>1, <3>2 DEF AtWorker
    <3>4. Safe(w, p, t)'
      BY <1>3, <1>10, <3>2, <3>3
    <3> QED
      BY <1>1, <3>1, <3>2, <3>4 DEF Safe, Covered, Lookbehind
  <2>4. ASSUME pc[w] = "read"
        PROVE  ListedOnly(w)' /\ ListedAll(w)'
    <3>1. ListedOnly(w) /\ ListedAll(w) /\ got[w] \in Version /\ Scope[cur[w]] \subseteq Items
          /\ runAt[w] <= now /\ runAt[w] \in Nat
      BY <1>5, <2>1, <2>4 DEF AtWorker, TypeOK, Timely
    <3>2. ListedOnly(w)'
      <4>1. ASSUME NEW i \in Items, got[w][i] # NoTime
            PROVE  i \in Scope[cur[w]] /\ rec[i] <= got[w][i] /\ got[w][i] <= stamp'[i]
        <5>1. i \in Scope[cur[w]] /\ rec[i] <= got[w][i] /\ got[w][i] <= stamp[i]
          BY <3>1, <4>1 DEF ListedOnly
        <5>2. got[w][i] \in Nat /\ stamp[i] <= now /\ stamp[i] \in Nat
          BY <1>2, <1>3, <3>1 DEF Version
        <5> QED
          BY <1>1, <1>2, <5>1, <5>2
      <4> QED
        BY <1>1, <4>1 DEF ListedOnly
    <3>3. ListedAll(w)'
      <4>1. ASSUME NEW i \in Scope[cur[w]], ToolOf[i] \notin unread[w]
            PROVE  got[w][i] = stamp'[i] \/ stamp'[i] <= planned[w] \/ stamp'[i] > runAt[w]
        <5>1. i \in Items /\ (stamp'[i] = stamp[i] \/ stamp'[i] = now + 1)
          BY <1>2, <3>1
        <5>2. got[w][i] = stamp[i] \/ stamp[i] <= planned[w] \/ stamp[i] > runAt[w]
          BY <3>1, <4>1 DEF ListedAll
        <5> QED
          BY <1>1, <3>1, <5>1, <5>2
      <4> QED
        BY <1>1, <4>1 DEF ListedAll
    <3> QED
      BY <3>2, <3>3
  <2> QED
    BY <1>1, <2>2, <2>3, <2>4 DEF AtWorker
<1> QED
  BY <1>6, <1>7, <1>9, <1>11 DEF GapInv

(* The settings under which the watermark can be relied on.                *)
Reliable ==
    /\ MaxRun < LockTimeout
    /\ MaxRun <= Lookback
    /\ MaxPatches = 0
    /\ MaxAdhoc = 0
    /\ DisjointScopes

LEMMA GapNext ==
    ASSUME Reliable
    PROVE  /\ TypeInv /\ ExclusionInv /\ GapInv
           /\ (TypeInv /\ ExclusionInv)'
           /\ [Next]_vars
           => GapInv'
<1> SUFFICES ASSUME TypeInv, ExclusionInv, GapInv, TypeInv', ExclusionInv',
                    [Next]_vars
             PROVE  GapInv'
  OBVIOUS
<1>0. /\ TypeOK /\ TypeOK' /\ Timely
      /\ ProfileLockExclusion /\ ProfileLockExclusion'
  BY DEF TypeInv, ExclusionInv
<1>1. ASSUME NEW w \in Workers, StartDue(w) \/ \E p \in Profiles : StartOne(w, p)
      PROVE  GapInv'
  BY <1>0, <1>1, GapBegin DEF StartDue, StartOne
<1>2. ASSUME NEW w \in Workers, Finish(w) \/ Crash(w)
      PROVE  GapInv'
  BY <1>0, <1>2, GapEnd DEF Finish, Crash, historyVars
<1>3. ASSUME NEW w \in Workers, Advance(w)
      PROVE  GapInv'
  BY <1>0, <1>2, <1>3, GapCheck, GapAcquire, GapLoad, GapRead, GapSucceeds, GapCommit
  DEF Advance, Reliable
<1>4. ASSUME StartAdhoc \/ ReadAdhoc \/ CommitAdhoc \/ \E p \in Profiles : PatchProfile(p)
      PROVE  FALSE
  <2>1. spent.patch \in Nat /\ spent.adhoc \in Nat /\ adhoc = NoRequest
    BY <1>0 DEF TypeOK, GapInv, Calm
  <2>2. StartAdhoc => spent.adhoc < MaxAdhoc
    BY DEF StartAdhoc
  <2>3. (ReadAdhoc \/ CommitAdhoc) => adhoc # NoRequest
    BY DEF ReadAdhoc, CommitAdhoc
  <2>4. \A p \in Profiles : PatchProfile(p) => spent.patch < MaxPatches
    BY DEF PatchProfile
  <2> QED
    BY <1>4, <2>1, <2>2, <2>3, <2>4 DEF Reliable
<1>5. ASSUME Tick \/ \E i \in Items : Update(i)
      PROVE  GapInv'
  BY <1>0, <1>5, GapTime
<1>6. ASSUME UNCHANGED vars
      PROVE  GapInv'
  BY <1>6 DEF vars, workerVars, historyVars, GapInv, Calm, CopyFresh, Past,
              NoSilentGap, AtWorker, Safe, Covered, Lookbehind, PlannedWatermark,
              ListedOnly, ListedAll
<1> QED
  BY <1>1, <1>2, <1>3, <1>4, <1>5, <1>6 DEF Next, Work

LEMMA GapInvariant ==
    ASSUME Reliable
    PROVE  Spec => [](TypeInv /\ ExclusionInv /\ GapInv)
<1>1. Init => TypeInv /\ ExclusionInv /\ GapInv
  BY TypeInvInit, ExclusionInit, GapInit
<1>2. MaxRun < LockTimeout
  BY DEF Reliable
<1>3. TypeInv /\ ExclusionInv /\ GapInv /\ [Next]_vars
          => (TypeInv /\ ExclusionInv /\ GapInv)'
  BY <1>2, TypeInvNext, ExclusionNext, GapNext
<1> QED
  BY <1>1, <1>3, PTL DEF Spec

(* Once a profile has a watermark, everything that changed after its first *)
(* lookback and up to the watermark is stored in that version, across any  *)
(* number of workers, failures and crashes: if requests end before their   *)
(* locks are stale and within one lookback, nobody patches profiles or     *)
(* syncs ad hoc, and profiles do not share items.                          *)
THEOREM WatermarkHidesNothing ==
    ASSUME Reliable
    PROVE  Spec => []NoSilentGap
<1>1. Spec => [](TypeInv /\ ExclusionInv /\ GapInv)
  BY GapInvariant
<1>2. GapInv => NoSilentGap
  BY DEF GapInv
<1> QED
  BY <1>1, <1>2, PTL

-------------------------------------------------------------------------------
(* Records.  Who has read the source and not yet committed holds versions  *)
(* no older than the records, as long as nobody else stores those items in *)
(* between: the profile lock keeps runs of one profile apart, and Apart    *)
(* everybody else.                                                         *)

Ordered == \A i \in Items : rec[i] <= stamp[i] /\ stamp[i] <= now

AdhocOnly ==
    adhoc # NoRequest => \A i \in Items : adhoc.got[i] # NoTime =>
        rec[i] <= adhoc.got[i] /\ adhoc.got[i] <= stamp[i]

Readers == \A w \in Workers : pc[w] = "read" => ListedOnly(w)

RecordInv == Ordered /\ AdhocOnly /\ Readers

LEMMA RecordInit == Init => RecordInv /\ Apart
<1> SUFFICES ASSUME Init
             PROVE  RecordInv /\ Apart
  OBVIOUS
<1>1. now = 1 /\ adhoc = NoRequest /\ \A i \in Items : rec[i] = 0 /\ stamp[i] = 0
  BY DEF Init, Nothing, NoTime
<1>2. \A w \in Workers : pc[w] # "read"
  BY DEF Init
<1> QED
  BY <1>1, <1>2 DEF RecordInv, Ordered, AdhocOnly, Readers, Apart

LEMMA AdhocType ==
    ASSUME TypeOK, adhoc # NoRequest
    PROVE  adhoc.got \in Version /\ adhoc.unread \subseteq Tools
BY DEF TypeOK

(* What one run stores moves records forward, and no other reader's items. *)
LEMMA RunStores ==
    ASSUME TypeOK, RecordInv, Apart, ProfileLockExclusion,
           NEW w \in Workers, SyncSucceeds(w)
    PROVE  /\ adhoc = NoRequest
           /\ \A i \in Items :
                  /\ rec[i] <= rec'[i] /\ rec'[i] <= stamp[i]
                  /\ i \notin Scope[cur[w]] => rec'[i] = rec[i]
           /\ \A v \in Workers \ {w} :
                  pc[v] = "read" => Scope[cur[v]] \cap Scope[cur[w]] = {}
<1>1. pc[w] = "read" /\ ListedOnly(w)
  BY DEF SyncSucceeds, RecordInv, Readers
<1>2. adhoc = NoRequest
  BY <1>1 DEF Apart
<1>3. ASSUME NEW i \in Items
      PROVE  /\ rec[i] <= rec'[i] /\ rec'[i] <= stamp[i]
             /\ i \notin Scope[cur[w]] => rec'[i] = rec[i]
  <2>1. rec[i] \in Nat /\ stamp[i] \in Nat /\ got[w][i] \in Nat
    BY DEF TypeOK, Version
  <2>2. rec'[i] = IF got[w][i] # 0 THEN got[w][i] ELSE rec[i]
    BY DEF SyncSucceeds, Stored, NoTime
  <2>3. rec[i] <= stamp[i]
    BY DEF RecordInv, Ordered
  <2>4. got[w][i] # 0 =>
            i \in Scope[cur[w]] /\ rec[i] <= got[w][i] /\ got[w][i] <= stamp[i]
    BY <1>1 DEF ListedOnly, NoTime
  <2> QED
    BY <2>1, <2>2, <2>3, <2>4
<1>4. ASSUME NEW v \in Workers \ {w}, pc[v] = "read"
      PROVE  Scope[cur[v]] \cap Scope[cur[w]] = {}
  <2>1. cur[v] # cur[w]
    BY <1>1, <1>4 DEF ProfileLockExclusion, InSection, Section, TypeOK
  <2> QED
    BY <1>1, <1>4, <2>1 DEF Apart
<1> QED
  BY <1>2, <1>3, <1>4

LEMMA AdhocStores ==
    ASSUME TypeOK, RecordInv, Apart, CommitAdhoc
    PROVE  /\ adhoc' = NoRequest
           /\ \A w \in Workers : pc[w] # "read"
           /\ \A i \in Items : rec[i] <= rec'[i] /\ rec'[i] <= stamp[i]
<1>1. adhoc # NoRequest /\ adhoc' = NoRequest /\ rec' = Stored(adhoc.got)
  BY DEF CommitAdhoc
<1>2. ASSUME NEW i \in Items
      PROVE  rec[i] <= rec'[i] /\ rec'[i] <= stamp[i]
  <2>1. rec[i] \in Nat /\ stamp[i] \in Nat /\ adhoc.got[i] \in Nat
    BY <1>1, AdhocType DEF TypeOK, Version
  <2>2. rec'[i] = IF adhoc.got[i] # 0 THEN adhoc.got[i] ELSE rec[i]
    BY <1>1 DEF Stored, NoTime
  <2>3. rec[i] <= stamp[i]
    BY DEF RecordInv, Ordered
  <2>4. adhoc.got[i] # 0 => rec[i] <= adhoc.got[i] /\ adhoc.got[i] <= stamp[i]
    BY <1>1 DEF RecordInv, AdhocOnly, NoTime
  <2> QED
    BY <2>1, <2>2, <2>3, <2>4
<1> QED
  BY <1>1, <1>2 DEF Apart

(* A step of one worker that stores nothing.                               *)
LEMMA ReaderMoves ==
    ASSUME TypeOK, RecordInv, NEW w \in Workers,
           UNCHANGED <<rec, stamp, now, adhoc>>,
           \A v \in Workers \ {w} :
               pc'[v] = pc[v] /\ cur'[v] = cur[v] /\ got'[v] = got[v],
           pc'[w] = "read" => ListedOnly(w)'
    PROVE  RecordInv'
<1>1. Ordered' /\ AdhocOnly'
  BY DEF RecordInv, Ordered, AdhocOnly
<1>2. Readers'
  BY DEF RecordInv, Readers, ListedOnly
<1> QED
  BY <1>1, <1>2 DEF RecordInv

LEMMA RecordRead ==
    ASSUME TypeOK, RecordInv, NEW w \in Workers, ReadSource(w)
    PROVE  RecordInv'
<1>1. PICK t \in unread[w] :
          got' = [got EXCEPT ![w] = Listed(t, Scope[cur[w]], planned[w], @)]
  BY DEF ReadSource
<1>2. /\ pc[w] = "read" /\ UNCHANGED <<rec, stamp, now, adhoc, pc, cur>>
      /\ ListedOnly(w)
  BY DEF ReadSource, RecordInv, Readers
<1>3. /\ \A i \in Items : got'[w][i] =
             IF i \in Scope[cur[w]] /\ ToolOf[i] = t /\ stamp[i] > planned[w]
             THEN stamp[i] ELSE got[w][i]
      /\ \A v \in Workers \ {w} : got'[v] = got[v]
  BY <1>1 DEF TypeOK, Listed
<1>4. \A i \in Items : rec[i] \in Nat /\ stamp[i] \in Nat /\ rec[i] <= stamp[i]
  BY DEF TypeOK, Version, RecordInv, Ordered
<1>5. ListedOnly(w)'
  BY <1>2, <1>3, <1>4 DEF ListedOnly
<1> QED
  BY <1>2, <1>3, <1>5, ReaderMoves

(* Time: what was listed is at most older than the item by now.            *)
LEMMA RecordTime ==
    ASSUME TypeOK, RecordInv, Tick \/ \E i \in Items : Update(i)
    PROVE  RecordInv'
<1>1. /\ UNCHANGED <<rec, adhoc, pc, cur, got>>
      /\ now' = now + 1 /\ now \in Nat
  BY DEF Tick, Update, workerVars, historyVars, TypeOK
<1>2. \A i \in Items : /\ stamp[i] \in Nat /\ rec[i] \in Nat
                       /\ stamp'[i] = stamp[i] \/ stamp'[i] = now + 1
                       /\ rec[i] <= stamp[i] /\ stamp[i] <= now
  BY DEF Tick, Update, TypeOK, Version, RecordInv, Ordered
<1>3. Ordered'
  BY <1>1, <1>2 DEF Ordered
<1>4. AdhocOnly'
  <2>1. ASSUME adhoc # NoRequest, NEW i \in Items, adhoc.got[i] # NoTime
        PROVE  rec[i] <= adhoc.got[i] /\ adhoc.got[i] <= stamp'[i]
    <3>1. adhoc.got[i] \in Nat
      BY <2>1, AdhocType DEF Version
    <3>2. rec[i] <= adhoc.got[i] /\ adhoc.got[i] <= stamp[i]
      BY <2>1 DEF RecordInv, AdhocOnly
    <3> QED
      BY <1>1, <1>2, <3>1, <3>2
  <2> QED
    BY <1>1, <2>1 DEF AdhocOnly
<1>5. Readers'
  <2>1. ASSUME NEW w \in Workers, pc[w] = "read", NEW i \in Items, got[w][i] # NoTime
        PROVE  /\ i \in Scope[cur[w]]
               /\ rec[i] <= got[w][i] /\ got[w][i] <= stamp'[i]
    <3>1. got[w][i] \in Nat
      BY DEF TypeOK, Version
    <3>2. /\ i \in Scope[cur[w]]
          /\ rec[i] <= got[w][i] /\ got[w][i] <= stamp[i]
      BY <2>1 DEF RecordInv, Readers, ListedOnly
    <3> QED
      BY <1>1, <1>2, <3>1, <3>2
  <2> QED
    BY <1>1, <2>1 DEF Readers, ListedOnly
<1> QED
  BY <1>3, <1>4, <1>5 DEF RecordInv

LEMMA RecordNext ==
    TypeOK /\ ProfileLockExclusion /\ RecordInv /\ Apart /\ [Next]_vars => RecordInv'
<1> SUFFICES ASSUME TypeOK, ProfileLockExclusion, RecordInv, Apart, [Next]_vars
             PROVE  RecordInv'
  OBVIOUS
<1>1. ASSUME NEW w \in Workers, StartDue(w) \/ \E p \in Profiles : StartOne(w, p)
      PROVE  RecordInv'
  <2>1. PICK r, ps : Begin(w, r, ps)
    BY <1>1 DEF StartDue, StartOne
  <2>2. /\ UNCHANGED <<rec, stamp, now, adhoc, cur, got>> /\ pc'[w] # "read"
        /\ \A v \in Workers \ {w} : pc'[v] = pc[v]
    BY <2>1 DEF Begin, TypeOK
  <2> QED
    BY <2>2, ReaderMoves
<1>2. ASSUME NEW w \in Workers, Finish(w) \/ Crash(w)
      PROVE  RecordInv'
  <2>1. EndRequest(w) /\ UNCHANGED <<rec, stamp, now, adhoc>>
    BY <1>2 DEF Finish, Crash
  <2>2. /\ pc'[w] # "read"
        /\ \A v \in Workers \ {w} :
               pc'[v] = pc[v] /\ cur'[v] = cur[v] /\ got'[v] = got[v]
    BY <2>1 DEF EndRequest, TypeOK
  <2> QED
    BY <2>1, <2>2, ReaderMoves
<1>3. ASSUME NEW w \in Workers, Check(w)
      PROVE  RecordInv'
  <2>1. /\ UNCHANGED <<rec, stamp, now, adhoc, got>> /\ pc'[w] # "read"
        /\ \A v \in Workers \ {w} : pc'[v] = pc[v] /\ cur'[v] = cur[v]
    BY <1>3 DEF Check, TypeOK
  <2> QED
    BY <2>1, ReaderMoves
<1>4. ASSUME NEW w \in Workers, Refresh(w)
      PROVE  RecordInv'
  <2>1. /\ UNCHANGED <<rec, stamp, now, adhoc, cur>>
        /\ \A v \in Workers \ {w} : pc'[v] = pc[v] /\ got'[v] = got[v]
        /\ got'[w] = Nothing
    BY <1>4 DEF Refresh, TypeOK
  <2>2. ListedOnly(w)'
    BY <2>1 DEF ListedOnly, Nothing
  <2> QED
    BY <2>1, <2>2, ReaderMoves
<1>5. ASSUME NEW w \in Workers,
             \/ Acquire(w) \/ LockLost(w) \/ SyncFails(w) \/ RecordFailure(w)
             \/ Release(w)
      PROVE  RecordInv'
  <2>1. /\ UNCHANGED <<rec, stamp, now, adhoc, cur>> /\ pc'[w] # "read"
        /\ \A v \in Workers \ {w} : pc'[v] = pc[v] /\ got'[v] = got[v]
    BY <1>5 DEF Acquire, LockLost, SyncFails, RecordFailure, Release, TypeOK
  <2> QED
    BY <2>1, ReaderMoves
<1>6. ASSUME NEW w \in Workers, ReadSource(w)
      PROVE  RecordInv'
  BY <1>6, RecordRead
<1>7. ASSUME NEW w \in Workers, SyncSucceeds(w)
      PROVE  RecordInv'
  <2>1. /\ UNCHANGED <<stamp, now, adhoc, cur, got>> /\ adhoc = NoRequest
        /\ pc'[w] # "read" /\ \A v \in Workers \ {w} : pc'[v] = pc[v]
    BY <1>7, RunStores DEF SyncSucceeds, TypeOK
  <2>2. Ordered' /\ AdhocOnly'
    BY <1>7, <2>1, RunStores DEF Ordered, AdhocOnly, RecordInv
  <2>3. ASSUME NEW v \in Workers, pc'[v] = "read"
        PROVE  ListedOnly(v)'
    <3>1. v # w /\ pc[v] = "read" /\ ListedOnly(v)
      BY <2>1, <2>3 DEF RecordInv, Readers
    <3>2. Scope[cur[v]] \cap Scope[cur[w]] = {}
      BY <1>7, <3>1, RunStores
    <3>3. \A i \in Items : i \in Scope[cur[v]] => rec'[i] = rec[i]
      BY <1>7, <3>2, RunStores
    <3> QED
      BY <2>1, <3>1, <3>3 DEF ListedOnly
  <2> QED
    BY <2>2, <2>3 DEF RecordInv, Readers
<1>8. ASSUME StartAdhoc \/ ReadAdhoc
      PROVE  RecordInv'
  <2>1. UNCHANGED <<rec, stamp, now, pc, cur, got>>
    BY <1>8 DEF StartAdhoc, ReadAdhoc, workerVars
  <2>2. Ordered' /\ Readers'
    BY <2>1 DEF RecordInv, Ordered, Readers, ListedOnly
  <2>3. CASE StartAdhoc
    <3>1. \A i \in Items : adhoc'.got[i] = NoTime
      BY <2>3 DEF StartAdhoc, Nothing
    <3> QED
      BY <2>2, <3>1 DEF RecordInv, AdhocOnly
  <2>4. CASE ReadAdhoc
    <3>1. PICK t \in adhoc.unread :
              adhoc' = [unread |-> adhoc.unread \ {t},
                        got    |-> Listed(t, Items, 0, adhoc.got)]
      BY <2>4 DEF ReadAdhoc
    <3>2. \A i \in Items : adhoc'.got[i] =
              IF ToolOf[i] = t /\ stamp[i] > 0 THEN stamp[i] ELSE adhoc.got[i]
      BY <3>1 DEF Listed
    <3>3. \A i \in Items : rec[i] \in Nat /\ stamp[i] \in Nat /\ rec[i] <= stamp[i]
      BY DEF TypeOK, Version, RecordInv, Ordered
    <3>4. adhoc # NoRequest
      BY <2>4 DEF ReadAdhoc
    <3>5. \A i \in Items : adhoc'.got[i] # NoTime =>
              rec[i] <= adhoc'.got[i] /\ adhoc'.got[i] <= stamp[i]
      BY <3>2, <3>3, <3>4 DEF RecordInv, AdhocOnly
    <3> QED
      BY <2>1, <2>2, <3>5 DEF RecordInv, AdhocOnly
  <2> QED
    BY <1>8, <2>3, <2>4
<1>9. ASSUME CommitAdhoc
      PROVE  RecordInv'
  <2>1. UNCHANGED <<stamp, now, pc, cur, got>>
    BY <1>9 DEF CommitAdhoc, workerVars
  <2> QED
    BY <1>9, <2>1, AdhocStores DEF RecordInv, Ordered, AdhocOnly, Readers
<1>10. ASSUME Tick \/ \E i \in Items : Update(i)
       PROVE  RecordInv'
  BY <1>10, RecordTime
<1>11. ASSUME (\E p \in Profiles : PatchProfile(p)) \/ UNCHANGED vars
       PROVE  RecordInv'
  <2>1. UNCHANGED <<rec, stamp, now, adhoc, pc, cur, got>>
    BY <1>11 DEF PatchProfile, vars, workerVars
  <2> QED
    BY <2>1 DEF RecordInv, Ordered, AdhocOnly, Readers, ListedOnly
<1> QED
  BY <1>1, <1>2, <1>3, <1>4, <1>5, <1>6, <1>7, <1>8, <1>9, <1>10, <1>11
  DEF Next, Work, Advance

LEMMA StepsMoveForward ==
    ASSUME TypeOK, ProfileLockExclusion, RecordInv, Apart, [Next]_vars
    PROVE  [\A i \in Items : rec[i] <= rec'[i]]_vars
<1> SUFFICES ASSUME Next
             PROVE  \A i \in Items : rec[i] <= rec'[i]
  OBVIOUS
<1>1. \A i \in Items : rec[i] \in Nat
  BY DEF TypeOK, Version
<1>2. ASSUME NEW w \in Workers, SyncSucceeds(w)
      PROVE  \A i \in Items : rec[i] <= rec'[i]
  BY <1>2, RunStores
<1>3. CASE CommitAdhoc
  BY <1>3, AdhocStores
<1>4. CASE rec' = rec
  BY <1>1, <1>4
<1>5. rec' = rec \/ CommitAdhoc \/ \E w \in Workers : SyncSucceeds(w)
  BY DEF Next, Work, Advance, StartDue, StartOne, Begin, Finish, Check, Acquire, LockLost,
         Refresh, ReadSource, SyncFails, RecordFailure, Release, Crash, StartAdhoc,
         ReadAdhoc, PatchProfile, Update, Tick
<1> QED
  BY <1>2, <1>3, <1>4, <1>5

(* No intake record is ever overwritten by an older version of its item,   *)
(* whatever is patched, fails, crashes or is synced ad hoc, if requests    *)
(* end before their locks are stale and nobody reads the source beside an  *)
(* ad-hoc sync or a run that reaches an item in common.                    *)
THEOREM RecordsAdvance ==
    ASSUME MaxRun < LockTimeout
    PROVE  ApartSpec => RecordsNeverGoBack
<1> DEFINE Inv == TypeInv /\ ExclusionInv /\ RecordInv /\ Apart
<1>1. Init => Inv
  BY TypeInvInit, ExclusionInit, RecordInit
<1>2. Inv /\ [ApartNext]_vars => Inv'
  <2> SUFFICES ASSUME Inv, [ApartNext]_vars
               PROVE  Inv'
    OBVIOUS
  <2>1. [Next]_vars
    BY DEF ApartNext, Next
  <2>2. (TypeInv /\ ExclusionInv)'
    BY <2>1, TypeInvNext, ExclusionNext
  <2>3. RecordInv'
    BY <2>1, RecordNext DEF TypeInv, ExclusionInv
  <2>4. ASSUME NEW w \in Workers, Crash(w)
        PROVE  Apart'
    BY <2>4 DEF Crash, EndRequest, Apart, TypeInv, TypeOK
  <2>5. UNCHANGED vars => Apart'
    BY DEF vars, workerVars, Apart
  <2> QED
    BY <2>2, <2>3, <2>4, <2>5 DEF ApartNext
<1>3. Inv /\ [ApartNext]_vars => [\A i \in Items : rec[i] <= rec'[i]]_vars
  BY StepsMoveForward DEF TypeInv, ExclusionInv, ApartNext, Next
<1> QED
  BY <1>1, <1>2, <1>3, PTL DEF ApartSpec, RecordsNeverGoBack

(* Pollers keep apart by themselves where no item is in the scope of two   *)
(* profiles and nobody syncs ad hoc: there no record goes back.            *)
THEOREM PollersKeepApart ==
    ASSUME MaxAdhoc = 0, DisjointScopes
    PROVE  Spec => ApartSpec
<1> DEFINE Inv == TypeInv /\ adhoc = NoRequest
<1>1. Init => Inv
  BY TypeInvInit DEF Init
<1>2. Inv /\ [Next]_vars => Inv'
  <2> SUFFICES ASSUME Inv, [Next]_vars
               PROVE  adhoc' = NoRequest
    BY TypeInvNext
  <2>1. ~StartAdhoc
    BY DEF StartAdhoc, TypeInv, TypeOK
  <2> QED
    BY <2>1 DEF Next, Work, Advance, StartDue, StartOne, Begin, Finish, Check, Acquire,
           LockLost, Refresh, ReadSource, SyncSucceeds, SyncFails, RecordFailure,
           Release, Crash, ReadAdhoc, CommitAdhoc, PatchProfile, Update, Tick, vars
<1>3. Inv => Apart
  BY DEF Apart, DisjointScopes, TypeInv, TypeOK
<1>4. Inv' => Apart'
  BY <1>3, PTL
<1>5. Inv /\ Inv' /\ [Next]_vars => [ApartNext]_vars
  BY <1>4 DEF ApartNext, Next
<1> QED
  BY <1>1, <1>2, <1>5, PTL DEF Spec, ApartSpec
===============================================================================
