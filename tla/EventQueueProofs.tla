--------------------------- MODULE EventQueueProofs ---------------------------
(***************************************************************************)
(* Proofs about EventQueue, for every set of events, workers and           *)
(* receivers, every limit and maximum, any number of replays and crashes:  *)
(* type correctness; that every lock and every processing event has a      *)
(* worker; that receiving is harmless; and, under the assumption that no   *)
(* request outlives the lock timeout, the exclusion of the processing lock *)
(* and the account of failures.                                            *)
(***************************************************************************)
EXTENDS EventQueue, FiniteSetTheorems, TLAPS

-------------------------------------------------------------------------------
(* What a commit does to a row.                                            *)

LEMMA FlushType ==
    ASSUME NEW row \in Row, NEW cpy \in Row, NEW new \in Row
    PROVE  Flush(row, cpy, new) \in Row
BY DEF Flush, Row

(* A session that did not assign locked_at does not write it.              *)
LEMMA FlushKeepsLock ==
    ASSUME NEW row \in Row, NEW cpy \in Row, NEW new \in Row,
           new.lockedAt = cpy.lockedAt
    PROVE  Flush(row, cpy, new).lockedAt = row.lockedAt
BY DEF Flush, Row

LEMMA NewRowType ==
    ASSUME NEW k \in Keys, NEW at \in Nat
    PROVE  NewRow(k, at) \in Row
BY DEF NewRow, Row, Status, NoTime

LEMMA AfterFailureType ==
    ASSUME NEW row \in Row, NEW at \in Nat
    PROVE  /\ AfterFailure(row, at) \in Row
           /\ AfterFailure(row, at).lockedAt = row.lockedAt
<1> DEFINE s == IF row.failures + 1 >= MaxAttempts THEN "failed" ELSE "queued"
<1>1. s \in Status
  BY DEF Status
<1>2. row.failures + 1 \in Nat
  BY DEF Row
<1>3. AfterFailure(row, at) =
        [[[row EXCEPT !.failures = row.failures + 1]
              EXCEPT !.status = s] EXCEPT !.availableAt = at]
  BY DEF AfterFailure, Row
<1> HIDE DEF s
<1> QED
  BY <1>1, <1>2, <1>3 DEF Row

LEMMA StatusType ==
    ASSUME NEW row \in Row, NEW s \in Status
    PROVE  /\ [row EXCEPT !.status = s] \in Row
           /\ [row EXCEPT !.status = s].lockedAt = row.lockedAt
BY DEF Row

LEMMA UnlockedType ==
    ASSUME NEW row \in Row
    PROVE  Unlocked(row) \in Row
BY DEF Unlocked, Row, NoTime

LEMMA AnyKeyType == AnyKey \in Keys
BY SettingsAssumption DEF AnyKey

-------------------------------------------------------------------------------
(* Type correctness.  It is inductive only together with the fact that the *)
(* rows a request works on exist: a batch, a copy in use and a replay are  *)
(* of events that are stored, and stored events stay.                      *)

AtEvent(w) == pc[w] \notin {"idle", "next"}

RowsInPlace ==
    /\ \A w \in Workers : AtEvent(w) => /\ rows[cur[w]] \in Row
                                        /\ copy[w][cur[w]] \in Row
    /\ \A w \in Workers : \A k \in todo[w] : rows[k] \in Row
    /\ replay # NoRequest => rows[replay.key] \in Row

TypeInv == TypeOK /\ RowsInPlace

LEMMA TypeInvInit == Init => TypeInv
BY SettingsAssumption, AnyKeyType
   DEF Init, TypeInv, TypeOK, RowsInPlace, AtEvent, Pc, NoTime

(* One commit of a worker: the table and the copies keep their types.      *)
LEMMA CommitType ==
    ASSUME TypeInv, NEW w \in Workers, AtEvent(w), NEW new \in Row,
           Commit(w, new)
    PROVE  /\ rows' \in [Keys -> Row \cup {NoRow}]
           /\ copy' \in [Workers -> [Keys -> Row \cup {NoRow}]]
           /\ \A k \in Keys : rows[k] \in Row => rows'[k] \in Row
           /\ \A v \in Workers, k \in Keys : copy[v][k] \in Row => copy'[v][k] \in Row
<1>1. cur[w] \in Keys /\ rows[cur[w]] \in Row /\ copy[w][cur[w]] \in Row
  BY DEF TypeInv, TypeOK, RowsInPlace
<1>2. Flush(rows[cur[w]], copy[w][cur[w]], new) \in Row
  BY <1>1, FlushType
<1>3. rows' = [rows EXCEPT ![cur[w]] = Flush(rows[cur[w]], copy[w][cur[w]], new)]
  BY <1>1 DEF Commit, TypeInv, TypeOK
<1>4. copy' = [copy EXCEPT ![w] = [copy[w] EXCEPT ![cur[w]] = new]]
  BY <1>1 DEF Commit, TypeInv, TypeOK
<1> QED
  BY <1>1, <1>2, <1>3, <1>4 DEF TypeInv, TypeOK

(* A commit that moves the worker on and changes nothing else.             *)
LEMMA CommitStep ==
    ASSUME TypeInv, NEW w \in Workers, AtEvent(w), NEW new \in Row,
           Commit(w, new),
           NEW next \in Pc, pc' = [pc EXCEPT ![w] = next],
           UNCHANGED <<now, rx, force, runAt, todo, cur, replay, historyVars>>
    PROVE  TypeInv'
<1>1. /\ rows' \in [Keys -> Row \cup {NoRow}]
      /\ copy' \in [Workers -> [Keys -> Row \cup {NoRow}]]
      /\ \A k \in Keys : rows[k] \in Row => rows'[k] \in Row
      /\ \A v \in Workers, k \in Keys : copy[v][k] \in Row => copy'[v][k] \in Row
  BY CommitType
<1>2. TypeOK'
  BY <1>1 DEF TypeInv, TypeOK, historyVars
<1>3. RowsInPlace'
  <2>1. ASSUME NEW v \in Workers, AtEvent(v)'
        PROVE  rows'[cur'[v]] \in Row /\ copy'[v][cur'[v]] \in Row
    <3>1. AtEvent(v)
      BY <2>1 DEF AtEvent, TypeInv, TypeOK
    <3> QED
      BY <1>1, <3>1 DEF TypeInv, TypeOK, RowsInPlace
  <2>2. \A v \in Workers : \A k \in todo'[v] : rows'[k] \in Row
    BY <1>1 DEF TypeInv, TypeOK, RowsInPlace
  <2>3. replay' # NoRequest => rows'[replay'.key] \in Row
    BY <1>1 DEF TypeInv, TypeOK, RowsInPlace
  <2> QED
    BY <2>1, <2>2, <2>3 DEF RowsInPlace
<1> QED
  BY <1>2, <1>3 DEF TypeInv

(* A step of a worker that leaves the tables alone, and what it holds of   *)
(* the event it is at, if it is at one afterwards, is a row.               *)
LEMMA ReadStep ==
    ASSUME TypeInv, NEW w \in Workers,
           pc' \in [Workers -> Pc],
           cur' \in [Workers -> Keys],
           todo' \in [Workers -> SUBSET Keys],
           copy' \in [Workers -> [Keys -> Row \cup {NoRow}]],
           \A v \in Workers \ {w} :
               pc'[v] = pc[v] /\ cur'[v] = cur[v] /\ todo'[v] = todo[v] /\ copy'[v] = copy[v],
           \A k \in todo'[w] : rows[k] \in Row,
           AtEvent(w)' => rows[cur'[w]] \in Row /\ copy'[w][cur'[w]] \in Row,
           UNCHANGED <<rows, now, rx, replay, replayed>>,
           force' \in [Workers -> BOOLEAN],
           runAt' \in [Workers -> Nat],
           abandoned' \in SUBSET Keys,
           crashes' \in Nat,
           failed' \in [Keys -> Nat]
    PROVE  TypeInv'
<1>1. TypeOK'
  BY DEF TypeInv, TypeOK
<1>2. RowsInPlace'
  BY DEF TypeInv, TypeOK, RowsInPlace, AtEvent
<1> QED
  BY <1>1, <1>2 DEF TypeInv

LEMMA TypeInvNext == TypeInv /\ [Next]_vars => TypeInv'
<1> SUFFICES ASSUME TypeInv, [Next]_vars
             PROVE  TypeInv'
  OBVIOUS
<1> USE DEF TypeInv
<1>1. ASSUME NEW r \in Receivers, NEW k \in Keys, Lookup(r, k)
      PROVE  TypeInv'
  BY <1>1 DEF Lookup, TypeOK, RowsInPlace, AtEvent, workerVars, historyVars
<1>2. ASSUME NEW r \in Receivers, Insert(r)
      PROVE  TypeInv'
  <2>1. rx[r].key \in Keys /\ rx[r].at \in Nat
    BY <1>2 DEF Insert, TypeOK
  <2>2. NewRow(rx[r].key, rx[r].at) \in Row
    BY <2>1, NewRowType
  <2>3. \A k \in Keys : rows[k] \in Row => rows'[k] = rows[k]
    BY <1>2, <2>1, NullAssumption DEF Insert, FirstInserted, TypeOK
  <2>4. rows' \in [Keys -> Row \cup {NoRow}]
    BY <1>2, <2>1, <2>2 DEF Insert, FirstInserted, TypeOK
  <2>5. TypeOK'
    BY <1>2, <2>4 DEF Insert, TypeOK, workerVars, historyVars
  <2>6. RowsInPlace'
    BY <1>2, <2>3 DEF Insert, TypeOK, RowsInPlace, AtEvent, workerVars, historyVars
  <2> QED
    BY <2>5, <2>6
<1>3. ASSUME NEW w \in Workers, NEW f \in Forces, Start(w, f)
      PROVE  TypeInv'
  <2>1. PICK b \in SUBSET Keys :
            /\ IsBatch(b, f)
            /\ todo' = [todo EXCEPT ![w] = b]
            /\ copy' = [copy EXCEPT ![w] =
                            [k \in Keys |-> IF k \in b THEN rows[k] ELSE NoRow]]
    BY <1>3 DEF Start
  <2>2. \A k \in b : rows[k] \in Row
    BY <2>1 DEF IsBatch, Eligible, TypeOK
  <2>3. force' \in [Workers -> BOOLEAN] /\ runAt' \in [Workers -> Nat]
    BY <1>3, SettingsAssumption DEF Start, TypeOK
  <2>4. pc' = [pc EXCEPT ![w] = "next"] /\ pc' \in [Workers -> Pc]
    BY <1>3 DEF Start, TypeOK, Pc
  <2>5. copy' \in [Workers -> [Keys -> Row \cup {NoRow}]]
    BY <2>1 DEF TypeOK
  <2>6. ~AtEvent(w)'
    BY <2>4 DEF AtEvent, TypeOK
  <2>7. UNCHANGED <<rows, now, rx, cur, replay, replayed, abandoned, crashes, failed>>
    BY <1>3 DEF Start, historyVars
  <2> QED
    BY <2>1, <2>2, <2>3, <2>4, <2>5, <2>6, <2>7, ReadStep DEF TypeOK
<1>4. ASSUME NEW w \in Workers, EndRequest(w),
             UNCHANGED <<rows, now, rx, replay, replayed, failed>>,
             abandoned' \in SUBSET Keys, crashes' \in Nat
      PROVE  TypeInv'
  <2>1. /\ pc' \in [Workers -> Pc]
        /\ cur' \in [Workers -> Keys]
        /\ todo' \in [Workers -> SUBSET Keys]
        /\ copy' \in [Workers -> [Keys -> Row \cup {NoRow}]]
        /\ force' \in [Workers -> BOOLEAN]
        /\ runAt' \in [Workers -> Nat]
    BY <1>4, AnyKeyType DEF EndRequest, TypeOK, Pc, NoTime
  <2>2. ~AtEvent(w)' /\ todo'[w] = {}
    BY <1>4 DEF EndRequest, TypeOK, AtEvent
  <2>3. \A v \in Workers \ {w} :
            pc'[v] = pc[v] /\ cur'[v] = cur[v] /\ todo'[v] = todo[v] /\ copy'[v] = copy[v]
    BY <1>4 DEF EndRequest, TypeOK
  <2> QED
    BY <1>4, <2>1, <2>2, <2>3, ReadStep DEF TypeOK
<1>5. ASSUME NEW w \in Workers, Finish(w)
      PROVE  TypeInv'
  BY <1>4, <1>5 DEF Finish, historyVars, TypeOK
<1>6. ASSUME NEW w \in Workers, Crash(w)
      PROVE  TypeInv'
  <2>1. abandoned' \in SUBSET Keys /\ crashes' \in Nat
    BY <1>6 DEF Crash, TypeOK
  <2> QED
    BY <1>4, <1>6, <2>1 DEF Crash
<1>7. ASSUME NEW w \in Workers, Check(w)
      PROVE  TypeInv'
  <2> DEFINE row(k) == Loaded(rows[k], copy[w][k], NoRow)
  <2>1. PICK k \in todo[w], matched \in BOOLEAN :
            /\ pc' = [pc EXCEPT ![w] = Verdict(w, k, row(k), matched)]
            /\ copy' = [copy EXCEPT ![w] =
                   [j \in Keys |-> IF j = k THEN row(k)
                                   ELSE IF j \in todo[w] THEN @[j] ELSE NoRow]]
            /\ cur' = [cur EXCEPT ![w] = k]
            /\ todo' = [todo EXCEPT ![w] = @ \ {k}]
    BY <1>7 DEF Check
  <2>2. k \in Keys /\ rows[k] \in Row
    BY DEF TypeOK, RowsInPlace
  <2>3. row(k) \in Row
    BY <2>2 DEF Loaded, TypeOK
  <2>4. Verdict(w, k, row(k), matched) \in Pc
    BY DEF Verdict, Pc
  <2> HIDE DEF row
  <2>5. pc' \in [Workers -> Pc]
    BY <2>1, <2>4 DEF TypeOK
  <2>6. copy' \in [Workers -> [Keys -> Row \cup {NoRow}]] /\ copy'[w][k] = row(k)
    BY <2>1, <2>2, <2>3 DEF TypeOK
  <2>7. /\ cur' \in [Workers -> Keys] /\ cur'[w] = k
        /\ todo' \in [Workers -> SUBSET Keys] /\ todo'[w] \subseteq todo[w]
    BY <2>1, <2>2 DEF TypeOK
  <2>8. \A v \in Workers \ {w} :
            pc'[v] = pc[v] /\ cur'[v] = cur[v] /\ todo'[v] = todo[v] /\ copy'[v] = copy[v]
    BY <2>1 DEF TypeOK
  <2>9. \A j \in todo'[w] : rows[j] \in Row
    BY <2>7 DEF RowsInPlace
  <2>10. UNCHANGED <<rows, now, rx, force, runAt, replay, replayed, abandoned, crashes, failed>>
    BY <1>7 DEF Check, historyVars
  <2> QED
    BY <2>2, <2>3, <2>5, <2>6, <2>7, <2>8, <2>9, <2>10, ReadStep DEF TypeOK
<1>8. ASSUME NEW w \in Workers, MarkFailed(w)
      PROVE  TypeInv'
  <2>1. AtEvent(w) /\ copy[w][cur[w]] \in Row
    BY <1>8 DEF MarkFailed, AtEvent, RowsInPlace
  <2>2. [copy[w][cur[w]] EXCEPT !.status = "failed"] \in Row
    BY <2>1, StatusType DEF Status
  <2> QED
    BY <1>8, <2>1, <2>2, CommitStep DEF MarkFailed, Pc
<1>9. ASSUME NEW w \in Workers, MarkSkipped(w)
      PROVE  TypeInv'
  <2>1. AtEvent(w) /\ copy[w][cur[w]] \in Row
    BY <1>9 DEF MarkSkipped, AtEvent, RowsInPlace
  <2>2. [copy[w][cur[w]] EXCEPT !.status = "skipped"] \in Row
    BY <2>1, StatusType DEF Status
  <2> QED
    BY <1>9, <2>1, <2>2, CommitStep DEF MarkSkipped, Pc
<1>10. ASSUME NEW w \in Workers, Acquire(w)
       PROVE  TypeInv'
  <2>1. AtEvent(w) /\ cur[w] \in Keys /\ rows[cur[w]] \in Row
    BY <1>10 DEF Acquire, AtEvent, RowsInPlace, TypeOK
  <2>2. [rows[cur[w]] EXCEPT !.lockedAt = runAt[w]] \in Row
    BY <2>1 DEF Row, TypeOK
  <2>3. rows' = [rows EXCEPT ![cur[w]] = [rows[cur[w]] EXCEPT !.lockedAt = runAt[w]]]
    BY <1>10, <2>1 DEF Acquire, TypeOK
  <2>4. /\ rows' \in [Keys -> Row \cup {NoRow}]
        /\ \A k \in Keys : rows[k] \in Row => rows'[k] \in Row
    BY <2>1, <2>2, <2>3 DEF TypeOK
  <2>5. pc' = [pc EXCEPT ![w] = "refresh"]
    BY <1>10 DEF Acquire
  <2>6. UNCHANGED <<now, rx, force, runAt, todo, cur, copy, replay, historyVars>>
    BY <1>10 DEF Acquire
  <2>7. TypeOK'
    BY <2>4, <2>5, <2>6 DEF TypeOK, Pc, Section, historyVars
  <2>8. \A v \in Workers : AtEvent(v)' => AtEvent(v)
    BY <2>1, <2>5 DEF AtEvent, TypeOK
  <2>9. RowsInPlace'
    BY <2>4, <2>6, <2>8 DEF RowsInPlace, TypeOK
  <2> QED
    BY <2>7, <2>9
<1>11. ASSUME NEW w \in Workers, NEW next \in Pc, AtEvent(w),
              pc' = [pc EXCEPT ![w] = next],
              copy' = [copy EXCEPT ![w][cur[w]] = rows[cur[w]]],
              UNCHANGED <<rows, now, rx, force, runAt, todo, cur, replay, historyVars>>
       PROVE  TypeInv'
  <2>1. cur[w] \in Keys /\ rows[cur[w]] \in Row
    BY <1>11 DEF AtEvent, RowsInPlace, TypeOK
  <2>2. /\ copy' \in [Workers -> [Keys -> Row \cup {NoRow}]]
        /\ copy'[w][cur[w]] = rows[cur[w]]
        /\ \A v \in Workers \ {w} : copy'[v] = copy[v]
    BY <1>11, <2>1 DEF TypeOK
  <2>3. pc' \in [Workers -> Pc] /\ \A v \in Workers \ {w} : pc'[v] = pc[v]
    BY <1>11 DEF TypeOK
  <2>4. \A k \in todo[w] : rows[k] \in Row
    BY DEF RowsInPlace
  <2> QED
    BY <1>11, <2>1, <2>2, <2>3, <2>4, ReadStep DEF TypeOK, historyVars
<1>12. ASSUME NEW w \in Workers, LockLost(w)
       PROVE  TypeInv'
  BY <1>11, <1>12 DEF LockLost, AtEvent, Pc
<1>13. ASSUME NEW w \in Workers, Refresh(w)
       PROVE  TypeInv'
  BY <1>11, <1>13 DEF Refresh, AtEvent, Pc, Section
<1>14. ASSUME NEW w \in Workers, MarkProcessing(w)
       PROVE  TypeInv'
  <2>1. AtEvent(w) /\ copy[w][cur[w]] \in Row
    BY <1>14 DEF MarkProcessing, AtEvent, RowsInPlace
  <2>2. [copy[w][cur[w]] EXCEPT !.status = "processing"] \in Row
    BY <2>1, StatusType DEF Status
  <2> QED
    BY <1>14, <2>1, <2>2, CommitStep DEF MarkProcessing, Pc, Section
<1>15. ASSUME NEW w \in Workers, SyncSucceeds(w)
       PROVE  TypeInv'
  <2>1. AtEvent(w) /\ copy[w][cur[w]] \in Row
    BY <1>15 DEF SyncSucceeds, AtEvent, RowsInPlace
  <2>2. [copy[w][cur[w]] EXCEPT !.status = "processed"] \in Row
    BY <2>1, StatusType DEF Status
  <2> QED
    BY <1>15, <2>1, <2>2, CommitStep DEF SyncSucceeds, Pc, Section
<1>16. ASSUME NEW w \in Workers, SyncFails(w)
       PROVE  TypeInv'
  <2>1. AtEvent(w) /\ cur[w] \in Keys /\ rows[cur[w]] \in Row
    BY <1>16 DEF SyncFails, AtEvent, RowsInPlace, TypeOK
  <2>2. /\ copy' \in [Workers -> [Keys -> Row \cup {NoRow}]]
        /\ copy'[w][cur[w]] = rows[cur[w]]
        /\ \A v \in Workers \ {w} : copy'[v] = copy[v]
    BY <1>16, <2>1 DEF SyncFails, TypeOK
  <2>3. pc' \in [Workers -> Pc] /\ \A v \in Workers \ {w} : pc'[v] = pc[v]
    BY <1>16 DEF SyncFails, TypeOK, Pc, Section
  <2>4. /\ UNCHANGED <<rows, now, rx, force, runAt, todo, cur, replay>>
        /\ UNCHANGED <<replayed, abandoned, crashes>>
        /\ failed' \in [Keys -> Nat]
    BY <1>16 DEF SyncFails, TypeOK
  <2>5. \A k \in todo[w] : rows[k] \in Row
    BY DEF RowsInPlace
  <2> QED
    BY <2>1, <2>2, <2>3, <2>4, <2>5, ReadStep DEF TypeOK, historyVars
<1>17. ASSUME NEW w \in Workers, RecordFailure(w)
       PROVE  TypeInv'
  <2>1. AtEvent(w) /\ copy[w][cur[w]] \in Row /\ runAt[w] \in Nat
    BY <1>17 DEF RecordFailure, AtEvent, RowsInPlace, TypeOK
  <2>2. AfterFailure(copy[w][cur[w]], runAt[w]) \in Row
    BY <2>1, AfterFailureType
  <2> QED
    BY <1>17, <2>1, <2>2, CommitStep DEF RecordFailure, Pc, Section
<1>18. ASSUME NEW w \in Workers, Release(w)
       PROVE  TypeInv'
  <2>1. AtEvent(w) /\ copy[w][cur[w]] \in Row
    BY <1>18 DEF Release, AtEvent, RowsInPlace
  <2>2. Unlocked(copy[w][cur[w]]) \in Row
    BY <2>1, UnlockedType
  <2> QED
    BY <1>18, <2>1, <2>2, CommitStep DEF Release, Pc
<1>19. ASSUME NEW k \in Keys, ReplayRead(k)
       PROVE  TypeInv'
  <2>1. rows[k] \in Row
    BY <1>19 DEF ReplayRead, TypeOK
  <2>2. replay' \in [key : Keys, copy : Row] /\ replay'.key = k
    BY <1>19, <2>1 DEF ReplayRead
  <2> QED
    BY <1>19, <2>1, <2>2
    DEF ReplayRead, TypeOK, RowsInPlace, AtEvent, workerVars, historyVars
<1>20. ASSUME ReplayWrite
       PROVE  TypeInv'
  <2> DEFINE k   == replay.key
             new == [replay.copy EXCEPT !.status      = "queued",
                                        !.availableAt = now,
                                        !.failures    = 0,
                                        !.lockedAt    = NoTime]
  <2>1. k \in Keys /\ rows[k] \in Row /\ replay.copy \in Row
    BY <1>20 DEF ReplayWrite, TypeOK, RowsInPlace
  <2>2. new \in Row
    BY <2>1 DEF Row, Status, NoTime, TypeOK
  <2>3. Flush(rows[k], replay.copy, new) \in Row
    BY <2>1, <2>2, FlushType
  <2>4. rows' = [rows EXCEPT ![k] = Flush(rows[k], replay.copy, new)]
    BY <1>20, <2>1 DEF ReplayWrite, TypeOK
  <2>5. /\ rows' \in [Keys -> Row \cup {NoRow}]
        /\ \A j \in Keys : rows[j] \in Row => rows'[j] \in Row
    BY <2>1, <2>3, <2>4 DEF TypeOK
  <2>6. /\ replay' = NoRequest /\ replayed' \in SUBSET Keys
        /\ UNCHANGED <<now, rx, workerVars, abandoned, crashes>>
        /\ failed' \in [Keys -> Nat]
    BY <1>20, <2>1 DEF ReplayWrite, TypeOK
  <2> QED
    BY <2>5, <2>6 DEF TypeOK, RowsInPlace, AtEvent, workerVars
<1>21. ASSUME Tick
       PROVE  TypeInv'
  BY <1>21 DEF Tick, TypeOK, RowsInPlace, AtEvent, workerVars, historyVars
<1>22. ASSUME UNCHANGED vars
       PROVE  TypeInv'
  BY <1>22 DEF vars, TypeOK, RowsInPlace, AtEvent, workerVars, historyVars
<1> QED
  BY <1>1, <1>2, <1>3, <1>5, <1>6, <1>7, <1>8, <1>9, <1>10, <1>12, <1>13, <1>14,
     <1>15, <1>16, <1>17, <1>18, <1>19, <1>20, <1>21, <1>22
  DEF Next, Receive, Advance

(* Every reachable state is well typed.                                    *)
THEOREM TypeCorrectness == Spec => []TypeOK
<1>1. Spec => []TypeInv
  BY TypeInvInit, TypeInvNext, PTL DEF Spec
<1>2. TypeInv => TypeOK
  BY DEF TypeInv
<1> QED
  BY <1>1, <1>2, PTL

-------------------------------------------------------------------------------
(* Exclusion.  A worker between the lock and its release finds its own     *)
(* start time in the row, and the request began at most MaxRun ago, so no  *)
(* other worker sees a lock that is free or stale.  The release, which     *)
(* looks at nothing, is harmless because the worker is alone.              *)

Timely ==
    \A w \in Workers : pc[w] # "idle" =>
        runAt[w] > 0 /\ runAt[w] <= now /\ now <= runAt[w] + MaxRun

LockHeld ==
    \A w \in Workers : pc[w] \in Section /\ cur[w] \notin replayed =>
        rows[cur[w]].lockedAt = runAt[w]

ExclusionInv == Timely /\ LockHeld /\ EventLockExclusion

LEMMA ExclusionInit == Init => ExclusionInv
BY DEF Init, ExclusionInv, Timely, LockHeld, EventLockExclusion, InSection, Section

(* Time: a request starts now, and the clock waits for it.                 *)
LEMMA TimelyNext == TypeInv /\ Timely /\ [Next]_vars => Timely'
<1> SUFFICES ASSUME TypeInv, Timely, [Next]_vars
             PROVE  Timely'
  OBVIOUS
<1> USE DEF TypeInv, TypeOK, Timely
<1>1. ASSUME NEW w \in Workers, NEW f \in Forces, Start(w, f)
      PROVE  Timely'
  BY <1>1, SettingsAssumption DEF Start
<1>2. ASSUME NEW w \in Workers, EndRequest(w), now' = now
      PROVE  Timely'
  BY <1>2 DEF EndRequest
<1>3. ASSUME NEW w \in Workers, pc[w] # "idle", now' = now, runAt' = runAt,
             \A v \in Workers \ {w} : pc'[v] = pc[v]
      PROVE  Timely'
  BY <1>3
<1>4. ASSUME UNCHANGED <<now, runAt, pc>>
      PROVE  Timely'
  BY <1>4
<1>5. ASSUME Tick
      PROVE  Timely'
  BY <1>5, SettingsAssumption DEF Tick, workerVars
<1>6. ASSUME NEW w \in Workers, Check(w)
      PROVE  Timely'
  BY <1>6, <1>3 DEF Check
<1>7. ASSUME NEW w \in Workers, Finish(w) \/ Crash(w)
      PROVE  Timely'
  BY <1>7, <1>2 DEF Finish, Crash
<1>8. ASSUME NEW w \in Workers,
             \/ MarkFailed(w) \/ MarkSkipped(w) \/ Acquire(w) \/ LockLost(w)
             \/ Refresh(w) \/ MarkProcessing(w) \/ SyncSucceeds(w)
             \/ SyncFails(w) \/ RecordFailure(w) \/ Release(w)
      PROVE  Timely'
  <2>1. /\ pc[w] # "idle" /\ now' = now /\ runAt' = runAt
        /\ \A v \in Workers \ {w} : pc'[v] = pc[v]
    BY <1>8 DEF MarkFailed, MarkSkipped, Acquire, LockLost, Refresh, MarkProcessing,
                SyncSucceeds, SyncFails, RecordFailure, Release
  <2> QED
    BY <1>3, <2>1
<1>9. ASSUME \/ \E r \in Receivers : Insert(r) \/ \E k \in Keys : Lookup(r, k)
             \/ \E k \in Keys : ReplayRead(k)
             \/ ReplayWrite
             \/ UNCHANGED vars
      PROVE  Timely'
  BY <1>9, <1>4 DEF Insert, Lookup, ReplayRead, ReplayWrite, vars, workerVars
<1> QED
  BY <1>1, <1>5, <1>6, <1>7, <1>8, <1>9 DEF Next, Receive, Advance

(* A commit that does not touch the lock, by a worker that is not entering *)
(* the section with it.                                                    *)
LEMMA CommitKeepsExclusion ==
    ASSUME TypeInv, ExclusionInv, NEW w \in Workers, AtEvent(w), NEW new \in Row,
           Commit(w, new), new.lockedAt = copy[w][cur[w]].lockedAt,
           \A v \in Workers \ {w} : pc'[v] = pc[v],
           pc'[w] \in Section => pc[w] \in Section,
           UNCHANGED <<runAt, cur, replayed>>
    PROVE  LockHeld' /\ EventLockExclusion'
<1>1. cur[w] \in Keys /\ rows[cur[w]] \in Row /\ copy[w][cur[w]] \in Row
  BY DEF TypeInv, TypeOK, RowsInPlace
<1>2. Flush(rows[cur[w]], copy[w][cur[w]], new).lockedAt = rows[cur[w]].lockedAt
  BY <1>1, FlushKeepsLock
<1>3. rows' = [rows EXCEPT ![cur[w]] = Flush(rows[cur[w]], copy[w][cur[w]], new)]
  BY <1>1 DEF Commit, TypeInv, TypeOK
<1>4. \A k \in Keys : rows'[k].lockedAt = rows[k].lockedAt
  BY <1>1, <1>2, <1>3 DEF TypeInv, TypeOK
<1>5. \A v \in Workers : pc'[v] \in Section => pc[v] \in Section
  OBVIOUS
<1>6. LockHeld'
  BY <1>4, <1>5 DEF ExclusionInv, LockHeld, TypeInv, TypeOK
<1>7. EventLockExclusion'
  BY <1>5 DEF ExclusionInv, EventLockExclusion, InSection
<1> QED
  BY <1>6, <1>7

LEMMA ExclusionNext ==
    ASSUME MaxRun < LockTimeout
    PROVE  TypeInv /\ ExclusionInv /\ [Next]_vars => ExclusionInv'
<1> SUFFICES ASSUME TypeInv, ExclusionInv, [Next]_vars
             PROVE  LockHeld' /\ EventLockExclusion'
  BY TimelyNext DEF ExclusionInv
<1>0. /\ Timely /\ LockHeld /\ EventLockExclusion
      /\ TypeOK /\ RowsInPlace
  BY DEF ExclusionInv, TypeInv
<1>1. ASSUME \A k \in Keys : rows[k] \in Row => rows'[k].lockedAt = rows[k].lockedAt,
             \A v \in Workers : pc'[v] \in Section =>
                 pc[v] \in Section /\ cur'[v] = cur[v] /\ runAt'[v] = runAt[v],
             replayed' = replayed
      PROVE  LockHeld' /\ EventLockExclusion'
  <2>1. LockHeld'
    BY SMTT(30), <1>0, <1>1 DEF LockHeld, RowsInPlace, AtEvent, Section, TypeOK
  <2>2. EventLockExclusion'
    BY <1>0, <1>1 DEF EventLockExclusion, InSection
  <2> QED
    BY <2>1, <2>2
<1>2. ASSUME NEW r \in Receivers, Insert(r) \/ \E k \in Keys : Lookup(r, k)
      PROVE  LockHeld' /\ EventLockExclusion'
  <2>1. \A k \in Keys : rows[k] \in Row => rows'[k] = rows[k]
    BY <1>0, <1>2, NullAssumption DEF Insert, Lookup, FirstInserted, TypeOK
  <2> QED
    BY <1>1, <1>2, <2>1 DEF Insert, Lookup, workerVars, historyVars
<1>3. ASSUME NEW w \in Workers, NEW f \in Forces, Start(w, f)
      PROVE  LockHeld' /\ EventLockExclusion'
  <2>1. \A v \in Workers : pc'[v] \in Section => v # w /\ pc[v] \in Section
    BY <1>0, <1>3 DEF Start, Section, TypeOK
  <2>2. \A v \in Workers \ {w} : runAt'[v] = runAt[v]
    BY <1>0, <1>3 DEF Start, TypeOK
  <2> QED
    BY <1>1, <1>3, <2>1, <2>2 DEF Start, historyVars
<1>4. ASSUME NEW w \in Workers, Finish(w) \/ Crash(w)
      PROVE  LockHeld' /\ EventLockExclusion'
  <2>1. EndRequest(w) /\ rows' = rows /\ replayed' = replayed
    BY <1>4 DEF Finish, Crash, historyVars
  <2>2. \A v \in Workers : pc'[v] \in Section => v # w /\ pc[v] \in Section
    BY <1>0, <2>1 DEF EndRequest, Section, TypeOK
  <2>3. \A v \in Workers \ {w} : cur'[v] = cur[v] /\ runAt'[v] = runAt[v]
    BY <1>0, <2>1 DEF EndRequest, TypeOK
  <2> QED
    BY <1>1, <2>1, <2>2, <2>3
<1>5. ASSUME NEW w \in Workers, Check(w)
      PROVE  LockHeld' /\ EventLockExclusion'
  <2>1. pc'[w] \in {"next", "exhausted", "skip", "acquire"}
    BY <1>0, <1>5 DEF Check, Verdict, TypeOK
  <2>2. \A v \in Workers \ {w} : pc'[v] = pc[v] /\ cur'[v] = cur[v]
    BY <1>0, <1>5 DEF Check, TypeOK
  <2>3. UNCHANGED <<rows, runAt, replayed>>
    BY <1>5 DEF Check, historyVars
  <2> QED
    BY <1>1, <2>1, <2>2, <2>3 DEF Section
<1>6. ASSUME NEW w \in Workers, MarkFailed(w)
      PROVE  LockHeld' /\ EventLockExclusion'
  <2>1. AtEvent(w) /\ copy[w][cur[w]] \in Row
    BY <1>0, <1>6 DEF MarkFailed, AtEvent, RowsInPlace
  <2>2. /\ [copy[w][cur[w]] EXCEPT !.status = "failed"] \in Row
        /\ [copy[w][cur[w]] EXCEPT !.status = "failed"].lockedAt = copy[w][cur[w]].lockedAt
    BY <2>1, StatusType DEF Status
  <2>3. pc'[w] = "next" /\ \A v \in Workers \ {w} : pc'[v] = pc[v]
    BY <1>0, <1>6 DEF MarkFailed, TypeOK
  <2> QED
    BY <1>6, <2>1, <2>2, <2>3, CommitKeepsExclusion DEF MarkFailed, Section, historyVars
<1>7. ASSUME NEW w \in Workers, MarkSkipped(w)
      PROVE  LockHeld' /\ EventLockExclusion'
  <2>1. AtEvent(w) /\ copy[w][cur[w]] \in Row
    BY <1>0, <1>7 DEF MarkSkipped, AtEvent, RowsInPlace
  <2>2. /\ [copy[w][cur[w]] EXCEPT !.status = "skipped"] \in Row
        /\ [copy[w][cur[w]] EXCEPT !.status = "skipped"].lockedAt = copy[w][cur[w]].lockedAt
    BY <2>1, StatusType DEF Status
  <2>3. pc'[w] = "next" /\ \A v \in Workers \ {w} : pc'[v] = pc[v]
    BY <1>0, <1>7 DEF MarkSkipped, TypeOK
  <2> QED
    BY <1>7, <2>1, <2>2, <2>3, CommitKeepsExclusion DEF MarkSkipped, Section, historyVars
<1>8. ASSUME NEW w \in Workers, Acquire(w)
      PROVE  LockHeld' /\ EventLockExclusion'
  <2>1. cur[w] \in Keys /\ rows[cur[w]] \in Row /\ runAt[w] \in Nat /\ now \in Nat
    BY <1>0, <1>8 DEF Acquire, AtEvent, RowsInPlace, TypeOK
  <2>2. rows' = [rows EXCEPT ![cur[w]] = [rows[cur[w]] EXCEPT !.lockedAt = runAt[w]]]
    BY <1>0, <1>8, <2>1 DEF Acquire, TypeOK
  <2>3. rows'[cur[w]].lockedAt = runAt[w] /\ \A k \in Keys \ {cur[w]} : rows'[k] = rows[k]
    BY <1>0, <2>1, <2>2 DEF Row, TypeOK
  <2>4. /\ pc'[w] = "refresh" /\ \A v \in Workers \ {w} : pc'[v] = pc[v]
        /\ pc[w] = "acquire"
        /\ UNCHANGED <<runAt, cur, replayed>>
    BY <1>0, <1>8 DEF Acquire, TypeOK, historyVars
  <2>5. ASSUME NEW v \in Workers, InSection(v, cur[w]), cur[w] \notin replayed
        PROVE  FALSE
    <3>1. rows[cur[w]].lockedAt = runAt[v]
      BY <1>0, <2>5 DEF LockHeld, InSection
    <3>2. /\ runAt[v] \in Nat /\ runAt[v] > 0 /\ now <= runAt[v] + MaxRun
          /\ runAt[w] <= now
      BY <1>0, <2>4, <2>5 DEF Timely, InSection, Section, TypeOK
    <3>3. rows[cur[w]].lockedAt = 0 \/ rows[cur[w]].lockedAt + LockTimeout <= runAt[w]
      BY <1>8 DEF Acquire, LockFree, NoTime
    <3> QED
      BY <2>1, <3>1, <3>2, <3>3, SettingsAssumption
  <2>6. LockHeld'
    BY <1>0, <2>1, <2>3, <2>4, <2>5 DEF LockHeld, InSection, TypeOK
  <2>7. EventLockExclusion'
    BY SMTT(30), <1>0, <2>4, <2>5 DEF EventLockExclusion, InSection, TypeOK
  <2> QED
    BY <2>6, <2>7
<1>9. ASSUME NEW w \in Workers, LockLost(w) \/ Refresh(w) \/ SyncFails(w)
      PROVE  LockHeld' /\ EventLockExclusion'
  <2>1. \A v \in Workers : pc'[v] \in Section => pc[v] \in Section
    BY <1>0, <1>9 DEF LockLost, Refresh, SyncFails, Section, TypeOK
  <2>2. UNCHANGED <<rows, runAt, cur, replayed>>
    BY <1>9 DEF LockLost, Refresh, SyncFails, historyVars
  <2> QED
    BY <1>1, <2>1, <2>2
<1>10. ASSUME NEW w \in Workers, MarkProcessing(w)
       PROVE  LockHeld' /\ EventLockExclusion'
  <2>1. AtEvent(w) /\ copy[w][cur[w]] \in Row
    BY <1>0, <1>10 DEF MarkProcessing, AtEvent, RowsInPlace
  <2>2. /\ [copy[w][cur[w]] EXCEPT !.status = "processing"] \in Row
        /\ [copy[w][cur[w]] EXCEPT !.status = "processing"].lockedAt = copy[w][cur[w]].lockedAt
    BY <2>1, StatusType DEF Status
  <2>3. pc[w] \in Section /\ \A v \in Workers \ {w} : pc'[v] = pc[v]
    BY <1>0, <1>10 DEF MarkProcessing, TypeOK, Section
  <2> QED
    BY <1>10, <2>1, <2>2, <2>3, CommitKeepsExclusion DEF MarkProcessing, historyVars
<1>11. ASSUME NEW w \in Workers, SyncSucceeds(w)
       PROVE  LockHeld' /\ EventLockExclusion'
  <2>1. AtEvent(w) /\ copy[w][cur[w]] \in Row
    BY <1>0, <1>11 DEF SyncSucceeds, AtEvent, RowsInPlace
  <2>2. /\ [copy[w][cur[w]] EXCEPT !.status = "processed"] \in Row
        /\ [copy[w][cur[w]] EXCEPT !.status = "processed"].lockedAt = copy[w][cur[w]].lockedAt
    BY <2>1, StatusType DEF Status
  <2>3. pc[w] \in Section /\ \A v \in Workers \ {w} : pc'[v] = pc[v]
    BY <1>0, <1>11 DEF SyncSucceeds, TypeOK, Section
  <2> QED
    BY <1>11, <2>1, <2>2, <2>3, CommitKeepsExclusion DEF SyncSucceeds, historyVars
<1>12. ASSUME NEW w \in Workers, RecordFailure(w)
       PROVE  LockHeld' /\ EventLockExclusion'
  <2>1. AtEvent(w) /\ copy[w][cur[w]] \in Row /\ runAt[w] \in Nat
    BY <1>0, <1>12 DEF RecordFailure, AtEvent, RowsInPlace, TypeOK
  <2>2. /\ AfterFailure(copy[w][cur[w]], runAt[w]) \in Row
        /\ AfterFailure(copy[w][cur[w]], runAt[w]).lockedAt = copy[w][cur[w]].lockedAt
    BY <2>1, AfterFailureType
  <2>3. pc[w] \in Section /\ \A v \in Workers \ {w} : pc'[v] = pc[v]
    BY <1>0, <1>12 DEF RecordFailure, TypeOK, Section
  <2> QED
    BY <1>12, <2>1, <2>2, <2>3, CommitKeepsExclusion DEF RecordFailure, historyVars
<1>13. ASSUME NEW w \in Workers, Release(w)
       PROVE  LockHeld' /\ EventLockExclusion'
  <2>1. /\ pc[w] \in Section /\ pc'[w] = "next"
        /\ \A v \in Workers \ {w} : pc'[v] = pc[v]
        /\ UNCHANGED <<runAt, cur, replayed>>
    BY <1>0, <1>13 DEF Release, TypeOK, Section, historyVars
  <2>2. \A k \in Keys \ {cur[w]} : rows'[k] = rows[k]
    BY <1>0, <1>13 DEF Release, Commit, TypeOK
  <2>3. \A v \in Workers : pc'[v] \in Section => v # w /\ pc[v] \in Section
    BY <2>1 DEF Section
  <2>4. \A v \in Workers : pc'[v] \in Section /\ cur[v] \notin replayed => cur[v] # cur[w]
    BY <1>0, <2>1, <2>3 DEF EventLockExclusion, InSection, TypeOK
  <2>5. LockHeld'
    BY <1>0, <2>1, <2>2, <2>3, <2>4 DEF LockHeld, TypeOK
  <2>6. EventLockExclusion'
    BY <1>0, <2>1, <2>3 DEF EventLockExclusion, InSection
  <2> QED
    BY <2>5, <2>6
<1>14. ASSUME ReplayWrite
       PROVE  LockHeld' /\ EventLockExclusion'
  <2>1. /\ replay.key \in Keys
        /\ \A k \in Keys \ {replay.key} : rows'[k] = rows[k]
        /\ replayed' = replayed \cup {replay.key}
        /\ UNCHANGED <<pc, runAt, cur>>
    BY <1>0, <1>14 DEF ReplayWrite, TypeOK, workerVars
  <2>2. LockHeld'
    BY <1>0, <2>1 DEF LockHeld, TypeOK
  <2>3. EventLockExclusion'
    BY <1>0, <2>1 DEF EventLockExclusion, InSection
  <2> QED
    BY <2>2, <2>3
<1>15. ASSUME (\E k \in Keys : ReplayRead(k)) \/ Tick \/ UNCHANGED vars
       PROVE  LockHeld' /\ EventLockExclusion'
  BY <1>1, <1>15 DEF ReplayRead, Tick, vars, workerVars, historyVars
<1> QED
  BY <1>2, <1>3, <1>4, <1>5, <1>6, <1>7, <1>8, <1>9, <1>10, <1>11, <1>12, <1>13,
     <1>14, <1>15
  DEF Next, Receive, Advance

(* If every request ends before its lock is stale, no two sessions process *)
(* one event at a time, unless an operator replayed it.                    *)
THEOREM LockExclusion ==
    ASSUME MaxRun < LockTimeout
    PROVE  Spec => []EventLockExclusion
<1>1. Init => TypeInv /\ ExclusionInv
  BY TypeInvInit, ExclusionInit
<1>2. TypeInv /\ ExclusionInv /\ [Next]_vars => (TypeInv /\ ExclusionInv)'
  BY TypeInvNext, ExclusionNext
<1>3. ExclusionInv => EventLockExclusion
  BY DEF ExclusionInv
<1> QED
  BY <1>1, <1>2, <1>3, PTL DEF Spec

-------------------------------------------------------------------------------
(* Nothing is left behind without a crash.  A lock in the row has a worker *)
(* that will clear it, one whose copy shows the lock or is about to be     *)
(* refreshed: a commit writes only what differs from the copy.  Likewise   *)
(* "processing" has a worker whose copy says so and who will overwrite it. *)

WillUnlock(w, k) ==
    InSection(w, k) /\ (pc[w] = "refresh" \/ copy[w][k].lockedAt # NoTime)

WillSettle(w, k) ==
    InSection(w, k) /\ pc[w] \in {"sync", "fail"} /\ copy[w][k].status = "processing"

LockOwned ==
    \A k \in Keys \ abandoned :
        rows[k] # NoRow /\ rows[k].lockedAt # NoTime
            => \E w \in Workers : WillUnlock(w, k)

ProcessingOwned ==
    \A k \in Keys \ abandoned :
        rows[k] # NoRow /\ rows[k].status = "processing"
            => \E w \in Workers : WillSettle(w, k)

OwnedInv == LockOwned /\ ProcessingOwned

LEMMA OwnedInit == Init => OwnedInv
BY DEF Init, OwnedInv, LockOwned, ProcessingOwned

(* A step by which no worker ceases to own an event, and no row gets a     *)
(* lock or "processing" that it did not have.                              *)
LEMMA NobodyLeaves ==
    ASSUME OwnedInv, NEW w, abandoned \subseteq abandoned',
           \A k \in Keys \ abandoned', v \in Workers \ {w} :
               /\ pc'[v] = pc[v] /\ cur'[v] = cur[v] /\ copy'[v] = copy[v],
           \A k \in Keys \ abandoned' : w \in Workers =>
               /\ WillUnlock(w, k) => WillUnlock(w, k)'
               /\ WillSettle(w, k) => WillSettle(w, k)',
           \A k \in Keys \ abandoned' : rows'[k] # NoRow =>
               /\ rows'[k].lockedAt # NoTime =>
                      rows[k] # NoRow /\ rows[k].lockedAt # NoTime
               /\ rows'[k].status = "processing" =>
                      rows[k] # NoRow /\ rows[k].status = "processing"
    PROVE  OwnedInv'
<1>1. \A k \in Keys \ abandoned', v \in Workers :
          /\ WillUnlock(v, k) => WillUnlock(v, k)'
          /\ WillSettle(v, k) => WillSettle(v, k)'
  BY DEF WillUnlock, WillSettle, InSection
<1>2. LockOwned'
  BY <1>1 DEF OwnedInv, LockOwned
<1>3. ProcessingOwned'
  BY <1>1 DEF OwnedInv, ProcessingOwned
<1> QED
  BY <1>2, <1>3 DEF OwnedInv

(* What one commit does to the lock and the status.                        *)
LEMMA CommitEffect ==
    ASSUME TypeInv, NEW w \in Workers, AtEvent(w), NEW new \in Row, Commit(w, new)
    PROVE  /\ \A k \in Keys \ {cur[w]} : rows'[k] = rows[k]
           /\ rows'[cur[w]].lockedAt = IF new.lockedAt # copy[w][cur[w]].lockedAt
                                       THEN new.lockedAt ELSE rows[cur[w]].lockedAt
           /\ rows'[cur[w]].status = IF new.status # copy[w][cur[w]].status
                                     THEN new.status ELSE rows[cur[w]].status
           /\ rows'[cur[w]].failures = IF new.failures # copy[w][cur[w]].failures
                                       THEN new.failures ELSE rows[cur[w]].failures
           /\ \A v \in Workers \ {w} : copy'[v] = copy[v]
           /\ copy'[w] = [copy[w] EXCEPT ![cur[w]] = new]
           /\ copy'[w][cur[w]] = new
           /\ cur[w] \in Keys /\ rows[cur[w]] # NoRow
<1>1. cur[w] \in Keys /\ rows[cur[w]] \in Row /\ copy[w][cur[w]] \in Row
  BY DEF TypeInv, TypeOK, RowsInPlace
<1>2. /\ rows' = [rows EXCEPT ![cur[w]] = Flush(rows[cur[w]], copy[w][cur[w]], new)]
      /\ copy' = [copy EXCEPT ![w] = [copy[w] EXCEPT ![cur[w]] = new]]
  BY <1>1 DEF Commit, TypeInv, TypeOK
<1>3. /\ Flush(rows[cur[w]], copy[w][cur[w]], new).lockedAt =
             IF new.lockedAt # copy[w][cur[w]].lockedAt
             THEN new.lockedAt ELSE rows[cur[w]].lockedAt
      /\ Flush(rows[cur[w]], copy[w][cur[w]], new).status =
             IF new.status # copy[w][cur[w]].status
             THEN new.status ELSE rows[cur[w]].status
      /\ Flush(rows[cur[w]], copy[w][cur[w]], new).failures =
             IF new.failures # copy[w][cur[w]].failures
             THEN new.failures ELSE rows[cur[w]].failures
  BY <1>1 DEF Flush, Row
<1> QED
  BY <1>1, <1>2, <1>3, NullAssumption DEF TypeInv, TypeOK

LEMMA OwnedNext == TypeInv /\ OwnedInv /\ [Next]_vars => OwnedInv'
<1> SUFFICES ASSUME TypeInv, OwnedInv, [Next]_vars
             PROVE  OwnedInv'
  OBVIOUS
<1>0. TypeOK /\ RowsInPlace
  BY DEF TypeInv
<1>1. ASSUME UNCHANGED <<pc, cur, copy, abandoned>>,
             \A k \in Keys : rows'[k] # NoRow =>
               /\ rows'[k].lockedAt # NoTime =>
                      rows[k] # NoRow /\ rows[k].lockedAt # NoTime
               /\ rows'[k].status = "processing" =>
                      rows[k] # NoRow /\ rows[k].status = "processing"
      PROVE  OwnedInv'
  <2>1. PICK w : w \notin Workers
    BY NoSetContainsEverything
  <2> QED
    BY <1>1, <2>1, NobodyLeaves
<1>2. ASSUME NEW r \in Receivers, Insert(r)
      PROVE  OwnedInv'
  <2>1. rx[r].key \in Keys
    BY <1>0, <1>2 DEF Insert, TypeOK
  <2>2. /\ NewRow(rx[r].key, rx[r].at).lockedAt = NoTime
        /\ NewRow(rx[r].key, rx[r].at).status # "processing"
    BY DEF NewRow
  <2> QED
    BY <1>0, <1>1, <1>2, <2>1, <2>2
    DEF Insert, FirstInserted, TypeOK, workerVars, historyVars
<1>3. ASSUME NEW w \in Workers, NEW f \in Forces, Start(w, f)
      PROVE  OwnedInv'
  <2>1. pc[w] = "idle" /\ UNCHANGED <<rows, cur, abandoned>>
    BY <1>3 DEF Start, historyVars
  <2>2. \A v \in Workers \ {w} : pc'[v] = pc[v] /\ copy'[v] = copy[v]
    BY <1>0, <1>3 DEF Start, TypeOK
  <2> QED
    BY <2>1, <2>2, NobodyLeaves DEF WillUnlock, WillSettle, InSection, Section
<1>4. ASSUME NEW w \in Workers, Finish(w) \/ Crash(w)
      PROVE  OwnedInv'
  <2>1. EndRequest(w) /\ rows' = rows /\ abandoned \subseteq abandoned'
    BY <1>4 DEF Finish, Crash, historyVars
  <2>2. \A v \in Workers \ {w} : pc'[v] = pc[v] /\ cur'[v] = cur[v] /\ copy'[v] = copy[v]
    BY <1>0, <2>1 DEF EndRequest, TypeOK
  <2>3. \A k \in Keys \ abandoned' : ~InSection(w, k)
    BY <1>4 DEF Finish, Crash, InSection, Section
  <2> QED
    BY <2>1, <2>2, <2>3, NobodyLeaves DEF WillUnlock, WillSettle
<1>5. ASSUME NEW w \in Workers, Check(w)
      PROVE  OwnedInv'
  <2>1. pc[w] = "next" /\ UNCHANGED <<rows, abandoned>>
    BY <1>5 DEF Check, historyVars
  <2>2. \A v \in Workers \ {w} : pc'[v] = pc[v] /\ cur'[v] = cur[v] /\ copy'[v] = copy[v]
    BY <1>0, <1>5 DEF Check, TypeOK
  <2> QED
    BY <2>1, <2>2, NobodyLeaves DEF WillUnlock, WillSettle, InSection, Section
<1>6. ASSUME NEW w \in Workers, MarkFailed(w) \/ MarkSkipped(w)
      PROVE  OwnedInv'
  <2>1. AtEvent(w) /\ copy[w][cur[w]] \in Row
    BY <1>0, <1>6 DEF MarkFailed, MarkSkipped, AtEvent, RowsInPlace
  <2>2. PICK s \in Status \ {"processing"} :
            Commit(w, [copy[w][cur[w]] EXCEPT !.status = s])
    BY <1>6 DEF MarkFailed, MarkSkipped, Status
  <2> DEFINE new == [copy[w][cur[w]] EXCEPT !.status = s]
  <2>3. new \in Row /\ new.lockedAt = copy[w][cur[w]].lockedAt /\ new.status = s
    BY <2>1, StatusType DEF Row
  <2>4. /\ pc[w] \notin Section /\ UNCHANGED <<cur, abandoned>>
        /\ \A v \in Workers \ {w} : pc'[v] = pc[v]
    BY <1>0, <1>6 DEF MarkFailed, MarkSkipped, Section, TypeOK, historyVars
  <2> HIDE DEF new
  <2>5. Commit(w, new)
    BY <2>2 DEF new
  <2>6. /\ \A k \in Keys \ {cur[w]} : rows'[k] = rows[k]
        /\ rows'[cur[w]].lockedAt = rows[cur[w]].lockedAt
        /\ rows'[cur[w]].status = "processing" => rows[cur[w]].status = "processing"
        /\ \A v \in Workers \ {w} : copy'[v] = copy[v]
        /\ rows[cur[w]] # NoRow
    BY ZenonT(60), <2>1, <2>3, <2>5, CommitEffect
  <2> QED
    BY <2>4, <2>6, NobodyLeaves DEF WillUnlock, WillSettle, InSection
<1>7. ASSUME NEW w \in Workers, Acquire(w)
      PROVE  OwnedInv'
  <2>1. cur[w] \in Keys /\ rows[cur[w]] \in Row
    BY <1>0, <1>7 DEF Acquire, AtEvent, RowsInPlace, TypeOK
  <2>2. /\ rows'[cur[w]].status = rows[cur[w]].status
        /\ \A k \in Keys \ {cur[w]} : rows'[k] = rows[k]
    BY <1>0, <1>7, <2>1 DEF Acquire, Row, TypeOK
  <2>3. /\ pc[w] = "acquire" /\ pc'[w] = "refresh"
        /\ \A v \in Workers \ {w} : pc'[v] = pc[v]
        /\ UNCHANGED <<cur, copy, abandoned>>
    BY <1>0, <1>7 DEF Acquire, TypeOK, historyVars
  <2>4. \A k \in Keys, v \in Workers :
            /\ WillUnlock(v, k) => WillUnlock(v, k)'
            /\ WillSettle(v, k) => WillSettle(v, k)'
    BY <2>3 DEF WillUnlock, WillSettle, InSection, Section
  <2>5. WillUnlock(w, cur[w])'
    BY <2>3 DEF WillUnlock, InSection, Section
  <2>6. rows[cur[w]] # NoRow
    BY <2>1, NullAssumption
  <2>7. LockOwned'
    BY <2>1, <2>2, <2>3, <2>4, <2>5 DEF OwnedInv, LockOwned
  <2>8. ProcessingOwned'
    BY <2>1, <2>2, <2>3, <2>4, <2>6 DEF OwnedInv, ProcessingOwned
  <2> QED
    BY <2>7, <2>8 DEF OwnedInv
<1>8. ASSUME NEW w \in Workers, LockLost(w)
      PROVE  OwnedInv'
  <2>1. pc[w] = "acquire" /\ UNCHANGED <<rows, cur, abandoned>>
    BY <1>8 DEF LockLost, historyVars
  <2>2. \A v \in Workers \ {w} : pc'[v] = pc[v] /\ copy'[v] = copy[v]
    BY <1>0, <1>8 DEF LockLost, TypeOK
  <2> QED
    BY <2>1, <2>2, NobodyLeaves DEF WillUnlock, WillSettle, InSection, Section
<1>9. ASSUME NEW w \in Workers, Refresh(w) \/ SyncFails(w)
      PROVE  OwnedInv'
  <2>1. cur[w] \in Keys /\ rows[cur[w]] \in Row
    BY <1>0, <1>9 DEF Refresh, SyncFails, AtEvent, RowsInPlace, TypeOK
  <2>2. /\ copy'[w][cur[w]] = rows[cur[w]]
        /\ \A v \in Workers \ {w} : copy'[v] = copy[v]
    BY <1>0, <1>9, <2>1 DEF Refresh, SyncFails, TypeOK
  <2>3. /\ pc[w] \in Section /\ pc'[w] \in Section
        /\ pc[w] \in {"sync", "fail"} => pc'[w] \in {"sync", "fail"}
        /\ \A v \in Workers \ {w} : pc'[v] = pc[v]
        /\ UNCHANGED <<rows, cur, abandoned>>
    BY <1>0, <1>9 DEF Refresh, SyncFails, Section, TypeOK, historyVars
  <2>4. \A k \in Keys, v \in Workers \ {w} :
            /\ WillUnlock(v, k) => WillUnlock(v, k)'
            /\ WillSettle(v, k) => WillSettle(v, k)'
    BY <2>2, <2>3 DEF WillUnlock, WillSettle, InSection
  <2>5. LockOwned'
    BY <2>1, <2>2, <2>3, <2>4 DEF OwnedInv, LockOwned, WillUnlock, InSection
  <2>6. ProcessingOwned'
    BY <2>1, <2>2, <2>3, <2>4 DEF OwnedInv, ProcessingOwned, WillSettle, InSection
  <2> QED
    BY <2>5, <2>6 DEF OwnedInv
<1>10. ASSUME NEW w \in Workers, MarkProcessing(w)
       PROVE  OwnedInv'
  <2>1. AtEvent(w) /\ copy[w][cur[w]] \in Row
    BY <1>0, <1>10 DEF MarkProcessing, AtEvent, RowsInPlace
  <2> DEFINE new == [copy[w][cur[w]] EXCEPT !.status = "processing"]
  <2>2. /\ new \in Row /\ new.lockedAt = copy[w][cur[w]].lockedAt
        /\ new.status = "processing"
    BY <2>1, StatusType DEF Status, Row
  <2>3. /\ pc[w] = "mark" /\ pc'[w] = "sync" /\ UNCHANGED <<cur, abandoned>>
        /\ \A v \in Workers \ {w} : pc'[v] = pc[v]
    BY <1>0, <1>10 DEF MarkProcessing, TypeOK, historyVars
  <2>4. Commit(w, new)
    BY <1>10 DEF MarkProcessing
  <2> HIDE DEF new
  <2>5. /\ \A k \in Keys \ {cur[w]} : rows'[k] = rows[k]
        /\ rows'[cur[w]].lockedAt = rows[cur[w]].lockedAt
        /\ \A v \in Workers \ {w} : copy'[v] = copy[v]
        /\ copy'[w][cur[w]] = new
        /\ cur[w] \in Keys /\ rows[cur[w]] # NoRow
    BY ZenonT(60), <2>1, <2>2, <2>4, CommitEffect
  <2>6. \A k \in Keys, v \in Workers :
            /\ WillUnlock(v, k) => WillUnlock(v, k)'
            /\ WillSettle(v, k) => WillSettle(v, k)'
    BY <2>2, <2>3, <2>5 DEF WillUnlock, WillSettle, InSection, Section
  <2>7. WillSettle(w, cur[w])'
    BY <2>2, <2>3, <2>5 DEF WillSettle, InSection, Section
  <2>8. LockOwned'
    BY <2>3, <2>5, <2>6 DEF OwnedInv, LockOwned
  <2>9. ProcessingOwned'
    BY <2>3, <2>5, <2>6, <2>7 DEF OwnedInv, ProcessingOwned
  <2> QED
    BY <2>8, <2>9 DEF OwnedInv
<1>11. ASSUME NEW w \in Workers, SyncSucceeds(w) \/ RecordFailure(w)
       PROVE  OwnedInv'
  <2>1. AtEvent(w) /\ copy[w][cur[w]] \in Row /\ runAt[w] \in Nat
    BY <1>0, <1>11 DEF SyncSucceeds, RecordFailure, AtEvent, RowsInPlace, TypeOK
  <2>2. PICK new \in Row : /\ Commit(w, new)
                           /\ new.lockedAt = copy[w][cur[w]].lockedAt
                           /\ new.status # "processing"
    <3>1. CASE SyncSucceeds(w)
      <4>1. [copy[w][cur[w]] EXCEPT !.status = "processed"].status = "processed"
        BY <2>1 DEF Row
      <4> QED
        BY <2>1, <3>1, <4>1, StatusType DEF SyncSucceeds, Status
    <3>2. CASE RecordFailure(w)
      <4>1. AfterFailure(copy[w][cur[w]], runAt[w]).status \in {"failed", "queued"}
        BY <2>1 DEF AfterFailure, Row
      <4> QED
        BY <2>1, <3>2, <4>1, AfterFailureType DEF RecordFailure
    <3> QED
      BY <1>11, <3>1, <3>2
  <2>3. /\ pc[w] \in Section \ {"refresh"} /\ pc'[w] = "release"
        /\ UNCHANGED <<cur, abandoned>>
        /\ \A v \in Workers \ {w} : pc'[v] = pc[v]
    BY <1>0, <1>11 DEF SyncSucceeds, RecordFailure, Section, TypeOK, historyVars
  <2>4. /\ \A k \in Keys \ {cur[w]} : rows'[k] = rows[k]
        /\ rows'[cur[w]].lockedAt = rows[cur[w]].lockedAt
        /\ rows'[cur[w]].status = IF new.status # copy[w][cur[w]].status
                                  THEN new.status ELSE rows[cur[w]].status
        /\ \A v \in Workers \ {w} : copy'[v] = copy[v]
        /\ copy'[w][cur[w]] = new
        /\ cur[w] \in Keys /\ rows[cur[w]] # NoRow
    BY ZenonT(60), <2>1, <2>2, CommitEffect
  <2>5. \A k \in Keys, v \in Workers : WillUnlock(v, k) => WillUnlock(v, k)'
    BY <2>2, <2>3, <2>4 DEF WillUnlock, InSection, Section
  <2>6. \A k \in Keys, v \in Workers \ {w} : WillSettle(v, k) => WillSettle(v, k)'
    BY <2>3, <2>4 DEF WillSettle, InSection
  <2>7. LockOwned'
    BY <2>3, <2>4, <2>5 DEF OwnedInv, LockOwned
  <2>8. \A k \in Keys : rows'[k] # NoRow /\ rows'[k].status = "processing" =>
            /\ rows[k] # NoRow /\ rows[k].status = "processing"
            /\ ~WillSettle(w, k)
    BY <2>2, <2>4 DEF WillSettle, InSection
  <2>9. ProcessingOwned'
    BY <2>3, <2>6, <2>8 DEF OwnedInv, ProcessingOwned
  <2> QED
    BY <2>7, <2>9 DEF OwnedInv
<1>12. ASSUME NEW w \in Workers, Release(w)
       PROVE  OwnedInv'
  <2>1. AtEvent(w) /\ copy[w][cur[w]] \in Row
    BY <1>0, <1>12 DEF Release, AtEvent, RowsInPlace
  <2> DEFINE new == Unlocked(copy[w][cur[w]])
  <2>2. /\ new \in Row /\ new.lockedAt = NoTime
        /\ new.status = copy[w][cur[w]].status
    BY <2>1, UnlockedType DEF Unlocked, Row
  <2>3. /\ pc[w] = "release" /\ UNCHANGED <<cur, abandoned>>
        /\ \A v \in Workers \ {w} : pc'[v] = pc[v]
    BY <1>0, <1>12 DEF Release, TypeOK, historyVars
  <2>4. Commit(w, new)
    BY <1>12 DEF Release
  <2> HIDE DEF new
  <2>5. /\ \A k \in Keys \ {cur[w]} : rows'[k] = rows[k]
        /\ rows'[cur[w]].lockedAt = IF new.lockedAt # copy[w][cur[w]].lockedAt
                                    THEN new.lockedAt ELSE rows[cur[w]].lockedAt
        /\ rows'[cur[w]].status = rows[cur[w]].status
        /\ \A v \in Workers \ {w} : copy'[v] = copy[v]
        /\ cur[w] \in Keys /\ rows[cur[w]] # NoRow
    BY ZenonT(60), <2>1, <2>2, <2>4, CommitEffect
  <2>6. \A k \in Keys, v \in Workers \ {w} :
            /\ WillUnlock(v, k) => WillUnlock(v, k)'
            /\ WillSettle(v, k) => WillSettle(v, k)'
    BY <2>3, <2>5 DEF WillUnlock, WillSettle, InSection
  <2>7. \A k \in Keys : rows'[k] # NoRow /\ rows'[k].lockedAt # NoTime =>
            /\ rows[k] # NoRow /\ rows[k].lockedAt # NoTime
            /\ ~WillUnlock(w, k)
    BY <2>2, <2>3, <2>5 DEF WillUnlock, InSection
  <2>8. LockOwned'
    BY <2>3, <2>6, <2>7 DEF OwnedInv, LockOwned
  <2>9. \A k \in Keys : ~WillSettle(w, k)
    BY <2>3 DEF WillSettle
  <2>10. ProcessingOwned'
    BY <2>3, <2>5, <2>6, <2>9 DEF OwnedInv, ProcessingOwned
  <2> QED
    BY <2>8, <2>10 DEF OwnedInv
<1>13. ASSUME ReplayWrite
       PROVE  OwnedInv'
  <2> DEFINE k   == replay.key
             new == [replay.copy EXCEPT !.status      = "queued",
                                        !.availableAt = now,
                                        !.failures    = 0,
                                        !.lockedAt    = NoTime]
  <2>1. k \in Keys /\ rows[k] \in Row /\ replay.copy \in Row
    BY <1>0, <1>13 DEF ReplayWrite, TypeOK, RowsInPlace
  <2>2. new.status = "queued" /\ new.lockedAt = NoTime
    BY <2>1 DEF Row
  <2>3. rows' = [rows EXCEPT ![k] = Flush(rows[k], replay.copy, new)]
    BY <1>0, <1>13, <2>1 DEF ReplayWrite, TypeOK
  <2> HIDE DEF new
  <2>4. /\ Flush(rows[k], replay.copy, new).lockedAt # NoTime
               => rows[k].lockedAt # NoTime
        /\ Flush(rows[k], replay.copy, new).status = "processing"
               => rows[k].status = "processing"
    BY <2>1, <2>2 DEF Flush, Row
  <2>5. rows[k] # NoRow
    BY <2>1, NullAssumption
  <2>6. UNCHANGED <<pc, cur, copy, abandoned>>
    BY <1>13 DEF ReplayWrite, workerVars
  <2> QED
    BY <1>0, <1>1, <2>1, <2>3, <2>4, <2>5, <2>6 DEF TypeOK
<1>14. ASSUME \/ \E r \in Receivers, k \in Keys : Lookup(r, k)
              \/ \E k \in Keys : ReplayRead(k)
              \/ Tick
              \/ UNCHANGED vars
       PROVE  OwnedInv'
  BY <1>1, <1>14 DEF Lookup, ReplayRead, Tick, vars, workerVars, historyVars
<1> QED
  BY <1>2, <1>3, <1>4, <1>5, <1>6, <1>7, <1>8, <1>9, <1>10, <1>11, <1>12, <1>13,
     <1>14
  DEF Next, Receive, Advance

LEMMA OwnedAlways == Spec => []OwnedInv
<1>1. Init => TypeInv /\ OwnedInv
  BY TypeInvInit, OwnedInit
<1>2. TypeInv /\ OwnedInv /\ [Next]_vars => (TypeInv /\ OwnedInv)'
  BY TypeInvNext, OwnedNext
<1> QED
  BY <1>1, <1>2, PTL DEF Spec

(* No lock outlives its worker unless the worker died, whatever the        *)
(* timeouts: also with takeovers of stale locks and with replays.          *)
THEOREM LocksAreReleased == Spec => []LockHasHolder
<1>1. OwnedInv => LockHasHolder
  BY DEF OwnedInv, LockOwned, LockHasHolder, WillUnlock
<1> QED
  BY <1>1, OwnedAlways, PTL

(* No event is left in processing unless its worker died.                  *)
THEOREM ProcessingIsAttended == Spec => []ProcessingHasWorker
<1>1. OwnedInv => ProcessingHasWorker
  BY DEF OwnedInv, ProcessingOwned, ProcessingHasWorker, WillSettle
<1> QED
  BY <1>1, OwnedAlways, PTL

-------------------------------------------------------------------------------
(* Receiving.  Neither the lookup nor the insert of a repeated delivery    *)
(* writes to a row that is there, and nothing else moves a receiver.       *)
THEOREM RedeliveryIsHarmless == Spec => RedeliveryChangesNothing
<1>1. ASSUME TypeOK, [Next]_vars
      PROVE  \A r \in Receivers : rx'[r] # rx[r] =>
                 \A k \in Keys : rows[k] # NoRow => rows'[k] = rows[k]
  <2>1. CASE Receive
    <3>1. ASSUME NEW r \in Receivers, Insert(r)
          PROVE  \A k \in Keys : rows[k] # NoRow => rows'[k] = rows[k]
      BY <1>1, <3>1 DEF Insert, FirstInserted, TypeOK
    <3>2. ASSUME NEW r \in Receivers, NEW k \in Keys, Lookup(r, k)
          PROVE  rows' = rows
      BY <3>2 DEF Lookup
    <3> QED
      BY <2>1, <3>1, <3>2 DEF Receive
  <2>2. CASE UNCHANGED rx
    BY <2>2
  <2>3. ~Receive => UNCHANGED rx
    BY <1>1 DEF Next, vars, Advance, Start, Finish, Check, MarkFailed, MarkSkipped,
       Acquire, LockLost, Refresh, MarkProcessing, SyncSucceeds, SyncFails,
       RecordFailure, Release, Crash, ReplayRead, ReplayWrite, Tick
  <2> QED
    BY <2>1, <2>2, <2>3
<1> QED
  BY <1>1, TypeCorrectness, PTL DEF Spec, RedeliveryChangesNothing

-------------------------------------------------------------------------------
(* The failure count.  What a session holds of an event is never ahead of  *)
(* the row, and a worker that counts a failure has read the count that is  *)
(* there, because it is alone with the event (Honest).  An event that has  *)
(* used up its attempts can get another failure only from a worker that    *)
(* loaded it before (Pending); each of them adds one and is then none of   *)
(* them, and the one whose failure made the maximum was none already.      *)

Pending(w, k) ==
    \/ k \in todo[w] /\ copy[w][k] # NoRow /\ copy[w][k].failures < MaxAttempts
    \/ cur[w] = k /\ pc[w] \in {"acquire", "refresh", "mark", "sync", "fail"}

Honest(w, k) ==
    /\ copy[w][k] # NoRow => copy[w][k].failures <= rows[k].failures
    /\ cur[w] = k =>
        /\ pc[w] = "exhausted" => rows[k].failures >= MaxAttempts
        /\ pc[w] = "mark" /\ copy[w][k].status = "processing"
               => rows[k].status # "queued"
        /\ pc[w] \in {"sync", "fail"} => rows[k].status # "queued"
        /\ pc[w] = "fail" => /\ copy[w][k].failures = rows[k].failures
                             /\ copy[w][k].status # "queued"

Counted(k) ==
    /\ rows[k].status = "failed" => rows[k].failures >= MaxAttempts
    /\ rows[k].status = "queued" => rows[k].failures < MaxAttempts
    /\ rows[k].failures >= MaxAttempts =>
           rows[k].failures + Cardinality({w \in Workers : Pending(w, k)})
               <= MaxAttempts + Cardinality(Workers) - 1

AccountInv ==
    /\ \A w \in Workers, k \in Keys : rows[k] = NoRow => copy[w][k] = NoRow
    /\ \A k \in Keys \ replayed : rows[k] # NoRow =>
           Counted(k) /\ \A w \in Workers : Honest(w, k)

LEMMA AccountInit == Init => AccountInv
BY DEF Init, AccountInv

(* Fewer workers are pending than there were, or as many.                  *)
LEMMA PendingShrinks ==
    ASSUME IsFiniteSet(Workers), NEW A \in SUBSET Workers, NEW B \in SUBSET A
    PROVE  /\ Cardinality(B) \in Nat /\ Cardinality(A) \in Nat
           /\ Cardinality(B) <= Cardinality(A)
BY FS_Subset, FS_CardinalityType

(* A step of a worker that counts no failure.                              *)
LEMMA NothingCounted ==
    ASSUME TypeInv, AccountInv, IsFiniteSet(Workers), NEW w \in Workers,
           \A v \in Workers \ {w} :
               /\ pc'[v] = pc[v] /\ cur'[v] = cur[v]
               /\ todo'[v] = todo[v] /\ copy'[v] = copy[v],
           replayed' = replayed,
           rows' \in [Keys -> Row \cup {NoRow}],
           \A k \in Keys : rows'[k] = NoRow <=> rows[k] = NoRow,
           \A k \in Keys : rows[k] = NoRow => copy'[w][k] = NoRow,
           \A k \in Keys \ replayed : rows[k] # NoRow =>
               /\ rows'[k].failures = rows[k].failures
               /\ \/ rows'[k].status = rows[k].status
                  \/ /\ rows'[k].status # "queued"
                     /\ rows'[k].status = "failed" => rows[k].failures >= MaxAttempts
               /\ Honest(w, k)'
               /\ Pending(w, k)' => Pending(w, k) \/ rows[k].failures < MaxAttempts
    PROVE  AccountInv'
<1>1. \A v \in Workers, k \in Keys : rows'[k] = NoRow => copy'[v][k] = NoRow
  BY DEF AccountInv
<1>2. ASSUME NEW k \in Keys \ replayed, rows[k] # NoRow
      PROVE  Counted(k)' /\ \A v \in Workers : Honest(v, k)'
  <2>1. Counted(k) /\ \A v \in Workers : Honest(v, k)
    BY <1>2 DEF AccountInv
  <2>2. rows'[k].failures = rows[k].failures
    BY <1>2
  <2>3. ASSUME NEW v \in Workers PROVE Honest(v, k)'
    BY <1>2, <2>1, <2>2, <2>3 DEF Honest
  <2>4. /\ rows'[k].status = "failed" => rows'[k].failures >= MaxAttempts
        /\ rows'[k].status = "queued" => rows'[k].failures < MaxAttempts
    BY <1>2, <2>1, <2>2 DEF Counted
  <2>5. ASSUME rows[k].failures >= MaxAttempts
        PROVE  rows'[k].failures + Cardinality({v \in Workers : Pending(v, k)'})
                   <= MaxAttempts + Cardinality(Workers) - 1
    <3> DEFINE A == {v \in Workers : Pending(v, k)}
               B == {v \in Workers : Pending(v, k)'}
    <3>1. rows[k].failures \in Nat /\ MaxAttempts \in Nat
      BY <1>2, SettingsAssumption DEF TypeInv, TypeOK, Row
    <3>2. \A v \in Workers : Pending(v, k)' => Pending(v, k)
      BY <1>2, <2>5, <3>1 DEF Pending
    <3>3. A \in SUBSET Workers /\ B \in SUBSET A
      BY <3>2
    <3>4. rows[k].failures + Cardinality(A) <= MaxAttempts + Cardinality(Workers) - 1
      BY <2>1, <2>5 DEF Counted
    <3> HIDE DEF A, B
    <3>5. /\ Cardinality(B) \in Nat /\ Cardinality(A) \in Nat
          /\ Cardinality(B) <= Cardinality(A)
      BY <3>3, PendingShrinks
    <3>6. Cardinality(Workers) \in Nat
      BY FS_CardinalityType
    <3>7. rows'[k].failures + Cardinality(B) <= MaxAttempts + Cardinality(Workers) - 1
      BY <2>2, <3>1, <3>4, <3>5, <3>6
    <3> QED
      BY <3>7 DEF B
  <2> QED
    BY <2>2, <2>3, <2>4, <2>5 DEF Counted
<1> QED
  BY <1>1, <1>2 DEF AccountInv

(* One more failure.                                                       *)
LEMMA OneCounted ==
    ASSUME TypeInv, AccountInv, EventLockExclusion, IsFiniteSet(Workers),
           NEW w \in Workers, RecordFailure(w)
    PROVE  AccountInv'
<1> DEFINE k   == cur[w]
           new == AfterFailure(copy[w][k], runAt[w])
<1>0. TypeOK /\ RowsInPlace
  BY DEF TypeInv
<1>1. /\ AtEvent(w) /\ k \in Keys /\ copy[w][k] \in Row /\ rows[k] \in Row
      /\ runAt[w] \in Nat /\ pc[w] = "fail" /\ MaxAttempts \in Nat \ {0}
  BY <1>0, SettingsAssumption DEF RecordFailure, AtEvent, RowsInPlace, TypeOK
<1>2. /\ new \in Row
      /\ new.failures = copy[w][k].failures + 1
      /\ new.status = IF copy[w][k].failures + 1 >= MaxAttempts
                      THEN "failed" ELSE "queued"
  BY <1>1, AfterFailureType DEF AfterFailure, Row
<1>3. Commit(w, new)
  BY DEF RecordFailure
<1>4. /\ pc' = [pc EXCEPT ![w] = "release"]
      /\ UNCHANGED <<todo, cur, replayed>>
  BY DEF RecordFailure, historyVars
<1> HIDE DEF new
<1>5. /\ \A j \in Keys \ {k} : rows'[j] = rows[j]
      /\ rows'[k].status = IF new.status # copy[w][k].status
                           THEN new.status ELSE rows[k].status
      /\ rows'[k].failures = IF new.failures # copy[w][k].failures
                             THEN new.failures ELSE rows[k].failures
      /\ \A v \in Workers \ {w} : copy'[v] = copy[v]
      /\ copy'[w] = [copy[w] EXCEPT ![k] = new]
  BY <1>1, <1>2, <1>3, CommitEffect
<1>6. rows' \in [Keys -> Row \cup {NoRow}] /\ rows'[k] \in Row
  BY <1>1, <1>2, <1>3, CommitType
<1>7. \A v \in Workers, j \in Keys : rows'[j] = NoRow => copy'[v][j] = NoRow
  <2>1. rows'[k] # NoRow
    BY <1>6, NullAssumption
  <2>2. \A j \in Keys \ {k} : copy'[w][j] = copy[w][j]
    BY <1>0, <1>5 DEF TypeOK
  <2>3. \A v \in Workers, j \in Keys : rows[j] = NoRow => copy[v][j] = NoRow
    BY DEF AccountInv
  <2> SUFFICES ASSUME NEW v \in Workers, NEW j \in Keys, rows'[j] = NoRow
               PROVE  copy'[v][j] = NoRow
    OBVIOUS
  <2>4. j # k /\ copy[v][j] = NoRow
    BY <1>5, <2>1, <2>3
  <2> QED
    BY <1>5, <2>2, <2>4
<1>8. ASSUME NEW j \in Keys \ replayed, j # k, rows[j] # NoRow
      PROVE  Counted(j)' /\ \A v \in Workers : Honest(v, j)'
  <2>1. \A v \in Workers : copy'[v][j] = copy[v][j] /\ rows'[j] = rows[j]
    BY <1>0, <1>5, <1>8, SMTT(30) DEF TypeOK
  <2>2. \A v \in Workers : cur[v] = j => pc'[v] = pc[v]
    BY <1>0, <1>4, <1>8 DEF TypeOK
  <2>3. Counted(j) /\ \A v \in Workers : Honest(v, j)
    BY <1>8 DEF AccountInv
  <2>4. \A v \in Workers : Pending(v, j)' <=> Pending(v, j)
    BY <1>4, <2>1, <2>2 DEF Pending
  <2>5. {v \in Workers : Pending(v, j)'} = {v \in Workers : Pending(v, j)}
    BY <2>4
  <2>6. \A v \in Workers : Honest(v, j)'
    BY <1>4, <2>1, <2>2, <2>3 DEF Honest
  <2>7. Counted(j)'
    BY <1>1, <2>1, <2>3, <2>5 DEF Counted
  <2> QED
    BY <2>6, <2>7
<1>9. ASSUME k \notin replayed
      PROVE  Counted(k)' /\ \A v \in Workers : Honest(v, k)'
  <2>0. rows[k] # NoRow
    BY <1>1, NullAssumption
  <2>1. /\ Counted(k) /\ \A v \in Workers : Honest(v, k)
        /\ copy[w][k].failures = rows[k].failures
        /\ copy[w][k].status # "queued"
        /\ rows[k].status # "queued"
    BY <1>1, <1>9, <2>0 DEF AccountInv, Honest
  <2>2. /\ rows[k].failures \in Nat
        /\ rows'[k].failures = rows[k].failures + 1
        /\ new.failures = rows[k].failures + 1
    BY <1>1, <1>2, <1>5, <2>1 DEF Row
  <2>3. /\ rows'[k].status = "failed" => rows'[k].failures >= MaxAttempts
        /\ rows'[k].status = "queued" => rows'[k].failures < MaxAttempts
    BY <1>1, <1>2, <1>5, <2>1, <2>2
  <2>4. copy'[w][k] = new
    BY <1>0, <1>1, <1>5 DEF TypeOK
  <2>5. ASSUME NEW v \in Workers PROVE Honest(v, k)'
    <3>1. CASE v = w
      BY <1>0, <1>1, <1>4, <2>2, <2>4, <3>1 DEF Honest, TypeOK
    <3>2. CASE v # w
      <4>1. /\ pc'[v] = pc[v] /\ cur'[v] = cur[v] /\ copy'[v] = copy[v]
            /\ Honest(v, k)
        BY <1>0, <1>4, <1>5, <2>1, <3>2 DEF TypeOK
      <4>2. cur[v] = k => pc[v] \notin Section
        BY <1>1, <1>9, <3>2 DEF EventLockExclusion, InSection, Section
      <4>3. copy[v][k] # NoRow => copy[v][k].failures \in Nat
        BY <1>0, <1>1 DEF TypeOK, Row
      <4> QED
        BY <1>1, <1>4, <2>2, <4>1, <4>2, <4>3 DEF Honest, Section
    <3> QED
      BY <3>1, <3>2
  <2>6. ASSUME rows'[k].failures >= MaxAttempts
        PROVE  rows'[k].failures + Cardinality({v \in Workers : Pending(v, k)'})
                   <= MaxAttempts + Cardinality(Workers) - 1
    <3> DEFINE A == {v \in Workers : Pending(v, k)}
               B == {v \in Workers : Pending(v, k)'}
    <3>1. ~Pending(w, k)' /\ Pending(w, k)
      BY <1>0, <1>1, <1>4, <2>2, <2>4, <2>6 DEF Pending, TypeOK
    <3>2. \A v \in Workers \ {w} : Pending(v, k)' => Pending(v, k)
      BY <1>0, <1>4, <1>5 DEF Pending, TypeOK
    <3>3. A \in SUBSET Workers /\ B \in SUBSET (A \ {w}) /\ w \in A
      BY <3>1, <3>2
    <3>4. rows[k].failures >= MaxAttempts =>
              rows[k].failures + Cardinality(A) <= MaxAttempts + Cardinality(Workers) - 1
      BY <2>1 DEF Counted
    <3> HIDE DEF A, B
    <3>5. IsFiniteSet(A)
      BY <3>3, FS_Subset
    <3>6. /\ Cardinality(A \ {w}) = Cardinality(A) - 1
          /\ Cardinality(Workers \ {w}) = Cardinality(Workers) - 1
      BY <3>3, <3>5, FS_RemoveElement
    <3>7. A \ {w} \in SUBSET Workers /\ B \in SUBSET (Workers \ {w})
      BY <3>3
    <3>8. /\ Cardinality(B) \in Nat /\ Cardinality(A) \in Nat
          /\ Cardinality(Workers) \in Nat
          /\ Cardinality(B) <= Cardinality(A \ {w})
      BY <3>3, <3>7, PendingShrinks
    <3>9. IsFiniteSet(Workers \ {w})
      BY FS_RemoveElement
    <3>10. Cardinality(B) <= Cardinality(Workers \ {w})
      BY <3>7, <3>9, FS_Subset
    <3>11. rows'[k].failures + Cardinality(B) <= MaxAttempts + Cardinality(Workers) - 1
      BY <1>1, <2>2, <2>6, <3>4, <3>6, <3>8, <3>10
    <3> QED
      BY <3>11 DEF B
  <2> QED
    BY <1>4, <2>3, <2>5, <2>6 DEF Counted
<1> QED
  BY <1>1, <1>4, <1>5, <1>7, <1>8, <1>9, NullAssumption DEF AccountInv

(* Commits of a worker that change the status of its event at most.        *)
LEMMA MarkOnly ==
    ASSUME TypeInv, NEW w \in Workers, AtEvent(w), NEW new \in Row, Commit(w, new),
           new.failures = copy[w][cur[w]].failures
    PROVE  /\ rows' \in [Keys -> Row \cup {NoRow}]
           /\ \A k \in Keys : rows'[k] = NoRow <=> rows[k] = NoRow
           /\ \A k \in Keys : rows[k] = NoRow /\ copy[w][k] = NoRow => copy'[w][k] = NoRow
           /\ \A k \in Keys : rows[k] # NoRow => rows'[k].failures = rows[k].failures
           /\ \A k \in Keys : copy'[w][k] # NoRow =>
                  copy[w][k] # NoRow /\ copy'[w][k].failures = copy[w][k].failures
<1>1. /\ cur[w] \in Keys /\ rows[cur[w]] \in Row /\ copy[w][cur[w]] \in Row
      /\ copy[w] \in [Keys -> Row \cup {NoRow}]
  BY DEF TypeInv, TypeOK, RowsInPlace
<1>2. /\ \A k \in Keys \ {cur[w]} : rows'[k] = rows[k]
      /\ rows'[cur[w]].failures = rows[cur[w]].failures
      /\ copy'[w] = [copy[w] EXCEPT ![cur[w]] = new]
  BY CommitEffect
<1>3. rows' \in [Keys -> Row \cup {NoRow}] /\ rows'[cur[w]] \in Row
  BY <1>1, CommitType
<1>4. copy'[w][cur[w]] = new /\ \A k \in Keys \ {cur[w]} : copy'[w][k] = copy[w][k]
  BY <1>1, <1>2
<1>5. /\ rows[cur[w]] # NoRow /\ rows'[cur[w]] # NoRow /\ copy[w][cur[w]] # NoRow
  BY <1>1, <1>3, NullAssumption
<1> QED
  BY <1>1, <1>2, <1>3, <1>4, <1>5

LEMMA AccountNext ==
    ASSUME TypeInv, AccountInv, EventLockExclusion, IsFiniteSet(Workers), [Next]_vars
    PROVE  AccountInv'
<1>0. TypeOK /\ RowsInPlace /\ \A w \in Workers : AtEvent(w) => rows[cur[w]] # NoRow
  BY NullAssumption DEF TypeInv, RowsInPlace
<1>1. ASSUME UNCHANGED <<rows, workerVars, replayed>>
      PROVE  AccountInv'
  <2>1. \A k \in Keys : Counted(k)' <=> Counted(k)
    BY <1>1 DEF Counted, Pending, workerVars
  <2>2. \A k \in Keys, w \in Workers : Honest(w, k)' <=> Honest(w, k)
    BY <1>1 DEF Honest, workerVars
  <2> QED
    BY <1>1, <2>1, <2>2 DEF AccountInv, workerVars
<1>2. ASSUME NEW r \in Receivers, Insert(r)
      PROVE  AccountInv'
  <2>0. rx[r].key \in Keys /\ rx[r].at \in Nat
    BY <1>0, <1>2 DEF Insert, TypeOK
  <2>1. PICK k \in Keys : k = rx[r].key
    BY <2>0
  <2>2. UNCHANGED <<workerVars, replayed>>
    BY <1>2 DEF Insert, historyVars
  <2>3. CASE rows[k] # NoRow
    BY <1>0, <1>1, <1>2, <2>0, <2>1, <2>2, <2>3 DEF Insert, FirstInserted, TypeOK
  <2>4. CASE rows[k] = NoRow
    <3>1. /\ rows' = [rows EXCEPT ![k] = NewRow(k, rx[r].at)]
          /\ NewRow(k, rx[r].at) \in Row
      BY <1>0, <1>2, <2>0, <2>1, <2>4, NewRowType DEF Insert, FirstInserted, TypeOK
    <3>2. /\ rows'[k] = NewRow(k, rx[r].at)
          /\ \A j \in Keys \ {k} : rows'[j] = rows[j]
      BY <1>0, <2>1, <3>1 DEF TypeOK
    <3>3. rows'[k] # NoRow
      BY <3>1, <3>2, NullAssumption
    <3>4. rows'[k].failures = 0 /\ rows'[k].status # "failed" /\ 0 < MaxAttempts
      BY <3>2, SettingsAssumption DEF NewRow
    <3>5. \A w \in Workers : copy[w][k] = NoRow /\ (cur[w] = k => ~AtEvent(w))
      BY <1>0, <2>1, <2>4 DEF AccountInv
    <3>6. Counted(k)' /\ \A w \in Workers : Honest(w, k)'
      <4>1. ~(rows'[k].failures >= MaxAttempts)
        BY <3>4, SettingsAssumption
      <4> QED
        BY <2>2, <3>4, <3>5, <4>1 DEF Counted, Honest, AtEvent, workerVars
    <3>7. ASSUME NEW j \in Keys \ {k}
          PROVE  /\ Counted(j)' <=> Counted(j)
                 /\ \A w \in Workers : Honest(w, j)' <=> Honest(w, j)
      BY <2>2, <3>2 DEF Counted, Pending, Honest, workerVars
    <3> QED
      BY <2>2, <3>2, <3>3, <3>6, <3>7 DEF AccountInv, workerVars
  <2> QED
    BY <2>3, <2>4
<1>3. ASSUME NEW w \in Workers, NEW f \in Forces, Start(w, f)
      PROVE  AccountInv'
  <2>1. PICK b \in SUBSET Keys :
            /\ todo' = [todo EXCEPT ![w] = b]
            /\ copy' = [copy EXCEPT ![w] =
                            [k \in Keys |-> IF k \in b THEN rows[k] ELSE NoRow]]
    BY <1>3 DEF Start
  <2>2. /\ pc' = [pc EXCEPT ![w] = "next"]
        /\ UNCHANGED <<rows, cur, replayed>>
    BY <1>3 DEF Start, historyVars
  <2>3. /\ \A k \in Keys : copy'[w][k] \in {rows[k], NoRow}
        /\ pc'[w] = "next"
        /\ \A v \in Workers \ {w} : /\ pc'[v] = pc[v] /\ cur'[v] = cur[v]
                                    /\ todo'[v] = todo[v] /\ copy'[v] = copy[v]
    BY <1>0, <2>1, <2>2 DEF TypeOK
  <2>4. ASSUME NEW k \in Keys, rows[k] # NoRow
        PROVE  Honest(w, k)' /\ (Pending(w, k)' => rows[k].failures < MaxAttempts)
    <3>1. rows[k].failures \in Nat
      BY <1>0, <2>4 DEF TypeOK, Row
    <3> QED
      BY <2>2, <2>3, <3>1 DEF Honest, Pending
  <2> QED
    BY <1>0, <2>2, <2>3, <2>4, NothingCounted, ZenonT(60) DEF TypeOK
<1>4. ASSUME NEW w \in Workers, Finish(w) \/ Crash(w)
      PROVE  AccountInv'
  <2>1. EndRequest(w) /\ UNCHANGED <<rows, replayed>>
    BY <1>4 DEF Finish, Crash, historyVars
  <2>2. /\ \A k \in Keys : copy'[w][k] = NoRow
        /\ pc'[w] = "idle" /\ todo'[w] = {}
        /\ \A v \in Workers \ {w} : /\ pc'[v] = pc[v] /\ cur'[v] = cur[v]
                                    /\ todo'[v] = todo[v] /\ copy'[v] = copy[v]
    BY <1>0, <2>1 DEF EndRequest, TypeOK
  <2>3. \A k \in Keys : Honest(w, k)' /\ ~Pending(w, k)'
    BY <2>1, <2>2 DEF Honest, Pending
  <2> QED
    BY <1>0, <2>1, <2>2, <2>3, NothingCounted DEF TypeOK
<1>5. ASSUME NEW w \in Workers, Check(w)
      PROVE  AccountInv'
  <2> DEFINE row(k) == Loaded(rows[k], copy[w][k], NoRow)
  <2>1. PICK k0 \in todo[w], matched \in BOOLEAN :
            /\ pc' = [pc EXCEPT ![w] = Verdict(w, k0, row(k0), matched)]
            /\ copy' = [copy EXCEPT ![w] =
                   [j \in Keys |-> IF j = k0 THEN row(k0)
                                   ELSE IF j \in todo[w] THEN @[j] ELSE NoRow]]
            /\ cur' = [cur EXCEPT ![w] = k0]
            /\ todo' = [todo EXCEPT ![w] = @ \ {k0}]
    BY <1>5 DEF Check
  <2>2. UNCHANGED <<rows, replayed>>
    BY <1>5 DEF Check, historyVars
  <2>3. k0 \in Keys /\ rows[k0] \in Row /\ rows[k0] # NoRow
    BY <1>0, NullAssumption DEF TypeOK, RowsInPlace
  <2>4. row(k0) = IF copy[w][k0] = NoRow THEN rows[k0] ELSE copy[w][k0]
    BY DEF Loaded
  <2>5. /\ pc'[w] \in {"next", "exhausted", "skip", "acquire"}
        /\ pc'[w] = "exhausted" => row(k0).failures >= MaxAttempts
        /\ pc'[w] = "acquire" => ~(row(k0).failures >= MaxAttempts)
    BY <1>0, <2>1 DEF Verdict, Exhausted, TypeOK
  <2> HIDE DEF row
  <2>6. /\ copy'[w][k0] = row(k0)
        /\ \A j \in Keys \ {k0} : copy'[w][j] \in {copy[w][j], NoRow}
        /\ cur'[w] = k0
        /\ todo'[w] = todo[w] \ {k0}
        /\ \A v \in Workers \ {w} : /\ pc'[v] = pc[v] /\ cur'[v] = cur[v]
                                    /\ todo'[v] = todo[v] /\ copy'[v] = copy[v]
    BY <1>0, <2>1, <2>3 DEF TypeOK
  <2>7. ASSUME NEW k \in Keys \ replayed, rows[k] # NoRow
        PROVE  Honest(w, k)' /\ (Pending(w, k)' => Pending(w, k) \/ rows[k].failures < MaxAttempts)
    <3>1. Honest(w, k)
      BY <2>7 DEF AccountInv
    <3>2. /\ rows[k].failures \in Nat /\ MaxAttempts \in Nat
          /\ copy[w][k] # NoRow => copy[w][k].failures \in Nat
      BY <1>0, <2>7, SettingsAssumption DEF TypeOK, Row
    <3>3. CASE k = k0
      <4>1. row(k0).failures \in Nat /\ row(k0).failures <= rows[k].failures
        BY <2>4, <3>1, <3>2, <3>3 DEF Honest
      <4>2. Honest(w, k)'
        BY <2>2, <2>5, <2>6, <3>2, <3>3, <4>1 DEF Honest
      <4>3. ASSUME Pending(w, k)' PROVE Pending(w, k) \/ rows[k].failures < MaxAttempts
        <5>1. ~(row(k0).failures >= MaxAttempts)
          BY <2>5, <2>6, <3>3, <4>3 DEF Pending
        <5> QED
          BY <2>4, <3>2, <3>3, <4>1, <5>1 DEF Pending
      <4> QED
        BY <4>2, <4>3
    <3>4. CASE k # k0
      BY <2>2, <2>6, <3>1, <3>4 DEF Honest, Pending
    <3> QED
      BY <3>3, <3>4
  <2>8. \A k \in Keys : rows[k] = NoRow => copy'[w][k] = NoRow
    BY <2>3, <2>6 DEF AccountInv
  <2> QED
    BY <1>0, <2>2, <2>6, <2>7, <2>8, NothingCounted DEF TypeOK
<1>6. ASSUME NEW w \in Workers,
             \/ MarkFailed(w) \/ MarkSkipped(w) \/ MarkProcessing(w)
             \/ SyncSucceeds(w) \/ Release(w)
      PROVE  AccountInv'
  <2>1. AtEvent(w) /\ cur[w] \in Keys /\ copy[w][cur[w]] \in Row
    BY <1>0, <1>6 DEF MarkFailed, MarkSkipped, MarkProcessing, SyncSucceeds, Release,
       AtEvent, RowsInPlace, TypeOK
  <2>2. PICK new \in Row :
          /\ Commit(w, new)
          /\ new.failures = copy[w][cur[w]].failures
          /\ \/ pc[w] = "exhausted" /\ pc'[w] = "next" /\ new.status = "failed"
             \/ pc[w] = "skip" /\ pc'[w] = "next" /\ new.status = "skipped"
             \/ pc[w] = "mark" /\ pc'[w] = "sync" /\ new.status = "processing"
             \/ pc[w] = "sync" /\ pc'[w] = "release" /\ new.status = "processed"
             \/ pc[w] = "release" /\ pc'[w] = "next" /\ new.status = copy[w][cur[w]].status
    <3> DEFINE mark(s) == [copy[w][cur[w]] EXCEPT !.status = s]
    <3>1. \A s \in Status : /\ mark(s) \in Row /\ mark(s).status = s
                            /\ mark(s).failures = copy[w][cur[w]].failures
      BY <2>1 DEF Row
    <3>2. /\ Unlocked(copy[w][cur[w]]) \in Row
          /\ Unlocked(copy[w][cur[w]]).status = copy[w][cur[w]].status
          /\ Unlocked(copy[w][cur[w]]).failures = copy[w][cur[w]].failures
      BY <2>1, UnlockedType DEF Unlocked, Row
    <3>3. {"failed", "skipped", "processing", "processed"} \subseteq Status
      BY DEF Status
    <3>4. CASE MarkFailed(w)
      BY <1>0, <3>1, <3>3, <3>4 DEF MarkFailed, TypeOK
    <3>5. CASE MarkSkipped(w)
      BY <1>0, <3>1, <3>3, <3>5 DEF MarkSkipped, TypeOK
    <3>6. CASE MarkProcessing(w)
      BY <1>0, <3>1, <3>3, <3>6 DEF MarkProcessing, TypeOK
    <3>7. CASE SyncSucceeds(w)
      BY <1>0, <3>1, <3>3, <3>7 DEF SyncSucceeds, TypeOK
    <3>8. CASE Release(w)
      BY <1>0, <3>2, <3>8 DEF Release, TypeOK
    <3> QED
      BY <1>6, <3>4, <3>5, <3>6, <3>7, <3>8
  <2>3. /\ UNCHANGED <<todo, cur, replayed>>
        /\ \A v \in Workers \ {w} : pc'[v] = pc[v]
    BY <1>0, <1>6 DEF MarkFailed, MarkSkipped, MarkProcessing, SyncSucceeds, Release,
       TypeOK, historyVars
  <2>4. /\ \A k \in Keys \ {cur[w]} : rows'[k] = rows[k]
        /\ rows'[cur[w]].status = IF new.status # copy[w][cur[w]].status
                                  THEN new.status ELSE rows[cur[w]].status
        /\ \A v \in Workers \ {w} : copy'[v] = copy[v]
    BY ZenonT(60), <2>1, <2>2, CommitEffect
  <2>5. /\ rows' \in [Keys -> Row \cup {NoRow}]
        /\ \A k \in Keys : rows'[k] = NoRow <=> rows[k] = NoRow
        /\ \A k \in Keys : rows[k] = NoRow => copy'[w][k] = NoRow
        /\ \A k \in Keys : rows[k] # NoRow => rows'[k].failures = rows[k].failures
        /\ \A k \in Keys : copy'[w][k] # NoRow =>
               copy[w][k] # NoRow /\ copy'[w][k].failures = copy[w][k].failures
    BY <2>1, <2>2, MarkOnly DEF AccountInv
  <2>6. ASSUME NEW k \in Keys \ replayed, rows[k] # NoRow
        PROVE  /\ \/ rows'[k].status = rows[k].status
                  \/ /\ rows'[k].status # "queued"
                     /\ rows'[k].status = "failed" => rows[k].failures >= MaxAttempts
               /\ Honest(w, k)'
               /\ Pending(w, k)' => Pending(w, k)
    <3>1. Honest(w, k)
      BY <2>6 DEF AccountInv
    <3>2. Pending(w, k)' => Pending(w, k)
      BY <2>2, <2>3, <2>5 DEF Pending
    <3>3. CASE cur[w] # k
      BY <2>3, <2>4, <2>5, <3>1, <3>2, <3>3 DEF Honest
    <3>4. CASE cur[w] = k
      BY <2>2, <2>3, <2>4, <2>5, <2>6, <3>1, <3>2, <3>4 DEF Honest
    <3> QED
      BY <3>3, <3>4
  <2> QED
    BY <2>3, <2>4, <2>5, <2>6, NothingCounted
<1>7. ASSUME NEW w \in Workers, Acquire(w)
      PROVE  AccountInv'
  <2>1. AtEvent(w) /\ cur[w] \in Keys /\ rows[cur[w]] \in Row /\ pc[w] = "acquire"
    BY <1>0, <1>7 DEF Acquire, AtEvent, RowsInPlace, TypeOK
  <2>2. rows' = [rows EXCEPT ![cur[w]] = [rows[cur[w]] EXCEPT !.lockedAt = runAt[w]]]
    BY <1>0, <1>7, <2>1 DEF Acquire, TypeOK
  <2>3. /\ [rows[cur[w]] EXCEPT !.lockedAt = runAt[w]] \in Row
        /\ [rows[cur[w]] EXCEPT !.lockedAt = runAt[w]].failures = rows[cur[w]].failures
        /\ [rows[cur[w]] EXCEPT !.lockedAt = runAt[w]].status = rows[cur[w]].status
    BY <1>0, <2>1 DEF Row, TypeOK
  <2>4. /\ rows' \in [Keys -> Row \cup {NoRow}]
        /\ rows'[cur[w]] \in Row
        /\ \A k \in Keys \ {cur[w]} : rows'[k] = rows[k]
        /\ rows'[cur[w]].failures = rows[cur[w]].failures
        /\ rows'[cur[w]].status = rows[cur[w]].status
    BY <1>0, <2>1, <2>2, <2>3 DEF TypeOK
  <2>5. \A k \in Keys : rows'[k] = NoRow <=> rows[k] = NoRow
    BY <2>1, <2>4, NullAssumption
  <2>6. /\ UNCHANGED <<todo, cur, copy, replayed>>
        /\ pc'[w] = "refresh"
        /\ \A v \in Workers \ {w} : pc'[v] = pc[v]
    BY <1>0, <1>7 DEF Acquire, TypeOK, historyVars
  <2>7. ASSUME NEW k \in Keys \ replayed, rows[k] # NoRow
        PROVE  /\ rows'[k].failures = rows[k].failures
               /\ rows'[k].status = rows[k].status
               /\ Honest(w, k)'
               /\ Pending(w, k)' => Pending(w, k)
    <3>1. Honest(w, k)
      BY <2>7 DEF AccountInv
    <3> QED
      BY <2>1, <2>4, <2>6, <3>1 DEF Honest, Pending
  <2> QED
    BY <2>4, <2>5, <2>6, <2>7, NothingCounted DEF AccountInv
<1>8. ASSUME NEW w \in Workers, LockLost(w) \/ Refresh(w) \/ SyncFails(w)
      PROVE  AccountInv'
  <2>1. AtEvent(w) /\ cur[w] \in Keys /\ rows[cur[w]] \in Row
    BY <1>0, <1>8 DEF LockLost, Refresh, SyncFails, AtEvent, RowsInPlace, TypeOK
  <2>2. /\ UNCHANGED <<rows, todo, cur, replayed>>
        /\ \A v \in Workers \ {w} : pc'[v] = pc[v] /\ copy'[v] = copy[v]
        /\ copy'[w][cur[w]] = rows[cur[w]]
        /\ \A k \in Keys \ {cur[w]} : copy'[w][k] \in {copy[w][k], NoRow}
        /\ \/ pc[w] = "acquire" /\ pc'[w] = "next"
           \/ pc[w] = "refresh" /\ pc'[w] = "mark"
           \/ pc[w] = "sync" /\ pc'[w] = "fail"
    BY <1>0, <1>8, <2>1 DEF LockLost, Refresh, SyncFails, TypeOK, historyVars
  <2>3. ASSUME NEW k \in Keys \ replayed, rows[k] # NoRow
        PROVE  Honest(w, k)' /\ (Pending(w, k)' => Pending(w, k) \/ rows[k].failures < MaxAttempts)
    <3>1. Honest(w, k)
      BY <2>3 DEF AccountInv
    <3>2. rows[k].failures \in Nat
      BY <1>0, <2>3 DEF TypeOK, Row
    <3>3. CASE cur[w] # k
      BY <2>2, <3>1, <3>3 DEF Honest, Pending
    <3>4. CASE cur[w] = k
      BY <2>2, <3>1, <3>2, <3>4 DEF Honest, Pending
    <3> QED
      BY <3>3, <3>4
  <2>4. \A k \in Keys : rows[k] = NoRow => copy'[w][k] = NoRow
    BY <1>0, <2>1, <2>2 DEF AccountInv
  <2> QED
    BY <1>0, <2>2, <2>3, <2>4, NothingCounted DEF TypeOK
<1>9. ASSUME ReplayWrite
      PROVE  AccountInv'
  <2>1. replay.key \in Keys /\ rows[replay.key] \in Row /\ rows[replay.key] # NoRow
    BY <1>0, <1>9, NullAssumption DEF ReplayWrite, TypeOK, RowsInPlace
  <2>2. /\ replayed' = replayed \cup {replay.key}
        /\ UNCHANGED workerVars
        /\ \A k \in Keys \ {replay.key} : rows'[k] = rows[k]
    BY <1>0, <1>9, <2>1 DEF ReplayWrite, TypeOK
  <2>3. \A k \in Keys \ replayed' :
            /\ Counted(k)' <=> Counted(k)
            /\ \A w \in Workers : Honest(w, k)' <=> Honest(w, k)
    BY <2>2 DEF Counted, Pending, Honest, workerVars
  <2>4. \A w \in Workers, k \in Keys : rows'[k] = NoRow => copy'[w][k] = NoRow
    <3>1. rows'[replay.key] # NoRow
      <4> DEFINE new == [replay.copy EXCEPT !.status      = "queued",
                                            !.availableAt = now,
                                            !.failures    = 0,
                                            !.lockedAt    = NoTime]
      <4>1. replay.copy \in Row /\ now \in Nat
        BY <1>0, <1>9 DEF ReplayWrite, TypeOK
      <4>2. new \in Row
        BY <4>1 DEF Row, Status, NoTime
      <4>3. rows'[replay.key] = Flush(rows[replay.key], replay.copy, new)
        BY <1>0, <1>9, <2>1 DEF ReplayWrite, TypeOK
      <4> HIDE DEF new
      <4>4. rows'[replay.key] \in Row
        BY <2>1, <4>1, <4>2, <4>3, FlushType
      <4> QED
        BY <4>4, NullAssumption
    <3> QED
      BY <2>2, <3>1 DEF AccountInv, workerVars
  <2> QED
    BY <2>2, <2>3, <2>4 DEF AccountInv
<1>10. ASSUME \/ \E r \in Receivers, k \in Keys : Lookup(r, k)
              \/ \E k \in Keys : ReplayRead(k)
              \/ Tick
              \/ UNCHANGED vars
       PROVE  AccountInv'
  BY <1>1, <1>10 DEF Lookup, ReplayRead, Tick, vars, historyVars
<1> QED
  BY <1>2, <1>3, <1>4, <1>5, <1>6, <1>7, <1>8, <1>9, <1>10, OneCounted
  DEF Next, Receive, Advance

(* None is lost.  The failure of an attempt is counted by the worker that  *)
(* has seen it, on the count that is there; a worker that dies in between  *)
(* leaves its event abandoned.                                             *)

NoneLost ==
    \A k \in Keys \ (replayed \cup abandoned) :
        IF rows[k] = NoRow THEN failed[k] = 0
        ELSE failed[k] = rows[k].failures + IF BeingCounted(k) THEN 1 ELSE 0

LEMMA NoneLostInit == Init => NoneLost
BY DEF Init, NoneLost

(* A step at which no attempt fails and no failure is counted.             *)
LEMMA SameCounts ==
    ASSUME NoneLost,
           replayed \subseteq replayed', abandoned \subseteq abandoned',
           \A k \in Keys \ (replayed' \cup abandoned') :
               /\ failed'[k] = failed[k]
               /\ rows'[k] = NoRow <=> rows[k] = NoRow
               /\ rows[k] # NoRow => rows'[k].failures = rows[k].failures
               /\ \A w \in Workers : pc'[w] = "fail" /\ cur'[w] = k
                                         <=> pc[w] = "fail" /\ cur[w] = k
    PROVE  NoneLost'
<1>1. \A k \in Keys \ (replayed' \cup abandoned') : BeingCounted(k)' <=> BeingCounted(k)
  BY DEF BeingCounted
<1> QED
  BY <1>1 DEF NoneLost

(* The commits of a worker that counts nothing.                            *)
LEMMA CommitCountsNothing ==
    ASSUME TypeInv, NoneLost, NEW w \in Workers, AtEvent(w), NEW new \in Row,
           Commit(w, new), new.failures = copy[w][cur[w]].failures,
           pc[w] # "fail", pc'[w] # "fail", \A v \in Workers \ {w} : pc'[v] = pc[v],
           UNCHANGED <<cur, historyVars>>
    PROVE  NoneLost'
<1>1. /\ \A k \in Keys : rows'[k] = NoRow <=> rows[k] = NoRow
      /\ \A k \in Keys : rows[k] # NoRow => rows'[k].failures = rows[k].failures
  BY MarkOnly
<1> QED
  BY <1>1, SameCounts DEF historyVars

LEMMA NoneLostNext ==
    ASSUME TypeInv, AccountInv, EventLockExclusion, NoneLost, [Next]_vars
    PROVE  NoneLost'
<1>0. TypeOK /\ RowsInPlace
  BY DEF TypeInv
<1>1. ASSUME NEW r \in Receivers, Insert(r)
      PROVE  NoneLost'
  <2>1. rx[r].key \in Keys /\ rx[r].at \in Nat
    BY <1>0, <1>1 DEF Insert, TypeOK
  <2>2. PICK k \in Keys : k = rx[r].key
    BY <2>1
  <2>3. UNCHANGED <<workerVars, replayed, abandoned, failed>>
    BY <1>1 DEF Insert, historyVars
  <2>4. CASE rows[k] # NoRow
    <3>1. rows' = rows
      BY <1>0, <1>1, <2>1, <2>2, <2>4 DEF Insert, FirstInserted, TypeOK
    <3> QED
      BY <2>3, <3>1, SameCounts DEF workerVars
  <2>5. CASE rows[k] = NoRow
    <3>1. NewRow(k, rx[r].at) \in Row /\ NewRow(k, rx[r].at).failures = 0
      BY <2>1, NewRowType DEF NewRow
    <3>2. /\ rows'[k] = NewRow(k, rx[r].at)
          /\ \A j \in Keys \ {k} : rows'[j] = rows[j]
      BY <1>0, <1>1, <2>1, <2>2, <2>5 DEF Insert, FirstInserted, TypeOK
    <3>3. ~BeingCounted(k)
      BY <1>0, <2>5, NullAssumption DEF BeingCounted, RowsInPlace, AtEvent
    <3>4. \A j \in Keys : BeingCounted(j)' <=> BeingCounted(j)
      BY <2>3 DEF BeingCounted, workerVars
    <3>5. rows'[k] # NoRow /\ rows'[k].failures = 0
      BY <3>1, <3>2, NullAssumption
    <3> QED
      BY <2>3, <2>5, <3>2, <3>3, <3>4, <3>5 DEF NoneLost
  <2> QED
    BY <2>4, <2>5
<1>2. ASSUME NEW w \in Workers,
             (\E f \in Forces : Start(w, f)) \/ Finish(w) \/ Check(w)
             \/ LockLost(w) \/ Refresh(w)
      PROVE  NoneLost'
  <2>1. /\ pc[w] # "fail" /\ pc'[w] # "fail"
        /\ \A v \in Workers \ {w} : pc'[v] = pc[v] /\ cur'[v] = cur[v]
        /\ UNCHANGED <<rows, replayed, abandoned, failed>>
    BY <1>0, <1>2 DEF Start, Finish, EndRequest, Check, Verdict, LockLost, Refresh,
                      TypeOK, historyVars
  <2> QED
    BY <2>1, SameCounts
<1>3. ASSUME NEW w \in Workers, Crash(w)
      PROVE  NoneLost'
  <2>1. /\ pc'[w] = "idle"
        /\ \A v \in Workers \ {w} : pc'[v] = pc[v] /\ cur'[v] = cur[v]
        /\ UNCHANGED <<rows, replayed, failed>>
        /\ abandoned' = abandoned \cup {k \in Keys : InSection(w, k)}
    BY <1>0, <1>3 DEF Crash, EndRequest, TypeOK
  <2>2. \A k \in Keys \ abandoned' : ~(pc[w] = "fail" /\ cur[w] = k)
    BY <2>1 DEF InSection, Section
  <2> QED
    BY <2>1, <2>2, SameCounts
<1>4. ASSUME NEW w \in Workers, NEW s \in Status,
             Commit(w, [copy[w][cur[w]] EXCEPT !.status = s]),
             AtEvent(w), pc[w] # "fail", pc'[w] # "fail",
             \A v \in Workers \ {w} : pc'[v] = pc[v],
             UNCHANGED <<cur, historyVars>>
      PROVE  NoneLost'
  <2>1. /\ [copy[w][cur[w]] EXCEPT !.status = s] \in Row
        /\ [copy[w][cur[w]] EXCEPT !.status = s].failures = copy[w][cur[w]].failures
    BY <1>0, <1>4 DEF RowsInPlace, Row
  <2> QED
    BY <1>4, <2>1, CommitCountsNothing
<1>5. ASSUME NEW w \in Workers,
             MarkFailed(w) \/ MarkSkipped(w) \/ MarkProcessing(w) \/ SyncSucceeds(w)
      PROVE  NoneLost'
  <2>1. PICK s \in Status : Commit(w, [copy[w][cur[w]] EXCEPT !.status = s])
    BY <1>5 DEF MarkFailed, MarkSkipped, MarkProcessing, SyncSucceeds, Status
  <2>2. /\ AtEvent(w) /\ pc[w] # "fail" /\ pc'[w] # "fail"
        /\ \A v \in Workers \ {w} : pc'[v] = pc[v]
        /\ UNCHANGED <<cur, historyVars>>
    BY <1>0, <1>5 DEF MarkFailed, MarkSkipped, MarkProcessing, SyncSucceeds, AtEvent, TypeOK
  <2> QED
    BY <1>4, <2>1, <2>2
<1>6. ASSUME NEW w \in Workers, Release(w)
      PROVE  NoneLost'
  <2>1. /\ AtEvent(w) /\ pc[w] = "release" /\ pc'[w] = "next"
        /\ \A v \in Workers \ {w} : pc'[v] = pc[v]
        /\ Commit(w, Unlocked(copy[w][cur[w]]))
        /\ UNCHANGED <<cur, historyVars>>
    BY <1>0, <1>6 DEF Release, AtEvent, TypeOK
  <2>2. copy[w][cur[w]] \in Row
    BY <1>0, <2>1 DEF RowsInPlace
  <2>3. /\ Unlocked(copy[w][cur[w]]) \in Row
        /\ Unlocked(copy[w][cur[w]]).failures = copy[w][cur[w]].failures
    BY <2>2, UnlockedType DEF Unlocked, Row
  <2> QED
    BY <2>1, <2>3, CommitCountsNothing
<1>7. ASSUME NEW w \in Workers, Acquire(w)
      PROVE  NoneLost'
  <2>1. cur[w] \in Keys /\ rows[cur[w]] \in Row
    BY <1>0, <1>7 DEF Acquire, AtEvent, RowsInPlace, TypeOK
  <2>2. rows' = [rows EXCEPT ![cur[w]] = [rows[cur[w]] EXCEPT !.lockedAt = runAt[w]]]
    BY <1>0, <1>7, <2>1 DEF Acquire, TypeOK
  <2>3. /\ [rows[cur[w]] EXCEPT !.lockedAt = runAt[w]] \in Row
        /\ [rows[cur[w]] EXCEPT !.lockedAt = runAt[w]].failures = rows[cur[w]].failures
    BY <1>0, <2>1 DEF Row, TypeOK
  <2>4. \A k \in Keys : /\ rows'[k] = NoRow <=> rows[k] = NoRow
                        /\ rows[k] # NoRow => rows'[k].failures = rows[k].failures
    BY <1>0, <2>1, <2>2, <2>3, NullAssumption DEF TypeOK
  <2>5. /\ pc[w] # "fail" /\ pc'[w] # "fail"
        /\ \A v \in Workers \ {w} : pc'[v] = pc[v]
        /\ UNCHANGED <<cur, replayed, abandoned, failed>>
    BY <1>0, <1>7 DEF Acquire, TypeOK, historyVars
  <2> QED
    BY <2>4, <2>5, SameCounts
<1>8. ASSUME NEW w \in Workers, SyncFails(w)
      PROVE  NoneLost'
  <2> DEFINE k == cur[w]
  <2>1. /\ k \in Keys /\ pc[w] = "sync" /\ pc'[w] = "fail" /\ rows[k] \in Row
        /\ \A v \in Workers \ {w} : pc'[v] = pc[v]
        /\ UNCHANGED <<rows, cur, replayed, abandoned>>
        /\ \A j \in Keys \ {k} : failed'[j] = failed[j]
        /\ k \notin replayed => failed'[k] = failed[k] + 1
    BY <1>0, <1>8 DEF SyncFails, AtEvent, RowsInPlace, TypeOK
  <2>2. \A j \in Keys \ {k} : BeingCounted(j)' <=> BeingCounted(j)
    BY <2>1 DEF BeingCounted
  <2>3. BeingCounted(k)'
    BY <2>1 DEF BeingCounted
  <2>4. k \notin replayed => ~BeingCounted(k)
    BY <2>1 DEF BeingCounted, EventLockExclusion, InSection, Section
  <2>5. rows[k] # NoRow /\ rows[k].failures \in Nat
    BY <2>1, NullAssumption DEF Row
  <2>6. ASSUME k \notin replayed \cup abandoned
        PROVE  failed'[k] = rows'[k].failures + 1
    <3>1. failed[k] = rows[k].failures + 0
      BY <2>1, <2>4, <2>5, <2>6 DEF NoneLost
    <3> QED
      BY <2>1, <2>5, <2>6, <3>1
  <2> QED
    BY <2>1, <2>2, <2>3, <2>5, <2>6 DEF NoneLost
<1>9. ASSUME NEW w \in Workers, RecordFailure(w)
      PROVE  NoneLost'
  <2> DEFINE k   == cur[w]
             new == AfterFailure(copy[w][k], runAt[w])
  <2>1. /\ AtEvent(w) /\ k \in Keys /\ copy[w][k] \in Row /\ rows[k] \in Row
        /\ runAt[w] \in Nat /\ pc[w] = "fail" /\ pc'[w] = "release"
        /\ \A v \in Workers \ {w} : pc'[v] = pc[v]
        /\ UNCHANGED <<cur, replayed, abandoned, failed>>
    BY <1>0, <1>9 DEF RecordFailure, AtEvent, RowsInPlace, TypeOK, historyVars
  <2>2. new \in Row /\ new.failures = copy[w][k].failures + 1
    BY <2>1, AfterFailureType, ZenonT(60) DEF AfterFailure, Row
  <2>3. Commit(w, new)
    BY <1>9 DEF RecordFailure
  <2> HIDE DEF new
  <2>4. /\ \A j \in Keys \ {k} : rows'[j] = rows[j]
        /\ rows'[k].failures = IF new.failures # copy[w][k].failures
                               THEN new.failures ELSE rows[k].failures
    BY <2>1, <2>2, <2>3, CommitEffect
  <2>5. rows[k] # NoRow /\ rows'[k] # NoRow
    BY <2>1, <2>2, <2>3, CommitType, NullAssumption
  <2>6. k \notin replayed => copy[w][k].failures = rows[k].failures
    BY <2>1, <2>5 DEF AccountInv, Honest
  <2>7. \A j \in Keys \ {k} : BeingCounted(j)' <=> BeingCounted(j)
    BY <2>1 DEF BeingCounted
  <2>8. BeingCounted(k)
    BY <2>1 DEF BeingCounted
  <2>9. k \notin replayed => ~BeingCounted(k)'
    BY <2>1 DEF BeingCounted, EventLockExclusion, InSection, Section
  <2>10. ASSUME k \notin replayed \cup abandoned
         PROVE  failed'[k] = rows'[k].failures + 0
    <3>1. failed[k] = rows[k].failures + 1
      BY <2>1, <2>5, <2>8, <2>10 DEF NoneLost
    <3>2. rows[k].failures \in Nat
      BY <2>1 DEF Row
    <3> QED
      BY <2>1, <2>2, <2>4, <2>6, <2>10, <3>1, <3>2
  <2> QED
    BY <2>1, <2>4, <2>5, <2>7, <2>9, <2>10 DEF NoneLost
<1>10. ASSUME ReplayWrite
       PROVE  NoneLost'
  <2>1. /\ \A j \in Keys \ {replay.key} : rows'[j] = rows[j] /\ failed'[j] = failed[j]
        /\ replayed' = replayed \cup {replay.key}
        /\ UNCHANGED <<pc, cur, abandoned>>
    BY <1>0, <1>10 DEF ReplayWrite, TypeOK, workerVars
  <2> QED
    BY <2>1, SameCounts
<1>11. ASSUME \/ \E r \in Receivers, k \in Keys : Lookup(r, k)
              \/ \E k \in Keys : ReplayRead(k)
              \/ Tick
              \/ UNCHANGED vars
       PROVE  NoneLost'
  <2>1. UNCHANGED <<rows, pc, cur, replayed, abandoned, failed>>
    BY <1>11 DEF Lookup, ReplayRead, Tick, vars, workerVars, historyVars
  <2> QED
    BY <2>1, SameCounts
<1> QED
  BY <1>1, <1>2, <1>3, <1>5, <1>6, <1>7, <1>8, <1>9, <1>10, <1>11
  DEF Next, Receive, Advance

(* If requests end before their locks go stale, the failure count of an    *)
(* event that was not replayed is the number of attempts at it that        *)
(* failed, but for those whose worker died; it ends the event at the       *)
(* maximum, and exceeds that by one at most for every other worker.        *)
THEOREM FailuresAreCounted ==
    ASSUME MaxRun < LockTimeout, IsFiniteSet(Workers)
    PROVE  Spec => []FailureAccounting
<1>1. Init => TypeInv /\ ExclusionInv /\ AccountInv /\ NoneLost
  BY TypeInvInit, ExclusionInit, AccountInit, NoneLostInit
<1>2. TypeInv /\ ExclusionInv /\ AccountInv /\ NoneLost /\ [Next]_vars
          => (TypeInv /\ ExclusionInv /\ AccountInv /\ NoneLost)'
  BY TypeInvNext, ExclusionNext, AccountNext, NoneLostNext DEF ExclusionInv
<1>3. TypeInv /\ AccountInv /\ NoneLost => FailureAccounting
  <2> SUFFICES ASSUME TypeInv, AccountInv, NoneLost,
                      NEW k \in Keys \ replayed, rows[k] # NoRow
               PROVE  /\ k \notin abandoned =>
                             failed[k] = rows[k].failures + IF BeingCounted(k) THEN 1 ELSE 0
                      /\ rows[k].failures <= MaxAttempts + Cardinality(Workers) - 1
                      /\ rows[k].status = "failed" => rows[k].failures >= MaxAttempts
                      /\ rows[k].status = "queued" => rows[k].failures < MaxAttempts
    BY DEF FailureAccounting
  <2>1. Counted(k)
    BY DEF AccountInv
  <2>2. rows[k].failures \in Nat /\ MaxAttempts \in Nat
    BY SettingsAssumption DEF TypeInv, TypeOK, Row
  <2> DEFINE A == {w \in Workers : Pending(w, k)}
  <2>3. rows[k].failures >= MaxAttempts =>
            rows[k].failures + Cardinality(A) <= MaxAttempts + Cardinality(Workers) - 1
    BY <2>1 DEF Counted
  <2>4. A \in SUBSET Workers
    OBVIOUS
  <2> HIDE DEF A
  <2>5. Cardinality(A) \in Nat /\ Cardinality(Workers) \in Nat
    BY <2>4, PendingShrinks
  <2>6. k \notin abandoned =>
            failed[k] = rows[k].failures + IF BeingCounted(k) THEN 1 ELSE 0
    BY DEF NoneLost
  <2> QED
    BY <2>1, <2>2, <2>3, <2>5, <2>6 DEF Counted
<1> QED
  BY <1>1, <1>2, <1>3, PTL DEF Spec

-------------------------------------------------------------------------------
(* The promise of ClaimQueue.  A commit writes a status only where the copy *)
(* says another: what a worker has marked is in its copy, and an event it  *)
(* saw dropped when its sync failed is not taken up by anyone else.        *)

Marked ==
    \A w \in Workers : pc[w] = "sync" => copy[w][cur[w]].status = "processing"

IsDropped(row) == row.status \in {"skipped", "failed"}

DropsStay ==
    \A w \in Workers :
        pc[w] = "fail" /\ cur[w] \notin replayed /\ IsDropped(copy[w][cur[w]])
            => IsDropped(rows[cur[w]])

ClaimInv == Marked /\ DropsStay

LEMMA ClaimInit == Init => ClaimInv
BY DEF Init, ClaimInv, Marked, DropsStay

(* A step of one worker that commits nothing another worker could miss.    *)
LEMMA ClaimInvStep ==
    ASSUME ClaimInv, TypeInv, NEW w \in Workers,
           \A v \in Workers \ {w} :
               pc'[v] = pc[v] /\ cur'[v] = cur[v] /\ copy'[v] = copy[v],
           replayed' = replayed,
           \A v \in Workers \ {w} :
               pc[v] = "fail" /\ cur[v] \notin replayed /\ IsDropped(rows[cur[v]])
                   => IsDropped(rows'[cur[v]]),
           pc'[w] = "sync" => copy'[w][cur'[w]].status = "processing",
           pc'[w] = "fail" /\ IsDropped(copy'[w][cur'[w]]) => IsDropped(rows'[cur'[w]])
    PROVE  ClaimInv'
BY DEF ClaimInv, Marked, DropsStay

LEMMA ClaimInvNext ==
    ASSUME TypeInv, ClaimInv, EventLockExclusion, [Next]_vars
    PROVE  ClaimInv'
<1>0. TypeOK /\ RowsInPlace
  BY DEF TypeInv
<1>1. ASSUME UNCHANGED <<pc, cur, copy, replayed>>,
             \A k \in Keys : rows[k] \in Row => rows'[k] = rows[k]
      PROVE  ClaimInv'
  BY <1>0, <1>1 DEF ClaimInv, Marked, DropsStay, RowsInPlace, AtEvent, TypeOK
<1>2. ASSUME NEW r \in Receivers, Insert(r) \/ \E k \in Keys : Lookup(r, k)
      PROVE  ClaimInv'
  <2>1. \A k \in Keys : rows[k] \in Row => rows'[k] = rows[k]
    BY <1>0, <1>2, NullAssumption DEF Insert, Lookup, FirstInserted, TypeOK
  <2> QED
    BY <1>1, <1>2, <2>1 DEF Insert, Lookup, workerVars, historyVars
<1>3. ASSUME NEW w \in Workers, NEW f \in Forces, Start(w, f)
      PROVE  ClaimInv'
  <2>1. /\ pc'[w] = "next"
        /\ \A v \in Workers \ {w} :
               pc'[v] = pc[v] /\ cur'[v] = cur[v] /\ copy'[v] = copy[v]
        /\ UNCHANGED <<rows, replayed>>
    BY <1>0, <1>3 DEF Start, TypeOK, historyVars
  <2> QED
    BY <2>1, ClaimInvStep
<1>4. ASSUME NEW w \in Workers, Finish(w) \/ Crash(w)
      PROVE  ClaimInv'
  <2>1. EndRequest(w) /\ rows' = rows /\ replayed' = replayed
    BY <1>4 DEF Finish, Crash, historyVars
  <2>2. /\ pc'[w] = "idle"
        /\ \A v \in Workers \ {w} :
               pc'[v] = pc[v] /\ cur'[v] = cur[v] /\ copy'[v] = copy[v]
    BY <1>0, <2>1 DEF EndRequest, TypeOK
  <2> QED
    BY <2>1, <2>2, ClaimInvStep
<1>5. ASSUME NEW w \in Workers, Check(w)
      PROVE  ClaimInv'
  <2>1. pc'[w] \in {"next", "exhausted", "skip", "acquire"}
    BY <1>0, <1>5 DEF Check, Verdict, TypeOK
  <2>2. /\ \A v \in Workers \ {w} :
               pc'[v] = pc[v] /\ cur'[v] = cur[v] /\ copy'[v] = copy[v]
        /\ UNCHANGED <<rows, replayed>>
    BY <1>0, <1>5 DEF Check, TypeOK, historyVars
  <2> QED
    BY <2>1, <2>2, ClaimInvStep
<1>6. ASSUME NEW w \in Workers, Acquire(w)
      PROVE  ClaimInv'
  <2>1. /\ pc'[w] = "refresh"
        /\ \A v \in Workers \ {w} : pc'[v] = pc[v]
        /\ UNCHANGED <<cur, copy, replayed>>
    BY <1>0, <1>6 DEF Acquire, TypeOK, historyVars
  <2>2. \A k \in Keys : rows[k] \in Row => rows'[k].status = rows[k].status
    BY <1>0, <1>6 DEF Acquire, TypeOK, Row
  <2>3. \A v \in Workers : pc[v] = "fail" => cur[v] \in Keys /\ rows[cur[v]] \in Row
    BY <1>0 DEF RowsInPlace, AtEvent, TypeOK
  <2> QED
    BY <2>1, <2>2, <2>3, ClaimInvStep DEF IsDropped
<1>7. ASSUME NEW w \in Workers, LockLost(w) \/ Refresh(w)
      PROVE  ClaimInv'
  <2>1. /\ pc'[w] \in {"next", "mark"}
        /\ \A v \in Workers \ {w} : pc'[v] = pc[v] /\ copy'[v] = copy[v]
        /\ UNCHANGED <<rows, cur, replayed>>
    BY <1>0, <1>7 DEF LockLost, Refresh, TypeOK, historyVars
  <2> QED
    BY <2>1, ClaimInvStep
<1>8. ASSUME NEW w \in Workers, SyncFails(w)
      PROVE  ClaimInv'
  <2>1. /\ pc'[w] = "fail" /\ cur[w] \in Keys
        /\ copy'[w][cur[w]] = rows[cur[w]]
        /\ \A v \in Workers \ {w} : pc'[v] = pc[v] /\ copy'[v] = copy[v]
        /\ UNCHANGED <<rows, cur, replayed>>
    BY <1>0, <1>8 DEF SyncFails, TypeOK, historyVars
  <2> QED
    BY <2>1, ClaimInvStep
<1>9. ASSUME NEW w \in Workers, AtEvent(w), NEW new \in Row, Commit(w, new),
             new.status # copy[w][cur[w]].status =>
                 IsDropped(new) \/ InSection(w, cur[w]),
             pc'[w] # "fail", pc'[w] = "sync" => new.status = "processing",
             \A v \in Workers \ {w} : pc'[v] = pc[v],
             UNCHANGED <<cur, replayed>>
      PROVE  ClaimInv'
  <2>1. /\ \A k \in Keys \ {cur[w]} : rows'[k] = rows[k]
        /\ rows'[cur[w]].status = IF new.status # copy[w][cur[w]].status
                                  THEN new.status ELSE rows[cur[w]].status
        /\ \A v \in Workers \ {w} : copy'[v] = copy[v]
        /\ copy'[w][cur[w]] = new
    BY <1>9, CommitEffect
  <2>2. ASSUME NEW v \in Workers \ {w}, pc[v] = "fail", cur[v] \notin replayed,
               IsDropped(rows[cur[v]])
        PROVE  IsDropped(rows'[cur[v]])
    <3>1. cur[v] \in Keys
      BY <1>0 DEF TypeOK
    <3>2. CASE cur[v] # cur[w]
      BY <2>1, <2>2, <3>1, <3>2
    <3>3. CASE cur[v] = cur[w] /\ InSection(w, cur[w])
      BY <2>2, <3>1, <3>3 DEF EventLockExclusion, InSection, Section
    <3>4. CASE cur[v] = cur[w] /\ ~InSection(w, cur[w])
      BY <1>9, <2>1, <2>2, <3>4 DEF IsDropped
    <3> QED
      BY <3>2, <3>3, <3>4
  <2> QED
    BY <1>9, <2>1, <2>2, ClaimInvStep
<1>10. ASSUME NEW w \in Workers, MarkFailed(w) \/ MarkSkipped(w)
       PROVE  ClaimInv'
  <2>1. PICK s \in {"failed", "skipped"} :
            Commit(w, [copy[w][cur[w]] EXCEPT !.status = s])
    BY <1>10 DEF MarkFailed, MarkSkipped
  <2>2. /\ AtEvent(w) /\ copy[w][cur[w]] \in Row /\ pc'[w] = "next"
        /\ \A v \in Workers \ {w} : pc'[v] = pc[v]
        /\ UNCHANGED <<cur, replayed>>
    BY <1>0, <1>10 DEF MarkFailed, MarkSkipped, AtEvent, RowsInPlace, TypeOK, historyVars
  <2>3. /\ [copy[w][cur[w]] EXCEPT !.status = s] \in Row
        /\ [copy[w][cur[w]] EXCEPT !.status = s].status = s
    BY <2>2 DEF Row, Status
  <2> QED
    BY <1>9, <2>1, <2>2, <2>3 DEF IsDropped
<1>11. ASSUME NEW w \in Workers, MarkProcessing(w) \/ SyncSucceeds(w)
       PROVE  ClaimInv'
  <2>1. PICK s \in {"processing", "processed"} :
            /\ Commit(w, [copy[w][cur[w]] EXCEPT !.status = s])
            /\ pc'[w] = IF s = "processing" THEN "sync" ELSE "release"
    BY <1>0, <1>11 DEF MarkProcessing, SyncSucceeds, TypeOK
  <2>2. /\ AtEvent(w) /\ InSection(w, cur[w]) /\ copy[w][cur[w]] \in Row
        /\ \A v \in Workers \ {w} : pc'[v] = pc[v]
        /\ UNCHANGED <<cur, replayed>>
    BY <1>0, <1>11 DEF MarkProcessing, SyncSucceeds, AtEvent, InSection, Section,
                       RowsInPlace, TypeOK, historyVars
  <2>3. /\ [copy[w][cur[w]] EXCEPT !.status = s] \in Row
        /\ [copy[w][cur[w]] EXCEPT !.status = s].status = s
    BY <2>2 DEF Row, Status
  <2> QED
    BY <1>9, <2>1, <2>2, <2>3
<1>12. ASSUME NEW w \in Workers, RecordFailure(w)
       PROVE  ClaimInv'
  <2>1. /\ AtEvent(w) /\ InSection(w, cur[w]) /\ copy[w][cur[w]] \in Row
        /\ runAt[w] \in Nat /\ pc'[w] = "release"
        /\ Commit(w, AfterFailure(copy[w][cur[w]], runAt[w]))
        /\ \A v \in Workers \ {w} : pc'[v] = pc[v]
        /\ UNCHANGED <<cur, replayed>>
    BY <1>0, <1>12 DEF RecordFailure, AtEvent, InSection, Section, RowsInPlace, TypeOK,
                       historyVars
  <2>2. AfterFailure(copy[w][cur[w]], runAt[w]) \in Row
    BY <2>1, AfterFailureType
  <2> QED
    BY <1>9, <2>1, <2>2
<1>13. ASSUME NEW w \in Workers, Release(w)
       PROVE  ClaimInv'
  <2>1. /\ AtEvent(w) /\ InSection(w, cur[w]) /\ copy[w][cur[w]] \in Row
        /\ pc'[w] = "next"
        /\ Commit(w, Unlocked(copy[w][cur[w]]))
        /\ \A v \in Workers \ {w} : pc'[v] = pc[v]
        /\ UNCHANGED <<cur, replayed>>
    BY <1>0, <1>13 DEF Release, AtEvent, InSection, Section, RowsInPlace, TypeOK,
                       historyVars
  <2>2. Unlocked(copy[w][cur[w]]) \in Row
    BY <2>1, UnlockedType
  <2> QED
    BY <1>9, <2>1, <2>2
<1>14. ASSUME ReplayWrite
       PROVE  ClaimInv'
  <2>1. /\ \A k \in Keys \ {replay.key} : rows'[k] = rows[k]
        /\ replayed' = replayed \cup {replay.key}
        /\ UNCHANGED <<pc, cur, copy>>
    BY <1>0, <1>14 DEF ReplayWrite, TypeOK, workerVars
  <2> QED
    BY <1>0, <2>1 DEF ClaimInv, Marked, DropsStay, TypeOK
<1>15. ASSUME (\E k \in Keys : ReplayRead(k)) \/ Tick \/ UNCHANGED vars
       PROVE  ClaimInv'
  BY <1>1, <1>15 DEF ReplayRead, Tick, vars, workerVars, historyVars
<1> QED
  BY <1>2, <1>3, <1>4, <1>5, <1>6, <1>7, <1>8, <1>10, <1>11, <1>12, <1>13, <1>14,
     <1>15
  DEF Next, Receive, Advance

-------------------------------------------------------------------------------
(* The steps of a worker as ClaimQueue sees them.                          *)

Open == {"refresh", "mark", "sync", "fail"}

(* The one row a step changes.                                             *)
LEMMA OneResult ==
    ASSUME TypeInv, NEW k \in Keys, rows' \in [Keys -> Row \cup {NoRow}],
           \A j \in Keys \ {k} : rows'[j] = rows[j],
           rows'[k] \in Row, replayed' = replayed
    PROVE  /\ k \in replayed => Results' = Results /\ Attempts' = Attempts
           /\ k \notin replayed =>
                 /\ Results' = [Results EXCEPT ![k] = Outcome[rows'[k].status]]
                 /\ Attempts' = [Attempts EXCEPT ![k] = rows'[k].failures]
<1>1. rows'[k] # NoRow
  BY NullAssumption
<1>2. CASE k \in replayed
  BY <1>2 DEF Results, Attempts
<1>3. CASE k \notin replayed
  <2>1. Results' = [Results EXCEPT ![k] = Outcome[rows'[k].status]]
    BY <1>1, <1>3 DEF Results
  <2>2. Attempts' = [Attempts EXCEPT ![k] = rows'[k].failures]
    BY <1>1, <1>3 DEF Attempts
  <2> QED
    BY <1>3, <2>1, <2>2
<1> QED
  BY <1>2, <1>3

LEMMA OutcomeIs ==
    /\ Outcome["queued"] = "waiting" /\ Outcome["processing"] = "waiting"
    /\ Outcome["processed"] = "done"
    /\ Outcome["skipped"] = "dropped" /\ Outcome["failed"] = "dropped"
BY DEF Outcome

LEMMA ResultIs ==
    ASSUME TypeInv, NEW k \in Keys \ replayed, rows[k] # NoRow
    PROVE  /\ Results[k] = Outcome[rows[k].status]
           /\ Attempts[k] = rows[k].failures
           /\ Claims!Present(k)
<1>1. rows[k] \in Row /\ rows[k].status \in Status
  BY DEF TypeInv, TypeOK, Row
<1>2. Results[k] = Outcome[rows[k].status] /\ Attempts[k] = rows[k].failures
  BY DEF Results, Attempts
<1> QED
  BY <1>1, <1>2, OutcomeIs DEF Claims!Present, Status

(* A step that neither takes a lock nor gives one back.                    *)
LEMMA SameClaims ==
    ASSUME replayed' = replayed,
           \A v \in Workers :
               \/ pc'[v] = pc[v] /\ cur'[v] = cur[v]
               \/ pc[v] \notin Section /\ pc'[v] \notin Section
               \/ pc[v] \in Open /\ pc'[v] \in Open /\ cur'[v] = cur[v]
    PROVE  Holding' = Holding /\ Answered' = Answered
BY DEF Holding, Answered, InSection, Section, Open

LEMMA Quiet ==
    ASSUME UNCHANGED <<rows, replayed>>, Holding' = Holding /\ Answered' = Answered
    PROVE  UNCHANGED <<Results, Attempts, Holding, Answered>>
BY DEF Results, Attempts

(* The worker in work on an event that was not replayed.                   *)
LEMMA HoldingIs ==
    ASSUME TypeInv, NEW w \in Workers
    PROVE  /\ pc[w] \notin Section => Holding[w] = {} /\ w \notin Answered
           /\ cur[w] \in replayed => Holding[w] = {} /\ w \notin Answered
           /\ pc[w] \in Section /\ cur[w] \notin replayed => Holding[w] = {cur[w]}
           /\ pc[w] \in Open => w \notin Answered
           /\ pc[w] = "release" /\ cur[w] \notin replayed => w \in Answered
           /\ DOMAIN Holding = Workers
BY DEF TypeInv, TypeOK, Holding, Answered, InSection, Section, Open

(* It leaves, by the release of its lock or by dying.                      *)
LEMMA LeaveStep ==
    ASSUME TypeInv, NEW w \in Workers, pc'[w] \notin Section,
           \A v \in Workers \ {w} : pc'[v] = pc[v] /\ cur'[v] = cur[v],
           replayed' = replayed
    PROVE  /\ Holding' = [Holding EXCEPT ![w] = {}]
           /\ Answered' = Answered \ {w}
BY DEF Holding, Answered, InSection, Section

(* Its claim brings a result.                                              *)
LEMMA AnswerStep ==
    ASSUME TypeInv, NEW w \in Workers, pc[w] \in Open, pc'[w] = "release",
           \A v \in Workers \ {w} : pc'[v] = pc[v],
           cur' = cur, replayed' = replayed
    PROVE  /\ Holding' = Holding
           /\ cur[w] \notin replayed => Answered' = Answered \cup {w}
           /\ cur[w] \in replayed => Answered' = Answered
BY DEF Holding, Answered, InSection, Section, Open

LEMMA ClaimsInit == Init => Claims!Init
BY DEF Init, Claims!Init, Results, Attempts, Holding, Answered, InSection, Section

ClaimsVars == <<Results, Attempts, Holding, Answered>>

LEMMA ClaimsNext ==
    ASSUME TypeInv, AccountInv, ClaimInv, (TypeInv /\ EventLockExclusion)', [Next]_vars
    PROVE  Claims!Next \/ UNCHANGED ClaimsVars
<1>0. TypeOK /\ RowsInPlace /\ TypeOK'
  BY DEF TypeInv
<1>1. ASSUME NEW r \in Receivers, Insert(r)
      PROVE  Claims!Next \/ UNCHANGED ClaimsVars
  <2> DEFINE k == rx[r].key
             new == NewRow(k, rx[r].at)
  <2>1. k \in Keys /\ rx[r].at \in Nat
    BY <1>0, <1>1 DEF Insert, TypeOK
  <2>2. UNCHANGED <<pc, cur, replayed>>
    BY <1>1 DEF Insert, workerVars, historyVars
  <2>3. Holding' = Holding /\ Answered' = Answered
    BY <2>2, SameClaims
  <2>4. CASE rows[k] # NoRow
    <3>1. rows' = rows
      BY <1>0, <1>1, <2>1, <2>4 DEF Insert, FirstInserted, TypeOK
    <3> QED
      BY <2>2, <2>3, <3>1, Quiet DEF ClaimsVars
  <2>5. CASE rows[k] = NoRow
    <3>1. /\ \A j \in Keys \ {k} : rows'[j] = rows[j]
          /\ rows'[k] = new /\ new \in Row
      BY <1>0, <1>1, <2>1, <2>5, NewRowType DEF Insert, FirstInserted, TypeOK
    <3>2. new.status \in {"queued", "skipped"} /\ new.failures = 0
      BY DEF NewRow
    <3> HIDE DEF new
    <3>3. CASE k \in replayed
      BY <1>0, <2>1, <2>2, <2>3, <3>1, <3>3, OneResult DEF ClaimsVars, TypeOK
    <3>4. CASE k \notin replayed
      <4>1. /\ Results' = [Results EXCEPT ![k] = Outcome[new.status]]
            /\ Attempts' = [Attempts EXCEPT ![k] = 0]
        BY <1>0, <2>1, <2>2, <3>1, <3>2, <3>4, OneResult DEF TypeOK
      <4>2. Results[k] = "absent" /\ Attempts' = Attempts
        BY <2>1, <2>5, <3>4, <4>1 DEF Results, Attempts
      <4>3. Outcome[new.status] \in {"waiting", "dropped"}
        BY <3>2, OutcomeIs
      <4>4. Claims!Deliver(k)
        BY <2>3, <4>1, <4>2, <4>3 DEF Claims!Deliver
      <4> QED
        BY <2>1, <4>4 DEF Claims!Next
    <3> QED
      BY <3>3, <3>4
  <2> QED
    BY <2>4, <2>5
<1>2. ASSUME NEW r \in Receivers, NEW k \in Keys, Lookup(r, k)
      PROVE  UNCHANGED ClaimsVars
  BY <1>2, SameClaims, Quiet DEF Lookup, workerVars, historyVars, ClaimsVars
<1>3. ASSUME NEW w \in Workers, NEW f \in Forces, Start(w, f)
      PROVE  UNCHANGED ClaimsVars
  <2>1. /\ pc[w] \notin Section /\ pc'[w] \notin Section
        /\ \A v \in Workers \ {w} : pc'[v] = pc[v]
        /\ UNCHANGED <<rows, cur, replayed>>
    BY <1>0, <1>3 DEF Start, Section, TypeOK, historyVars
  <2> QED
    BY <2>1, SameClaims, Quiet DEF ClaimsVars
<1>4. ASSUME NEW w \in Workers, Finish(w) \/ Crash(w)
      PROVE  Claims!Next \/ UNCHANGED ClaimsVars
  <2>1. EndRequest(w) /\ UNCHANGED <<rows, replayed>>
    BY <1>4 DEF Finish, Crash, historyVars
  <2>2. /\ pc'[w] = "idle"
        /\ \A v \in Workers \ {w} : pc'[v] = pc[v] /\ cur'[v] = cur[v]
    BY <1>0, <2>1 DEF EndRequest, TypeOK
  <2>3. UNCHANGED <<Results, Attempts>>
    BY <2>1 DEF Results, Attempts
  <2>4. /\ Holding' = [Holding EXCEPT ![w] = {}]
        /\ Answered' = Answered \ {w}
    BY <2>1, <2>2, LeaveStep DEF Section
  <2>5. CASE Holding[w] # {}
    BY <2>3, <2>4, <2>5 DEF Claims!Next, Claims!Die, Claims!Leave
  <2>6. CASE Holding[w] = {}
    <3>1. w \notin Answered
      BY <2>6, HoldingIs DEF Answered, Section
    <3>2. Holding' = Holding
      BY <2>4, <2>6 DEF Holding
    <3> QED
      BY <2>3, <2>4, <3>1, <3>2 DEF ClaimsVars
  <2> QED
    BY <2>5, <2>6
<1>5. ASSUME NEW w \in Workers, Check(w)
      PROVE  UNCHANGED ClaimsVars
  <2>1. pc[w] = "next" /\ pc'[w] \in {"next", "exhausted", "skip", "acquire"}
    BY <1>0, <1>5 DEF Check, Verdict, TypeOK
  <2>2. /\ \A v \in Workers \ {w} : pc'[v] = pc[v] /\ cur'[v] = cur[v]
        /\ UNCHANGED <<rows, replayed>>
    BY <1>0, <1>5 DEF Check, TypeOK, historyVars
  <2>3. pc[w] \notin Section /\ pc'[w] \notin Section
    BY <2>1 DEF Section
  <2> QED
    BY <2>2, <2>3, SameClaims, Quiet DEF ClaimsVars
<1>6. ASSUME NEW w \in Workers, LockLost(w) \/ Refresh(w) \/ SyncFails(w)
      PROVE  UNCHANGED ClaimsVars
  <2>1. /\ \/ pc[w] \notin Section /\ pc'[w] \notin Section
           \/ pc[w] \in Open /\ pc'[w] \in Open
        /\ \A v \in Workers \ {w} : pc'[v] = pc[v]
        /\ UNCHANGED <<rows, cur, replayed>>
    BY <1>0, <1>6 DEF LockLost, Refresh, SyncFails, Section, Open, TypeOK, historyVars
  <2> QED
    BY <2>1, SameClaims, Quiet DEF ClaimsVars
<1>7. ASSUME NEW w \in Workers, Acquire(w)
      PROVE  Claims!Next \/ UNCHANGED ClaimsVars
  <2> DEFINE k == cur[w]
  <2>1. /\ k \in Keys /\ rows[k] \in Row /\ runAt[w] \in Nat
        /\ pc[w] = "acquire" /\ pc'[w] = "refresh"
        /\ \A v \in Workers \ {w} : pc'[v] = pc[v]
        /\ UNCHANGED <<cur, replayed>>
    BY <1>0, <1>7 DEF Acquire, AtEvent, RowsInPlace, TypeOK, historyVars
  <2>2. /\ \A j \in Keys \ {k} : rows'[j] = rows[j]
        /\ rows'[k] \in Row
        /\ rows'[k].status = rows[k].status /\ rows'[k].failures = rows[k].failures
    BY <1>0, <1>7, <2>1 DEF Acquire, TypeOK, Row
  <2>3. Results' = Results /\ Attempts' = Attempts
    BY <2>1, <2>2, NullAssumption DEF Results, Attempts
  <2>4. CASE k \in replayed
    <3>1. Holding' = Holding /\ Answered' = Answered
      BY <2>1, <2>4 DEF Holding, Answered, InSection, Section
    <3> QED
      BY <2>3, <3>1 DEF ClaimsVars
  <2>5. CASE k \notin replayed
    <3>1. Holding' = [Holding EXCEPT ![w] = {k}] /\ Answered' = Answered
      BY <2>1, <2>5 DEF Holding, Answered, InSection, Section
    <3>2. Holding[w] = {}
      BY <2>1, HoldingIs DEF Section
    <3>3. Claims!Unclaimed(k)
      <4> SUFFICES ASSUME NEW v \in Workers, k \in Holding[v] PROVE FALSE
        BY DEF Claims!Unclaimed
      <4>1. InSection(v, k) /\ v # w
        BY <2>1, <3>2 DEF Holding
      <4>2. InSection(v, k)' /\ InSection(w, k)'
        BY <2>1, <4>1 DEF InSection, Section
      <4> QED
        BY <2>1, <2>5, <4>1, <4>2 DEF EventLockExclusion
    <3>4. Claims!Present(k)
      BY <2>1, <2>5, ResultIs, NullAssumption
    <3>5. Claims!Claim(w, k)
      BY <2>3, <3>1, <3>2, <3>3, <3>4 DEF Claims!Claim
    <3> QED
      BY <2>1, <3>5 DEF Claims!Next
  <2> QED
    BY <2>4, <2>5
<1>8. ASSUME NEW w \in Workers, MarkFailed(w) \/ MarkSkipped(w)
      PROVE  Claims!Next \/ UNCHANGED ClaimsVars
  <2> DEFINE k == cur[w]
  <2>1. PICK s \in {"failed", "skipped"} :
            Commit(w, [copy[w][k] EXCEPT !.status = s])
    BY <1>8 DEF MarkFailed, MarkSkipped
  <2>2. /\ AtEvent(w) /\ k \in Keys /\ rows[k] \in Row /\ copy[w][k] \in Row
        /\ pc[w] \notin Section /\ pc'[w] \notin Section
        /\ \A v \in Workers \ {w} : pc'[v] = pc[v]
        /\ UNCHANGED <<cur, replayed>>
    BY <1>0, <1>8 DEF MarkFailed, MarkSkipped, AtEvent, Section, RowsInPlace, TypeOK,
                      historyVars
  <2> DEFINE new == [copy[w][k] EXCEPT !.status = s]
  <2>3. new \in Row /\ new.status = s /\ new.failures = copy[w][k].failures
    BY <2>2 DEF Row, Status
  <2> HIDE DEF new
  <2>4. /\ \A j \in Keys \ {k} : rows'[j] = rows[j]
        /\ rows'[k].status \in {s, rows[k].status}
        /\ rows'[k].failures = rows[k].failures
        /\ rows'[k] \in Row
    <3>1. Commit(w, new)
      BY <2>1 DEF new
    <3>2. /\ \A j \in Keys \ {k} : rows'[j] = rows[j]
          /\ rows'[k].status = IF new.status # copy[w][k].status
                               THEN new.status ELSE rows[k].status
          /\ rows'[k].failures = rows[k].failures
      BY ZenonT(60), <2>2, <2>3, <3>1, CommitEffect
    <3>3. rows'[k] \in Row
      BY <2>2, <2>3, <3>1, CommitType
    <3> QED
      BY <2>3, <3>2, <3>3
  <2>5. Holding' = Holding /\ Answered' = Answered
    BY <2>2, SameClaims
  <2>6. CASE k \in replayed
    BY <1>0, <2>2, <2>4, <2>5, <2>6, OneResult DEF ClaimsVars, TypeOK
  <2>7. CASE k \notin replayed
    <3>1. /\ Results' = [Results EXCEPT ![k] = Outcome[rows'[k].status]]
          /\ Attempts' = [Attempts EXCEPT ![k] = rows[k].failures]
      BY <1>0, <2>2, <2>4, <2>7, OneResult DEF TypeOK
    <3>2. /\ Results[k] = Outcome[rows[k].status] /\ Attempts[k] = rows[k].failures
          /\ Claims!Present(k)
      BY <2>2, <2>7, ResultIs, NullAssumption
    <3>3. Attempts' = Attempts
      BY <3>1, <3>2 DEF Attempts
    <3>4. CASE rows'[k].status = s
      <4>1. Outcome[s] = "dropped"
        BY OutcomeIs
      <4>2. Claims!Drop(k)
        BY <2>5, <3>1, <3>2, <3>3, <3>4, <4>1 DEF Claims!Drop
      <4> QED
        BY <2>2, <4>2 DEF Claims!Next
    <3>5. CASE rows'[k].status = rows[k].status
      <4>1. Results' = Results
        BY <3>1, <3>2, <3>5 DEF Results
      <4> QED
        BY <2>5, <3>3, <4>1 DEF ClaimsVars
    <3> QED
      BY <2>4, <3>4, <3>5
  <2> QED
    BY <2>6, <2>7
<1>9. ASSUME NEW w \in Workers, MarkProcessing(w)
      PROVE  Claims!Next \/ UNCHANGED ClaimsVars
  <2> DEFINE k == cur[w]
             new == [copy[w][k] EXCEPT !.status = "processing"]
  <2>1. /\ AtEvent(w) /\ k \in Keys /\ rows[k] \in Row /\ copy[w][k] \in Row
        /\ pc[w] \in Open /\ pc'[w] \in Open
        /\ \A v \in Workers \ {w} : pc'[v] = pc[v]
        /\ UNCHANGED <<cur, replayed>>
    BY <1>0, <1>9 DEF MarkProcessing, AtEvent, Open, RowsInPlace, TypeOK, historyVars
  <2>2. /\ new \in Row /\ new.status = "processing" /\ new.failures = copy[w][k].failures
    BY <2>1 DEF Row, Status
  <2>3. Commit(w, new)
    BY <1>9 DEF MarkProcessing
  <2> HIDE DEF new
  <2>4. /\ \A j \in Keys \ {k} : rows'[j] = rows[j]
        /\ rows'[k].status \in {"processing", rows[k].status}
        /\ rows'[k].failures = rows[k].failures
        /\ rows'[k] \in Row
    BY ZenonT(60), <2>1, <2>2, <2>3, CommitEffect, CommitType
  <2>5. Holding' = Holding /\ Answered' = Answered
    BY <2>1, SameClaims
  <2>6. CASE k \in replayed
    BY <1>0, <2>1, <2>4, <2>5, <2>6, OneResult DEF ClaimsVars, TypeOK
  <2>7. CASE k \notin replayed
    <3>1. /\ Results' = [Results EXCEPT ![k] = Outcome[rows'[k].status]]
          /\ Attempts' = [Attempts EXCEPT ![k] = rows[k].failures]
      BY <1>0, <2>1, <2>4, <2>7, OneResult DEF TypeOK
    <3>2. Results[k] = Outcome[rows[k].status] /\ Attempts[k] = rows[k].failures
      BY <2>1, <2>7, ResultIs, NullAssumption
    <3>3. Attempts' = Attempts
      BY <3>1, <3>2 DEF Attempts
    <3>4. CASE rows'[k].status = "processing"
      <4>1. Outcome["processing"] = "waiting"
        BY OutcomeIs
      <4>2. Claims!AtWork(w, k)
        BY <2>1, <2>7, HoldingIs DEF Claims!AtWork, Open, Section
      <4>3. Claims!Reopen(w, k)
        BY <2>5, <3>1, <3>3, <3>4, <4>1, <4>2 DEF Claims!Reopen
      <4> QED
        BY <2>1, <4>3 DEF Claims!Next
    <3>5. CASE rows'[k].status = rows[k].status
      <4>1. Results' = Results
        BY <3>1, <3>2, <3>5 DEF Results
      <4> QED
        BY <2>5, <3>3, <4>1 DEF ClaimsVars
    <3> QED
      BY <2>4, <3>4, <3>5
  <2> QED
    BY <2>6, <2>7
<1>10. ASSUME NEW w \in Workers, SyncSucceeds(w)
       PROVE  Claims!Next \/ UNCHANGED ClaimsVars
  <2> DEFINE k == cur[w]
             new == [copy[w][k] EXCEPT !.status = "processed"]
  <2>1. /\ AtEvent(w) /\ k \in Keys /\ rows[k] \in Row /\ copy[w][k] \in Row
        /\ pc[w] \in Open /\ pc'[w] = "release"
        /\ \A v \in Workers \ {w} : pc'[v] = pc[v]
        /\ UNCHANGED <<cur, replayed>>
    BY <1>0, <1>10 DEF SyncSucceeds, AtEvent, Open, RowsInPlace, TypeOK, historyVars
  <2>2. new \in Row /\ new.status = "processed" /\ new.failures = copy[w][k].failures
    BY <2>1 DEF Row, Status
  <2>3. Commit(w, new) /\ copy[w][k].status = "processing"
    BY <1>10 DEF SyncSucceeds, ClaimInv, Marked
  <2> HIDE DEF new
  <2>4. /\ \A j \in Keys \ {k} : rows'[j] = rows[j]
        /\ rows'[k].status = "processed"
        /\ rows'[k].failures = rows[k].failures
        /\ rows'[k] \in Row
    BY ZenonT(60), <2>1, <2>2, <2>3, CommitEffect, CommitType
  <2>5. CASE k \in replayed
    <3>1. Holding' = Holding /\ Answered' = Answered
      BY <2>1, <2>5, AnswerStep
    <3> QED
      BY <1>0, <2>1, <2>4, <2>5, <3>1, OneResult DEF ClaimsVars, TypeOK
  <2>6. CASE k \notin replayed
    <3>1. /\ Results' = [Results EXCEPT ![k] = Outcome[rows'[k].status]]
          /\ Attempts' = [Attempts EXCEPT ![k] = rows[k].failures]
      BY <1>0, <2>1, <2>4, <2>6, OneResult DEF TypeOK
    <3>2. Attempts[k] = rows[k].failures
      BY <2>1, <2>6, ResultIs, NullAssumption
    <3>3. Attempts' = Attempts
      BY <3>1, <3>2 DEF Attempts
    <3>4. Claims!AtWork(w, k)
      BY <2>1, <2>6, HoldingIs DEF Claims!AtWork, Open, Section
    <3>5. Claims!Answer(w)
      BY <2>1, <2>6, AnswerStep DEF Claims!Answer
    <3>6. Claims!Succeed(w, k)
      BY <2>4, <3>1, <3>3, <3>4, <3>5, OutcomeIs DEF Claims!Succeed
    <3> QED
      BY <2>1, <3>6 DEF Claims!Next
  <2> QED
    BY <2>5, <2>6
<1>11. ASSUME NEW w \in Workers, RecordFailure(w)
       PROVE  Claims!Next \/ UNCHANGED ClaimsVars
  <2> DEFINE k == cur[w]
             new == AfterFailure(copy[w][k], runAt[w])
             last == rows[k].failures + 1 >= MaxAttempts
  <2>1. /\ AtEvent(w) /\ k \in Keys /\ rows[k] \in Row /\ copy[w][k] \in Row
        /\ runAt[w] \in Nat /\ pc[w] = "fail" /\ pc'[w] = "release"
        /\ \A v \in Workers \ {w} : pc'[v] = pc[v]
        /\ UNCHANGED <<cur, replayed>>
    BY <1>0, <1>11 DEF RecordFailure, AtEvent, RowsInPlace, TypeOK, historyVars
  <2>2. /\ new \in Row
        /\ new.failures = copy[w][k].failures + 1
        /\ new.status = IF copy[w][k].failures + 1 >= MaxAttempts
                        THEN "failed" ELSE "queued"
    BY ZenonT(60), <2>1, AfterFailureType DEF AfterFailure, Row
  <2>3. Commit(w, new)
    BY <1>11 DEF RecordFailure
  <2> HIDE DEF new
  <2>4. /\ \A j \in Keys \ {k} : rows'[j] = rows[j]
        /\ rows'[k] \in Row
        /\ rows'[k].status = IF new.status # copy[w][k].status
                             THEN new.status ELSE rows[k].status
        /\ rows'[k].failures = IF new.failures # copy[w][k].failures
                               THEN new.failures ELSE rows[k].failures
    BY ZenonT(60), <2>1, <2>2, <2>3, CommitEffect, CommitType
  <2>5. CASE k \in replayed
    <3>1. Holding' = Holding /\ Answered' = Answered
      BY <2>1, <2>5, AnswerStep DEF Open
    <3> QED
      BY <1>0, <2>1, <2>4, <2>5, <3>1, OneResult DEF ClaimsVars, TypeOK
  <2>6. CASE k \notin replayed
    <3>1. copy[w][k].failures = rows[k].failures /\ copy[w][k].status # "queued"
      BY <2>1, <2>6, NullAssumption DEF AccountInv, Honest
    <3>2. copy[w][k].failures \in Nat
      BY <2>1 DEF Row
    <3>3. rows'[k].failures = rows[k].failures + 1
      BY <2>2, <2>4, <3>1, <3>2
    <3>4. Outcome[rows'[k].status] = IF last THEN "dropped" ELSE "waiting"
      <4>1. CASE ~last
        BY <2>2, <2>4, <3>1, <4>1, OutcomeIs
      <4>2. CASE last /\ copy[w][k].status # "failed"
        BY <2>2, <2>4, <3>1, <4>2, OutcomeIs
      <4>3. CASE last /\ copy[w][k].status = "failed"
        <5>1. IsDropped(rows[k])
          BY <2>1, <2>6, <4>3 DEF ClaimInv, DropsStay, IsDropped
        <5>2. rows'[k].status = rows[k].status
          BY <2>2, <2>4, <3>1, <4>3
        <5> QED
          BY <4>3, <5>1, <5>2, OutcomeIs DEF IsDropped
      <4> QED
        BY <4>1, <4>2, <4>3
    <3>5. /\ Results' = [Results EXCEPT ![k] = Outcome[rows'[k].status]]
          /\ Attempts' = [Attempts EXCEPT ![k] = rows'[k].failures]
      BY <1>0, <2>1, <2>4, <2>6, OneResult DEF TypeOK
    <3>6. Attempts[k] = rows[k].failures
      BY <2>1, <2>6, ResultIs, NullAssumption
    <3>7. Claims!AtWork(w, k)
      BY <2>1, <2>6, HoldingIs DEF Claims!AtWork, Open, Section
    <3>8. Claims!Answer(w)
      BY <2>1, <2>6, AnswerStep DEF Claims!Answer, Open
    <3>9. Claims!Fail(w, k)
      BY <3>3, <3>4, <3>5, <3>6, <3>7, <3>8 DEF Claims!Fail
    <3> QED
      BY <2>1, <3>9 DEF Claims!Next
  <2> QED
    BY <2>5, <2>6
<1>12. ASSUME NEW w \in Workers, Release(w)
       PROVE  Claims!Next \/ UNCHANGED ClaimsVars
  <2> DEFINE k == cur[w]
  <2>1. /\ AtEvent(w) /\ k \in Keys /\ rows[k] \in Row /\ copy[w][k] \in Row
        /\ pc[w] = "release" /\ pc'[w] = "next"
        /\ \A v \in Workers \ {w} : pc'[v] = pc[v]
        /\ UNCHANGED <<cur, replayed>>
        /\ Commit(w, Unlocked(copy[w][k]))
    BY <1>0, <1>12 DEF Release, AtEvent, RowsInPlace, TypeOK, historyVars
  <2>2. /\ Unlocked(copy[w][k]) \in Row
        /\ Unlocked(copy[w][k]).status = copy[w][k].status
        /\ Unlocked(copy[w][k]).failures = copy[w][k].failures
    BY <2>1, UnlockedType DEF Unlocked, Row
  <2>3. /\ \A j \in Keys \ {k} : rows'[j] = rows[j]
        /\ rows'[k].status = rows[k].status /\ rows'[k].failures = rows[k].failures
        /\ rows'[k] \in Row
    BY ZenonT(60), <2>1, <2>2, CommitEffect, CommitType
  <2>4. Results' = Results /\ Attempts' = Attempts
    BY <2>1, <2>3, NullAssumption DEF Results, Attempts
  <2>5. /\ Holding' = [Holding EXCEPT ![w] = {}]
        /\ Answered' = Answered \ {w}
    BY <2>1, LeaveStep DEF Section
  <2>6. CASE k \in replayed
    <3>1. Holding[w] = {} /\ w \notin Answered
      BY <2>6, HoldingIs
    <3>2. Holding' = Holding
      BY <2>5, <3>1 DEF Holding
    <3> QED
      BY <2>4, <2>5, <3>1, <3>2 DEF ClaimsVars
  <2>7. CASE k \notin replayed
    <3>1. w \in Answered
      BY <2>1, <2>7, HoldingIs
    <3>2. Claims!Release(w)
      BY <2>4, <2>5, <3>1 DEF Claims!Release, Claims!Leave
    <3> QED
      BY <3>2 DEF Claims!Next
  <2> QED
    BY <2>6, <2>7
<1>13. ASSUME ReplayWrite
       PROVE  Claims!Next \/ UNCHANGED ClaimsVars
  <2> DEFINE k == replay.key
  <2>1. /\ k \in Keys /\ rows[k] \in Row
        /\ \A j \in Keys \ {k} : rows'[j] = rows[j]
        /\ replayed' = replayed \cup {k}
        /\ UNCHANGED <<pc, cur>>
    BY <1>0, <1>13 DEF ReplayWrite, RowsInPlace, TypeOK, workerVars
  <2>2. CASE k \in replayed
    <3>1. replayed' = replayed
      BY <2>1, <2>2
    <3>2. Results' = Results /\ Attempts' = Attempts
      BY <2>1, <2>2, <3>1 DEF Results, Attempts
    <3>3. Holding' = Holding /\ Answered' = Answered
      BY <2>1, <3>1, SameClaims
    <3> QED
      BY <3>2, <3>3 DEF ClaimsVars
  <2>3. CASE k \notin replayed
    <3>1. Results' = [Results EXCEPT ![k] = "replayed"]
      BY <2>1, <2>3 DEF Results
    <3>2. Attempts' = [Attempts EXCEPT ![k] = 0]
      BY <2>1, <2>3 DEF Attempts
    <3>3. Holding' = [w \in Workers |-> Holding[w] \ {k}]
      <4>1. ASSUME NEW w \in Workers
            PROVE  {j \in Keys \ replayed' : InSection(w, j)'} = Holding[w] \ {k}
        BY <2>1 DEF Holding, InSection
      <4> QED
        BY <4>1 DEF Holding
    <3>4. Answered' = {w \in Answered : k \notin Holding[w]}
      BY <1>0, <2>1, <2>3 DEF Holding, Answered, InSection, Section, TypeOK
    <3>5. Claims!Present(k)
      BY <2>1, <2>3, ResultIs, NullAssumption
    <3>6. Claims!Replay(k)
      BY <3>1, <3>2, <3>3, <3>4, <3>5 DEF Claims!Replay
    <3> QED
      BY <2>1, <3>6 DEF Claims!Next
  <2> QED
    BY <2>2, <2>3
<1>14. ASSUME (\E k \in Keys : ReplayRead(k)) \/ Tick \/ UNCHANGED vars
       PROVE  UNCHANGED ClaimsVars
  <2>1. UNCHANGED <<rows, pc, cur, replayed>>
    BY <1>14 DEF ReplayRead, Tick, vars, workerVars, historyVars
  <2> QED
    BY <2>1, SameClaims, Quiet DEF ClaimsVars
<1> QED
  BY <1>1, <1>2, <1>3, <1>4, <1>5, <1>6, <1>7, <1>8, <1>9, <1>10, <1>11, <1>12,
     <1>13, <1>14
  DEF Next, Receive, Advance

(* If requests end before their locks go stale, run-once requests with     *)
(* overlapping batches and stale copies implement the abstract queue of    *)
(* claims, for every event an operator has not replayed.                   *)
THEOREM QueueKeepsClaims ==
    ASSUME MaxRun < LockTimeout, IsFiniteSet(Workers)
    PROVE  Spec => ImplementsClaims
<1> DEFINE Inv == TypeInv /\ ExclusionInv /\ AccountInv /\ ClaimInv
<1>1. Init => Inv /\ Claims!Init
  BY TypeInvInit, ExclusionInit, AccountInit, ClaimInit, ClaimsInit
<1>2. Inv /\ [Next]_vars => Inv'
  BY TypeInvNext, ExclusionNext, AccountNext, ClaimInvNext DEF ExclusionInv
<1>3. Inv /\ Inv' /\ [Next]_vars => [Claims!Next]_(Claims!vars)
  BY ClaimsNext DEF ExclusionInv, Claims!vars, ClaimsVars
<1> QED
  BY <1>1, <1>2, <1>3, PTL DEF Spec, ImplementsClaims, Claims!Spec

===============================================================================
