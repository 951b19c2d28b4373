---------------------------- MODULE RecordProofs ----------------------------
(***************************************************************************)
(* Proofs about the review of an intake record, and about the records of   *)
(* the demo with the rows that refer to them.                              *)
(*                                                                         *)
(* Lifecycle, for every set of reviewers and viewers, every limit and      *)
(* every default status: type correctness; that the row agrees with the    *)
(* end of the history and counts what it holds, however many reviewers     *)
(* race; and that the record implements ReviewRecord.  The agreement and   *)
(* the refinement are about records created since the labels are           *)
(* canonical; TLC's runs add the rows of older releases.                   *)
(*                                                                         *)
(* DemoData, for every finite set of demo records:                         *)
(* seeds, resets and visits leave each demo record and manifest at most    *)
(* once and nothing without what it refers to, and a seed of what is       *)
(* seeded changes nothing.                                                 *)
(***************************************************************************)
EXTENDS Lifecycle, DemoData, FiniteSetTheorems, TLAPS

(* The tables hold nothing of the record yet.                              *)
NewRecord == \A old \in Stored : old.row = NoRow /\ old.events = <<>>

Canonical(row) == row.status \in Status /\ row.reason \in Reason \cup {NoReason}

CanonicalEvent == [from : Status, to : Status, reason : Reason]

-------------------------------------------------------------------------------
(* Labels and repairs.                                                     *)

LEMMA NormalStatusType == \A s \in StoredStatus : NormalStatus(s) \in Status
BY DEF NormalStatus, StoredStatus, Status, LegacyStatus

LEMMA NormalStatusIdentity == \A s \in Status : NormalStatus(s) = s
BY DEF NormalStatus, Status, LegacyStatus

LEMMA RepairedStatusType ==
    \A s \in StoredStatus : RepairedStatus(s) \in StoredStatus
BY DEF RepairedStatus, StoredStatus, Status, LegacyStatus

LEMMA RepairedStatusIdentity == \A s \in Status : RepairedStatus(s) = s
BY DEF RepairedStatus, Status, LegacyStatus

LEMMA RepairedReasonType ==
    /\ \A y \in StoredReason : RepairedReason(y) \in Reason \cup {NoReason}
    /\ \A y \in Reason \cup {NoReason} : RepairedReason(y) = y
BY DEF RepairedReason, StoredReason, Reason, NoReason

LEMMA ReasonsAreStored == /\ Reason \cup {NoReason} \subseteq StoredReason
                          /\ Status \subseteq StoredStatus
BY DEF StoredReason, StoredStatus

LEMMA RepairedEventsType ==
    ASSUME NEW es \in Seq(Event)
    PROVE  RepairedEvents(es) \in Seq(Event) /\ Len(RepairedEvents(es)) = Len(es)
<1>1. \A k \in 1..Len(es) : es[k] \in Event
  OBVIOUS
<1>2. \A k \in 1..Len(es) :
         [from |-> RepairedStatus(es[k].from), to |-> RepairedStatus(es[k].to),
          reason |-> RepairedReason(es[k].reason)] \in Event
  BY <1>1, RepairedStatusType, RepairedReasonType, ReasonsAreStored DEF Event
<1> QED
  BY <1>2 DEF RepairedEvents

LEMMA RepairedEventsIdentity ==
    ASSUME NEW es \in Seq(CanonicalEvent)
    PROVE  RepairedEvents(es) = es
<1> DEFINE repaired(e) == [from   |-> RepairedStatus(e.from),
                           to     |-> RepairedStatus(e.to),
                           reason |-> RepairedReason(e.reason)]
<1>1. \A e \in CanonicalEvent : repaired(e) = e
  <2> TAKE e \in CanonicalEvent
  <2>1. /\ RepairedStatus(e.from) = e.from
        /\ RepairedStatus(e.to) = e.to
        /\ RepairedReason(e.reason) = e.reason
    BY RepairedStatusIdentity, RepairedReasonType DEF CanonicalEvent
  <2> QED
    BY <2>1 DEF CanonicalEvent
<1>2. DOMAIN es = 1..Len(es) /\ \A k \in 1..Len(es) : es[k] \in CanonicalEvent
  OBVIOUS
<1>3. RepairedEvents(es) = [k \in 1..Len(es) |-> repaired(es[k])]
  BY <1>2 DEF RepairedEvents
<1>4. RepairedEvents(es) = [k \in 1..Len(es) |-> es[k]]
  <2> HIDE DEF repaired
  <2> QED
    BY <1>1, <1>2, <1>3
<1> QED
  BY <1>2, <1>4

LEMMA OpenedType ==
    ASSUME NEW row \in Row \cup {NoRow}
    PROVE  Opened(row) \in Row /\ Canonical(Opened(row))
<1>1. CASE row = NoRow
  BY <1>1, LifecycleAssumption, ReasonsAreStored
  DEF Opened, NewRow, Row, Canonical, StoredReason
<1>2. CASE row \in Row
  <2>1. row # NoRow
    BY <1>2, LifecycleAssumption
  <2> QED
    BY <1>2, <2>1, NormalStatusType, RepairedReasonType, ReasonsAreStored
    DEF Opened, Row, Canonical
<1> QED
  BY <1>1, <1>2

LEMMA OpenedCount ==
    ASSUME NEW row \in Row
    PROVE  Opened(row).count = row.count
BY LifecycleAssumption DEF Opened, Row

LEMMA OpenedIdentity ==
    ASSUME NEW row \in Row, Canonical(row)
    PROVE  Opened(row) = row
BY LifecycleAssumption, NormalStatusIdentity, RepairedReasonType
DEF Opened, Row, Canonical

LEMMA FlushType ==
    ASSUME NEW row \in Row, NEW old \in Row, NEW new \in Row
    PROVE  Flush(row, old, new) \in Row
BY DEF Flush, Row

LEMMA GraphType ==
    /\ \A s \in Status : AllowedTransitions[s] \subseteq Status \ {s}
    /\ DOMAIN AllowedTransitions = Status
BY DEF AllowedTransitions, Status

-------------------------------------------------------------------------------
(* Type correctness.  A row that has been read is still there, and a       *)
(* reviewer who has read it has given a reason.                            *)

TypeInv ==
    /\ TypeOK
    /\ \A r \in Requests : copy[r] # NoRow => pc[r] = "read" /\ state # NoRow
    /\ \A r \in Reviewers : pc[r] = "read" => want[r].reason \in Reason

LEMMA WrittenType ==
    ASSUME TypeInv, NEW r \in Requests, NEW new \in Row
    PROVE  Written(r, new) \in Row
<1>1. copy[r] \in Row \cup {NoRow} /\ state \in Row \cup {NoRow}
  BY DEF TypeInv, TypeOK
<1>2. CASE copy[r] = NoRow
  BY <1>2 DEF Written
<1>3. CASE copy[r] # NoRow
  <2>1. state \in Row /\ copy[r] \in Row
    BY <1>1, <1>3 DEF TypeInv
  <2> QED
    BY <1>3, <2>1, FlushType DEF Written
<1> QED
  BY <1>2, <1>3

LEMMA HistoryType ==
    ASSUME TypeOK, NEW r \in Requests
    PROVE  History(r) \in Seq(Event) /\ Len(History(r)) = Len(events)
BY RepairedEventsType DEF TypeOK, History

(* The parts of a transition.                                              *)
Revised(r) == [status |-> want[r].to, reason |-> want[r].reason,
               count  |-> Opened(copy[r]).count + 1]

Recorded(r) == [from   |-> Opened(copy[r]).status,
                to     |-> want[r].to,
                reason |-> want[r].reason]

LEMMA TransitionParts ==
    ASSUME TypeInv, NEW r \in Reviewers, Transition(r)
    PROVE  /\ ~Conflict(r)
           /\ Opened(copy[r]) \in Row /\ Canonical(Opened(copy[r]))
           /\ Acceptable(Opened(copy[r]), want[r])
           /\ Revised(r) \in Row /\ Canonical(Revised(r))
           /\ Recorded(r) \in CanonicalEvent /\ Recorded(r) \in Event
           /\ state' = Written(r, Revised(r)) /\ state' \in Row
           /\ events' = Append(History(r), Recorded(r))
           /\ EndRequest(r)
<1>1. r \in Requests /\ pc[r] = "read"
  BY DEF Requests, Transition
<1>2. Opened(copy[r]) \in Row /\ Canonical(Opened(copy[r]))
  BY <1>1, OpenedType DEF TypeInv, TypeOK
<1>3. want[r].to \in Status /\ want[r].reason \in Reason
  BY <1>1 DEF TypeInv, TypeOK
<1>4. Revised(r) \in Row /\ Canonical(Revised(r))
  BY <1>2, <1>3, ReasonsAreStored DEF Revised, Row, Canonical
<1>5. Recorded(r) \in CanonicalEvent /\ Recorded(r) \in Event
  BY <1>2, <1>3, ReasonsAreStored DEF Recorded, CanonicalEvent, Event, Canonical
<1>6. /\ ~Conflict(r)
      /\ Acceptable(Opened(copy[r]), want[r])
      /\ state' = Written(r, Revised(r))
      /\ events' = Append(History(r), Recorded(r))
      /\ EndRequest(r)
  BY DEF Transition, Revised, Recorded
<1> QED
  BY <1>1, <1>2, <1>4, <1>5, <1>6, WrittenType

LEMMA EndRequestParts ==
    ASSUME TypeInv, NEW r \in Requests, EndRequest(r)
    PROVE  /\ pc' \in [Requests -> {"idle", "read"}]
           /\ want' \in [Reviewers -> [to : Status, reason : Reason \cup {NoReason}]]
           /\ copy' \in [Requests -> Row \cup {NoRow}]
           /\ pc'[r] = "idle" /\ copy'[r] = NoRow
           /\ \A q \in Requests \ {r} : pc'[q] = pc[q] /\ copy'[q] = copy[q]
           /\ \A q \in Reviewers \ {r} : want'[q] = want[q]
           /\ \A q \in Reviewers : pc'[q] = "read" => want'[q].reason \in Reason
<1>1. NoWish \in [to : Status, reason : Reason \cup {NoReason}]
  BY LifecycleAssumption DEF NoWish
<1>2. \A q \in Reviewers : q \in Requests
  BY DEF Requests
<1> QED
  BY <1>1, <1>2 DEF EndRequest, TypeInv, TypeOK

LEMMA ReadParts ==
    ASSUME TypeInv, NEW r \in Requests, Read(r)
    PROVE  /\ pc' \in [Requests -> {"idle", "read"}]
           /\ copy' \in [Requests -> Row \cup {NoRow}]
           /\ pc'[r] = "read" /\ copy'[r] = state
           /\ \A q \in Requests \ {r} : pc'[q] = pc[q] /\ copy'[q] = copy[q]
           /\ UNCHANGED <<state, events, overtaken, contested>>
BY DEF Read, TypeInv, TypeOK, historyVars

(* What a session leaves of the history of who was overtaken.              *)
LEMMA HistoryVarsType ==
    ASSUME TypeOK, NEW r \in Requests, Show(r) \/ Abandon(r) \/ Transition(r)
    PROVE  overtaken' \in SUBSET Reviewers /\ contested' \in BOOLEAN
<1>1. CASE Show(r)
  BY <1>1 DEF Show, TypeOK, historyVars
<1>2. CASE Abandon(r)
  BY <1>2 DEF Abandon, TypeOK
<1>3. CASE Transition(r)
  BY <1>3 DEF Transition, TypeOK
<1> QED
  BY <1>1, <1>2, <1>3

LEMMA TypeInvInit == Init => TypeInv
<1> SUFFICES ASSUME Init PROVE TypeInv
  OBVIOUS
<1>1. PICK old \in Stored : state = old.row /\ events = old.events
  BY DEF Init
<1>2. NoWish \in [to : Status, reason : Reason \cup {NoReason}]
  BY LifecycleAssumption DEF NoWish
<1>3. old.row \in Row \cup {NoRow} /\ old.events \in Seq(Event)
  BY LifecycleAssumption
<1>4. \A q \in Reviewers : q \in Requests
  BY DEF Requests
<1> QED
  BY <1>1, <1>2, <1>3, <1>4 DEF Init, TypeInv, TypeOK

LEMMA TypeInvNext == TypeInv /\ [Next]_vars => TypeInv'
<1> SUFFICES ASSUME TypeInv, [Next]_vars PROVE TypeInv'
  OBVIOUS
<1>1. Reviewers \subseteq Requests /\ Viewers \subseteq Requests
  BY DEF Requests
<1>2. CASE \E r \in Reviewers : ReadToReview(r)
  <2>1. PICK r \in Reviewers : ReadToReview(r)
    BY <1>2
  <2>2. PICK s \in Status, y \in Reason :
            want' = [want EXCEPT ![r] = [to |-> s, reason |-> y]]
    BY <2>1 DEF ReadToReview
  <2>3. Read(r)
    BY <2>1 DEF ReadToReview
  <2>4. want' \in [Reviewers -> [to : Status, reason : Reason \cup {NoReason}]]
    BY <2>2 DEF TypeInv, TypeOK
  <2>5. want'[r].reason \in Reason /\ \A q \in Reviewers \ {r} : want'[q] = want[q]
    BY <2>1, <2>2 DEF TypeInv, TypeOK
  <2> QED
    BY <1>1, <2>1, <2>3, <2>4, <2>5, ReadParts, ZenonT(60) DEF TypeInv, TypeOK
<1>3. CASE \E v \in Viewers : ReadToView(v)
  <2>1. PICK v \in Viewers : Read(v) /\ want' = want
    BY <1>3 DEF ReadToView
  <2>2. \A q \in Reviewers : q # v
    BY <2>1, LifecycleAssumption
  <2> QED
    BY <1>1, <2>1, <2>2, ReadParts DEF TypeInv, TypeOK
<1>4. CASE \E r \in Reviewers : Transition(r)
  <2>1. PICK r \in Reviewers : Transition(r)
    BY <1>4
  <2>2. /\ state' \in Row
        /\ events' = Append(History(r), Recorded(r)) /\ Recorded(r) \in Event
        /\ EndRequest(r)
    BY <2>1, TransitionParts
  <2>3. events' \in Seq(Event)
    BY <1>1, <2>1, <2>2, HistoryType DEF TypeInv
  <2>4. state' # NoRow
    BY <2>2, LifecycleAssumption
  <2> QED
    BY <1>1, <2>1, <2>2, <2>3, <2>4, EndRequestParts, HistoryVarsType DEF TypeInv, TypeOK
<1>5. CASE \E v \in Viewers : Show(v)
  <2>1. PICK v \in Viewers : Show(v)
    BY <1>5
  <2>2. /\ state' = Written(v, Opened(copy[v]))
        /\ events' = History(v)
        /\ EndRequest(v)
    BY <2>1 DEF Show
  <2>3. state' \in Row
    BY <1>1, <2>1, <2>2, WrittenType, OpenedType DEF TypeInv, TypeOK
  <2>4. events' \in Seq(Event)
    BY <1>1, <2>1, <2>2, HistoryType DEF TypeInv
  <2>5. state' # NoRow
    BY <2>3, LifecycleAssumption
  <2> QED
    BY <1>1, <2>1, <2>2, <2>3, <2>4, <2>5, EndRequestParts, HistoryVarsType
    DEF TypeInv, TypeOK
<1>6. CASE \E r \in Requests : Abandon(r)
  <2>1. PICK r \in Requests : Abandon(r)
    BY <1>6
  <2>2. EndRequest(r) /\ UNCHANGED <<state, events>>
    BY <2>1 DEF Abandon
  <2> QED
    BY <2>1, <2>2, EndRequestParts, HistoryVarsType DEF TypeInv, TypeOK
<1>7. CASE Migrate
  <2>1. state' \in Row \cup {NoRow} /\ (state # NoRow => state' # NoRow)
    <3>1. CASE state = NoRow
      BY <1>7, <3>1 DEF Migrate
    <3>2. CASE state \in Row
      <4>1. state' = [state EXCEPT !.status = RepairedStatus(@),
                                   !.reason = RepairedReason(@)]
        BY <1>7, <3>2, LifecycleAssumption DEF Migrate
      <4>2. state' \in Row
        BY <3>2, <4>1, RepairedStatusType, RepairedReasonType, ReasonsAreStored DEF Row
      <4> QED
        BY <4>2, LifecycleAssumption
    <3> QED
      BY <3>1, <3>2 DEF TypeInv, TypeOK
  <2>2. events' \in Seq(Event)
    BY <1>7, RepairedEventsType DEF Migrate, TypeInv, TypeOK
  <2> QED
    BY <1>7, <2>1, <2>2 DEF Migrate, TypeInv, TypeOK, historyVars
<1>8. CASE UNCHANGED vars
  BY <1>8 DEF vars, historyVars, TypeInv, TypeOK
<1> QED
  BY <1>2, <1>3, <1>4, <1>5, <1>6, <1>7, <1>8 DEF Next

(* Every state is well typed.                                              *)
THEOREM TypeCorrect == Spec => []TypeOK
<1>1. TypeInv => TypeOK
  BY DEF TypeInv
<1> QED
  BY <1>1, TypeInvInit, TypeInvNext, PTL DEF Spec

-------------------------------------------------------------------------------
(* Records created since: labels stay canonical, so that a viewer with a   *)
(* row writes nothing; and the row agrees with the end of the history.     *)

CanonicalInv ==
    /\ state # NoRow => Canonical(state)
    /\ \A r \in Requests : copy[r] # NoRow => Canonical(copy[r])
    /\ events \in Seq(CanonicalEvent)

(* There is no history without a row.                                      *)
AgreeInv == CanonicalInv /\ StatusIsLastEvent

LEMMA FlushUnchanged ==
    ASSUME NEW row \in Row, NEW old \in Row
    PROVE  Flush(row, old, old) = row
BY DEF Flush, Row

LEMMA FlushWritesStatus ==
    ASSUME NEW row \in Row, NEW old \in Row, NEW new \in Row,
           new.status # old.status
    PROVE  Flush(row, old, new).status = new.status
BY DEF Flush, Row

LEMMA FlushCanonical ==
    ASSUME NEW row \in Row, NEW old \in Row, NEW new \in Row,
           Canonical(row), Canonical(new)
    PROVE  Canonical(Flush(row, old, new))
BY DEF Flush, Row, Canonical

LEMMA HistoryCanonical ==
    ASSUME CanonicalInv, NEW r \in Requests
    PROVE  History(r) = events
BY RepairedEventsIdentity DEF CanonicalInv, History

(* A transition writes its status whatever became of the row it read.      *)
LEMMA TransitionWrites ==
    ASSUME TypeInv, CanonicalInv, NEW r \in Reviewers, Transition(r)
    PROVE  /\ state' \in Row /\ Canonical(state') /\ state' # NoRow
           /\ state'.status = want[r].to
           /\ events' = Append(events, Recorded(r))
           /\ events' \in Seq(CanonicalEvent)
           /\ events'[Len(events')].to = want[r].to
<1>1. r \in Requests
  BY DEF Requests
<1>2. /\ ~Conflict(r)
      /\ Acceptable(Opened(copy[r]), want[r])
      /\ Revised(r) \in Row /\ Canonical(Revised(r))
      /\ Recorded(r) \in CanonicalEvent
      /\ state' = Written(r, Revised(r)) /\ state' \in Row
      /\ events' = Append(History(r), Recorded(r))
  BY TransitionParts
<1>3. events' = Append(events, Recorded(r))
  BY <1>1, <1>2, HistoryCanonical
<1>4. Recorded(r).to = want[r].to /\ Revised(r).status = want[r].to
  BY DEF Recorded, Revised
<1>5. events \in Seq(CanonicalEvent)
  BY DEF CanonicalInv
<1>6. events' \in Seq(CanonicalEvent) /\ events'[Len(events')] = Recorded(r)
  BY <1>2, <1>3, <1>5
<1>7. Canonical(state') /\ state'.status = want[r].to
  <2>1. CASE copy[r] = NoRow
    BY <1>2, <1>4, <2>1 DEF Written
  <2>2. CASE copy[r] # NoRow
    <3>1. copy[r] \in Row /\ Canonical(copy[r])
      BY <1>1, <2>2 DEF TypeInv, TypeOK, CanonicalInv
    <3>2. state \in Row /\ Canonical(state)
      BY <1>1, <2>2 DEF TypeInv, TypeOK, CanonicalInv
    <3>3. Opened(copy[r]) = copy[r]
      BY <3>1, OpenedIdentity
    <3>4. want[r].to # copy[r].status
      BY <1>2, <3>1, <3>3, GraphType DEF Acceptable, Canonical
    <3>5. state' = Flush(state, copy[r], Revised(r))
      BY <1>2, <2>2 DEF Written
    <3> QED
      BY <1>2, <1>4, <3>1, <3>2, <3>4, <3>5, FlushWritesStatus, FlushCanonical
  <2> QED
    BY <2>1, <2>2
<1> QED
  BY <1>2, <1>3, <1>4, <1>6, <1>7, LifecycleAssumption

(* A viewer writes the first row, or nothing.                              *)
LEMMA ShowWrites ==
    ASSUME TypeInv, CanonicalInv, NEW v \in Viewers, Show(v)
    PROVE  /\ state' = IF state = NoRow THEN NewRow ELSE state
           /\ events' = events
<1>1. v \in Requests /\ ~Conflict(v) /\ state' = Written(v, Opened(copy[v]))
  BY DEF Requests, Show
<1>2. events' = events
  BY <1>1, HistoryCanonical DEF Show
<1>3. CASE copy[v] = NoRow
  <2>1. state = NoRow
    BY <1>1, <1>3 DEF Conflict
  <2>2. state' = NewRow
    BY <1>1, <1>3 DEF Written, Opened
  <2> QED
    BY <1>2, <2>1, <2>2
<1>4. CASE copy[v] # NoRow
  <2>1. copy[v] \in Row /\ Canonical(copy[v]) /\ state \in Row /\ state # NoRow
    BY <1>1, <1>4 DEF TypeInv, TypeOK, CanonicalInv
  <2>2. Written(v, Opened(copy[v])) = state
    BY <1>4, <2>1, OpenedIdentity, FlushUnchanged DEF Written
  <2> QED
    BY <1>1, <1>2, <2>1, <2>2
<1> QED
  BY <1>2, <1>3, <1>4

LEMMA MigrateWrites ==
    ASSUME TypeInv, CanonicalInv, Migrate
    PROVE  state' = state /\ events' = events /\ copy' = copy
<1>1. events' = events /\ copy' = copy
  BY RepairedEventsIdentity DEF Migrate, CanonicalInv
<1>2. CASE state = NoRow
  BY <1>1, <1>2 DEF Migrate
<1>3. CASE state # NoRow
  <2>1. state \in Row /\ Canonical(state)
    BY <1>3 DEF TypeInv, TypeOK, CanonicalInv
  <2>2. RepairedStatus(state.status) = state.status
    BY <2>1, RepairedStatusIdentity DEF Canonical
  <2>3. RepairedReason(state.reason) = state.reason
    BY <2>1, RepairedReasonType DEF Canonical
  <2>4. state' = [state EXCEPT !.status = RepairedStatus(@),
                               !.reason = RepairedReason(@)]
    BY <1>3 DEF Migrate
  <2>5. state' = state
    BY <2>1, <2>2, <2>3, <2>4 DEF Row
  <2> QED
    BY <1>1, <2>5
<1> QED
  BY <1>2, <1>3

LEMMA NewRowType == NewRow \in Row /\ Canonical(NewRow)
BY LifecycleAssumption, ReasonsAreStored DEF NewRow, Row, Canonical

LEMMA AgreeInit == NewRecord /\ Init => AgreeInv
<1> SUFFICES ASSUME NewRecord, Init PROVE AgreeInv
  OBVIOUS
<1>1. state = NoRow /\ events = <<>>
  BY DEF NewRecord, Init
<1>2. \A r \in Requests : copy[r] = NoRow
  BY DEF Init
<1> QED
  BY <1>1, <1>2 DEF AgreeInv, CanonicalInv, StatusIsLastEvent

LEMMA AgreeNext == TypeInv /\ AgreeInv /\ [Next]_vars => AgreeInv'
<1> SUFFICES ASSUME TypeInv, AgreeInv, [Next]_vars PROVE AgreeInv'
  OBVIOUS
<1> USE DEF AgreeInv
<1>1. Reviewers \subseteq Requests /\ Viewers \subseteq Requests
  BY DEF Requests
<1>2. ASSUME NEW r \in Requests, Read(r) PROVE AgreeInv'
  BY <1>2, ReadParts DEF CanonicalInv, StatusIsLastEvent
<1>3. ASSUME NEW r \in Reviewers, Transition(r) PROVE AgreeInv'
  <2>1. EndRequest(r)
    BY <1>3 DEF Transition
  <2> QED
    BY <1>1, <1>3, <2>1, TransitionWrites, EndRequestParts
    DEF CanonicalInv, StatusIsLastEvent
<1>4. ASSUME NEW v \in Viewers, Show(v) PROVE AgreeInv'
  <2>1. EndRequest(v)
    BY <1>4 DEF Show
  <2> QED
    BY <1>1, <1>4, <2>1, ShowWrites, EndRequestParts, NewRowType, LifecycleAssumption
    DEF CanonicalInv, StatusIsLastEvent
<1>5. ASSUME NEW r \in Requests, Abandon(r) PROVE AgreeInv'
  BY <1>5, EndRequestParts DEF Abandon, CanonicalInv, StatusIsLastEvent
<1>6. CASE Migrate
  BY <1>6, MigrateWrites DEF CanonicalInv, StatusIsLastEvent
<1>7. CASE UNCHANGED vars
  BY <1>7 DEF vars, historyVars, CanonicalInv, StatusIsLastEvent
<1> QED
  BY <1>1, <1>2, <1>3, <1>4, <1>5, <1>6, <1>7 DEF Next, ReadToReview, ReadToView

(* The status of the row is where the last recorded transition went,       *)
(* however many reviewers and viewers race.                                *)
THEOREM RowFollowsHistory ==
    ASSUME NewRecord PROVE Spec => []StatusIsLastEvent
<1>1. Init => TypeInv /\ AgreeInv
  BY TypeInvInit, AgreeInit
<1>2. TypeInv /\ AgreeInv /\ [Next]_vars => (TypeInv /\ AgreeInv)'
  BY TypeInvNext, AgreeNext
<1>3. AgreeInv => StatusIsLastEvent
  BY DEF AgreeInv
<1> QED
  BY <1>1, <1>2, <1>3, PTL DEF Spec

-------------------------------------------------------------------------------
(* The count, for rows of any release that counted what they did.  What a  *)
(* session has read is no larger than the history it was read beside, and  *)
(* the history never shrinks; and it is the count of the row as it stands, *)
(* as long as nobody else made a transition.                               *)

CountedRight ==
    \A old \in Stored : IF old.row = NoRow THEN old.events = <<>>
                        ELSE old.row.count = Len(old.events)

CountInv ==
    /\ state # NoRow => state.count <= Len(events)
    /\ \A r \in Requests : copy[r] # NoRow => copy[r].count <= Len(events)

SightInv ==
    /\ \A r \in Reviewers \ overtaken : copy[r] # NoRow => copy[r].count = state.count
    /\ overtaken # {} => state # NoRow
    /\ state = NoRow => events = <<>>
    /\ ~contested /\ state # NoRow => state.count = Len(events)

LEMMA FlushCount ==
    ASSUME NEW row \in Row, NEW old \in Row, NEW new \in Row
    PROVE  Flush(row, old, new).count \in {row.count, new.count}
BY DEF Flush, Row

LEMMA CountInit == CountedRight /\ Init => CountInv /\ SightInv
<1> SUFFICES ASSUME CountedRight, Init PROVE CountInv /\ SightInv
  OBVIOUS
<1>1. PICK old \in Stored : state = old.row /\ events = old.events
  BY DEF Init
<1>2. \A r \in Requests : copy[r] = NoRow
  BY DEF Init
<1>3. overtaken = {} /\ contested = FALSE
  BY DEF Init
<1>4. Len(events) \in Nat
  BY <1>1, LifecycleAssumption
<1>5. IF state = NoRow THEN events = <<>> ELSE state.count = Len(events)
  BY <1>1 DEF CountedRight
<1>6. \A r \in Reviewers : r \in Requests
  BY DEF Requests
<1> QED
  BY <1>2, <1>3, <1>4, <1>5, <1>6 DEF CountInv, SightInv

LEMMA CountNext == TypeInv /\ CountInv /\ [Next]_vars => CountInv'
<1> SUFFICES ASSUME TypeInv, CountInv, [Next]_vars PROVE CountInv'
  OBVIOUS
<1>1. Reviewers \subseteq Requests /\ Viewers \subseteq Requests
  BY DEF Requests
<1>2. Len(events) \in Nat
  BY DEF TypeInv, TypeOK
<1>3. ASSUME NEW r \in Requests, Read(r) PROVE CountInv'
  BY <1>3, ReadParts DEF CountInv
<1>4. ASSUME NEW r \in Requests, NEW new \in Row, NEW n \in Nat,
             ~Conflict(r), EndRequest(r), state' = Written(r, new),
             new.count <= n, Len(events) <= n, Len(events') = n
      PROVE  CountInv'
  <2>1. state' # NoRow => state'.count <= n
    <3>1. CASE copy[r] = NoRow
      BY <1>4, <3>1 DEF Written
    <3>2. CASE copy[r] # NoRow
      <4>1. copy[r] \in Row /\ state \in Row /\ state # NoRow
        BY <3>2 DEF TypeInv, TypeOK
      <4>2. state' = Flush(state, copy[r], new)
        BY <1>4, <3>2 DEF Written
      <4>3. state.count <= Len(events) /\ state.count \in Nat /\ new.count \in Nat
        BY <4>1 DEF CountInv, Row
      <4> QED
        BY <1>2, <1>4, <4>1, <4>2, <4>3, FlushCount
    <3> QED
      BY <3>1, <3>2
  <2>2. \A q \in Requests : copy'[q] # NoRow => copy'[q].count <= n
    <3> TAKE q \in Requests
    <3>1. CASE q = r
      BY <1>4, <3>1, EndRequestParts
    <3>2. CASE q # r /\ copy[q] # NoRow
      <4>1. copy[q].count <= Len(events) /\ copy[q].count \in Nat
        BY <3>2 DEF CountInv, TypeInv, TypeOK, Row
      <4> QED
        BY <1>2, <1>4, <3>2, <4>1, EndRequestParts
    <3> QED
      BY <1>4, <3>1, <3>2, EndRequestParts
  <2> QED
    BY <1>4, <2>1, <2>2 DEF CountInv
<1>5. ASSUME NEW r \in Requests
      PROVE  Opened(copy[r]) \in Row /\ Opened(copy[r]).count <= Len(events)
  <2>1. Opened(copy[r]) \in Row
    BY <1>5, OpenedType DEF TypeInv, TypeOK
  <2>2. CASE copy[r] = NoRow
    <3>1. Opened(copy[r]).count = 0
      BY <2>2 DEF Opened, NewRow
    <3> QED
      BY <1>2, <2>1, <3>1
  <2>3. CASE copy[r] # NoRow
    <3>1. copy[r] \in Row
      BY <1>5, <2>3 DEF TypeInv, TypeOK
    <3>2. Opened(copy[r]).count = copy[r].count
      BY <3>1, OpenedCount
    <3>3. copy[r].count <= Len(events)
      BY <1>5, <2>3 DEF CountInv
    <3> QED
      BY <2>1, <3>2, <3>3
  <2> QED
    BY <2>2, <2>3
<1>6. ASSUME NEW r \in Reviewers, Transition(r) PROVE CountInv'
  <2>1. /\ ~Conflict(r) /\ EndRequest(r)
        /\ Revised(r) \in Row
        /\ Recorded(r) \in Event
        /\ state' = Written(r, Revised(r))
        /\ events' = Append(History(r), Recorded(r))
    BY <1>6, TransitionParts
  <2>2. Len(events') = Len(events) + 1
    BY <1>1, <2>1, HistoryType DEF TypeInv
  <2>3. Revised(r).count <= Len(events) + 1
    BY <1>1, <1>2, <1>5 DEF Revised, Row
  <2> QED
    BY <1>1, <1>2, <1>4, <2>1, <2>2, <2>3
<1>7. ASSUME NEW v \in Viewers, Show(v) PROVE CountInv'
  <2>1. /\ ~Conflict(v) /\ EndRequest(v)
        /\ state' = Written(v, Opened(copy[v]))
        /\ events' = History(v)
    BY <1>7 DEF Show
  <2>2. Len(events') = Len(events)
    BY <1>1, <2>1, HistoryType DEF TypeInv
  <2> QED
    BY <1>1, <1>2, <1>4, <1>5, <2>1, <2>2
<1>8. ASSUME NEW r \in Requests, Abandon(r) PROVE CountInv'
  BY <1>8, EndRequestParts DEF Abandon, CountInv
<1>9. CASE Migrate
  <2>1. Len(events') = Len(events) /\ copy' = copy
    BY <1>9, RepairedEventsType DEF Migrate, TypeInv, TypeOK
  <2>2. state' # NoRow => state # NoRow /\ state'.count = state.count
    BY <1>9 DEF Migrate, TypeInv, TypeOK, Row
  <2> QED
    BY <2>1, <2>2 DEF CountInv
<1>10. CASE UNCHANGED vars
  BY <1>10 DEF vars, historyVars, CountInv
<1> QED
  BY <1>1, <1>3, <1>6, <1>7, <1>8, <1>9, <1>10 DEF Next, ReadToReview, ReadToView

(* A row that is written to counts what the session made of its copy.      *)
LEMMA TransitionCounts ==
    ASSUME TypeInv, SightInv, NEW r \in Reviewers, Transition(r)
    PROVE  /\ Len(events') = Len(events) + 1
           /\ state' # NoRow
           /\ ~contested' => state'.count = Len(events')
<1>0. r \in Requests
  BY DEF Requests
<1>1. /\ ~Conflict(r) /\ Revised(r) \in Row /\ Opened(copy[r]) \in Row
      /\ Recorded(r) \in Event
      /\ state' = Written(r, Revised(r)) /\ state' \in Row
      /\ events' = Append(History(r), Recorded(r))
  BY TransitionParts
<1>2. Len(events') = Len(events) + 1 /\ Len(events) \in Nat
  BY <1>0, <1>1, HistoryType DEF TypeInv, TypeOK
<1>3. state' # NoRow
  BY <1>1, LifecycleAssumption
<1>4. ASSUME ~contested'
      PROVE  state'.count = Len(events')
  <2>1. ~contested /\ r \notin overtaken
    BY <1>4 DEF Transition, TypeInv, TypeOK
  <2>2. CASE copy[r] = NoRow
    <3>1. state = NoRow /\ events = <<>>
      BY <1>1, <2>2 DEF Conflict, SightInv
    <3>2. state'.count = 0 + 1
      BY <1>1, <2>2 DEF Written, Revised, Opened, NewRow
    <3> QED
      BY <1>2, <3>1, <3>2
  <2>3. CASE copy[r] # NoRow
    <3>1. copy[r] \in Row /\ state \in Row /\ state # NoRow
      BY <1>0, <2>3 DEF TypeInv, TypeOK
    <3>2. copy[r].count = state.count /\ state.count = Len(events)
      BY <2>1, <2>3, <3>1 DEF SightInv
    <3>3. Revised(r).count = copy[r].count + 1 /\ copy[r].count \in Nat
      BY <3>1, OpenedCount DEF Revised, Row
    <3>4. state' = Flush(state, copy[r], Revised(r))
      BY <1>1, <2>3 DEF Written
    <3>5. Flush(state, copy[r], Revised(r)).count = Revised(r).count
      BY <1>1, <3>1, <3>3 DEF Flush, Row
    <3> QED
      BY <1>2, <3>2, <3>3, <3>4, <3>5
  <2> QED
    BY <2>2, <2>3
<1> QED
  BY <1>2, <1>3, <1>4

LEMMA SightNext == TypeInv /\ SightInv /\ [Next]_vars => SightInv'
<1> SUFFICES ASSUME TypeInv, SightInv, [Next]_vars PROVE SightInv'
  OBVIOUS
<1>1. Reviewers \subseteq Requests /\ Viewers \subseteq Requests
  BY DEF Requests
<1>2. Len(events) \in Nat
  BY DEF TypeInv, TypeOK
<1>3. ASSUME NEW r \in Requests, Read(r) PROVE SightInv'
  BY <1>1, <1>3, ReadParts DEF SightInv
<1>4. ASSUME NEW r \in Reviewers, Transition(r) PROVE SightInv'
  <2>1. EndRequest(r) /\ overtaken' = {q \in Reviewers \ {r} : pc[q] = "read"}
    BY <1>4 DEF Transition
  <2>2. \A q \in Reviewers \ overtaken' : copy'[q] = NoRow
    <3> TAKE q \in Reviewers \ overtaken'
    <3>1. CASE q = r
      BY <1>1, <2>1, <3>1, EndRequestParts
    <3>2. CASE q # r
      <4>1. pc[q] # "read"
        BY <2>1, <3>2
      <4>2. copy[q] = NoRow
        BY <1>1, <4>1 DEF TypeInv
      <4> QED
        BY <1>1, <2>1, <3>2, <4>2, EndRequestParts
    <3> QED
      BY <3>1, <3>2
  <2>3. state' # NoRow /\ (~contested' => state'.count = Len(events'))
    BY <1>4, TransitionCounts
  <2> QED
    BY <2>2, <2>3 DEF SightInv
<1>5. ASSUME NEW v \in Viewers, Show(v) PROVE SightInv'
  <2>1. /\ ~Conflict(v) /\ EndRequest(v)
        /\ state' = Written(v, Opened(copy[v]))
        /\ events' = History(v)
        /\ UNCHANGED <<overtaken, contested>>
    BY <1>5 DEF Show, historyVars
  <2>2. \A q \in Reviewers : copy'[q] = copy[q]
    <3>1. \A q \in Reviewers : q # v
      BY LifecycleAssumption
    <3> QED
      BY <1>1, <2>1, <3>1, EndRequestParts
  <2>3. Len(events') = Len(events)
    BY <1>1, <2>1, HistoryType DEF TypeInv
  <2>4. CASE copy[v] = NoRow
    <3>1. state = NoRow /\ events = <<>> /\ state' = NewRow
      BY <2>1, <2>4 DEF Conflict, Written, Opened, SightInv
    <3>2. /\ \A q \in Reviewers : copy[q] = NoRow
          /\ NewRow # NoRow /\ NewRow.count = 0
      BY <1>1, <3>1, NewRowType, LifecycleAssumption DEF TypeInv, NewRow
    <3> QED
      BY <2>1, <2>2, <2>3, <3>1, <3>2 DEF SightInv
  <2>5. CASE copy[v] # NoRow
    <3>1. copy[v] \in Row /\ state \in Row /\ state # NoRow
      BY <1>1, <2>5 DEF TypeInv, TypeOK
    <3>2. Opened(copy[v]) \in Row /\ Opened(copy[v]).count = copy[v].count
      BY <3>1, OpenedType, OpenedCount
    <3>3. state' = Flush(state, copy[v], Opened(copy[v]))
      BY <2>1, <2>5 DEF Written
    <3>4. state' \in Row /\ state' # NoRow
      BY <3>1, <3>2, <3>3, FlushType, LifecycleAssumption
    <3>5. state'.count = state.count
      BY <3>1, <3>2, <3>3 DEF Flush, Row
    <3> QED
      BY <2>1, <2>2, <2>3, <3>1, <3>4, <3>5 DEF SightInv
  <2> QED
    BY <2>4, <2>5
<1>6. ASSUME NEW r \in Requests, Abandon(r) PROVE SightInv'
  <2>1. /\ EndRequest(r) /\ overtaken' = overtaken \ {r}
        /\ UNCHANGED <<state, events, contested>>
    BY <1>6 DEF Abandon
  <2>2. copy'[r] = NoRow /\ \A q \in Requests \ {r} : copy'[q] = copy[q]
    BY <2>1, EndRequestParts
  <2> QED
    BY <1>1, <2>1, <2>2 DEF SightInv
<1>7. CASE Migrate
  <2>1. Len(events') = Len(events) /\ UNCHANGED <<copy, overtaken, contested>>
    BY <1>7, RepairedEventsType DEF Migrate, TypeInv, TypeOK, historyVars
  <2>2. CASE state = NoRow
    <3>1. events = <<>> /\ state' = NoRow
      BY <1>7, <2>2 DEF SightInv, Migrate
    <3>2. events' = <<>>
      BY <1>7, <2>1, <3>1 DEF Migrate, RepairedEvents
    <3> QED
      BY <1>1, <2>1, <2>2, <3>1, <3>2 DEF SightInv, TypeInv
  <2>3. CASE state # NoRow
    <3>1. state \in Row
      BY <2>3 DEF TypeInv, TypeOK
    <3>2. state' = [state EXCEPT !.status = RepairedStatus(@),
                                 !.reason = RepairedReason(@)]
      BY <1>7, <2>3 DEF Migrate
    <3>3. state' \in Row /\ state'.count = state.count
      BY <3>1, <3>2, RepairedStatusType, RepairedReasonType, ReasonsAreStored DEF Row
    <3>4. state' # NoRow
      BY <3>3, LifecycleAssumption
    <3> QED
      BY <2>1, <2>3, <3>3, <3>4 DEF SightInv
  <2> QED
    BY <2>2, <2>3
<1>8. CASE UNCHANGED vars
  BY <1>8 DEF vars, historyVars, SightInv
<1> QED
  BY <1>1, <1>3, <1>4, <1>5, <1>6, <1>7, <1>8 DEF Next, ReadToReview, ReadToView

(* The count is the length of the history until a reviewer commits a       *)
(* transition decided on a row that another's has replaced, and from then  *)
(* on no more than it, on rows of any release and however many race.       *)
THEOREM CountBehindHistory ==
    ASSUME CountedRight PROVE Spec => []CountWithinHistory
<1>1. Init => TypeInv /\ CountInv /\ SightInv
  BY TypeInvInit, CountInit
<1>2. TypeInv /\ CountInv /\ SightInv /\ [Next]_vars => (TypeInv /\ CountInv /\ SightInv)'
  BY TypeInvNext, CountNext, SightNext
<1>3. CountInv /\ SightInv => CountWithinHistory
  BY DEF CountInv, SightInv, CountWithinHistory
<1> QED
  BY <1>1, <1>2, <1>3, PTL DEF Spec

-------------------------------------------------------------------------------
(* The promise.  What a reviewer has read is the row as it stands, unless  *)
(* another has made a transition since, or a viewer created the row and    *)
(* then the reviewer's own insertion fails.                                *)

Current == \A r \in Reviewers \ overtaken : copy[r] # NoRow => copy[r] = state

LEMMA SeenCanonical ==
    ASSUME TypeInv, CanonicalInv
    PROVE  /\ Seen(state) = IF state = NoRow THEN NewRow ELSE state
           /\ RepairedEvents(events) = events
<1>1. RepairedEvents(events) = events
  BY RepairedEventsIdentity DEF CanonicalInv
<1>2. state # NoRow => Opened(state) = state
  BY OpenedIdentity DEF TypeInv, TypeOK, CanonicalInv
<1> QED
  BY <1>1, <1>2 DEF Seen

(* What a transition writes that nobody overtook.                          *)
LEMMA CurrentTransition ==
    ASSUME TypeInv, CanonicalInv, SightInv, Current,
           NEW r \in Reviewers \ overtaken, Transition(r)
    PROVE  state' = Revised(r) /\ Opened(copy[r]) = Seen(state)
<1>1. r \in Requests /\ ~Conflict(r) /\ Revised(r) \in Row
      /\ state' = Written(r, Revised(r))
  BY TransitionParts DEF Requests
<1>2. CASE copy[r] = NoRow
  BY <1>1, <1>2 DEF Conflict, Written, Opened, Seen
<1>3. CASE copy[r] # NoRow
  <2>1. copy[r] = state /\ state \in Row /\ state # NoRow
    BY <1>1, <1>3 DEF Current, TypeInv, TypeOK
  <2>2. Flush(state, state, Revised(r)) = Revised(r)
    BY <1>1, <2>1 DEF Flush, Row
  <2> QED
    BY <1>1, <1>3, <2>1, <2>2 DEF Written, Seen
<1> QED
  BY <1>2, <1>3

(* One that was overtaken writes its reason, or leaves the row's.          *)
LEMMA BlindReason ==
    ASSUME TypeInv, CanonicalInv, NEW r \in Reviewers, Transition(r)
    PROVE  state'.reason \in {Seen(state).reason, want[r].reason}
<1>1. r \in Requests /\ Revised(r) \in Row /\ state' = Written(r, Revised(r))
      /\ Revised(r).reason = want[r].reason
  BY TransitionParts DEF Requests, Revised
<1>2. CASE copy[r] = NoRow
  BY <1>1, <1>2 DEF Written
<1>3. CASE copy[r] # NoRow
  <2>1. copy[r] \in Row /\ state \in Row /\ state # NoRow
    BY <1>1, <1>3 DEF TypeInv, TypeOK
  <2>2. Flush(state, copy[r], Revised(r)).reason \in {state.reason, want[r].reason}
    BY <1>1, <2>1 DEF Flush, Row
  <2> QED
    BY <1>1, <1>3, <2>1, <2>2, SeenCanonical DEF Written
<1> QED
  BY <1>2, <1>3

LEMMA CurrentInit == Init => Current
BY DEF Init, Current, Requests

LEMMA CurrentNext ==
    TypeInv /\ CanonicalInv /\ Current /\ [Next]_vars => Current'
<1> SUFFICES ASSUME TypeInv, CanonicalInv, Current, [Next]_vars
             PROVE  Current'
  OBVIOUS
<1>1. Reviewers \subseteq Requests /\ Viewers \subseteq Requests
  BY DEF Requests
<1>2. ASSUME NEW r \in Requests, Read(r) PROVE Current'
  BY <1>1, <1>2, ReadParts DEF Current
<1>3. ASSUME NEW r \in Reviewers, Transition(r) PROVE Current'
  <2>1. EndRequest(r) /\ overtaken' = {q \in Reviewers \ {r} : pc[q] = "read"}
    BY <1>3 DEF Transition
  <2>2. \A q \in Reviewers \ overtaken' : copy'[q] = NoRow
    BY <1>1, <2>1, EndRequestParts DEF TypeInv
  <2> QED
    BY <2>2 DEF Current
<1>4. ASSUME NEW v \in Viewers, Show(v) PROVE Current'
  <2>1. EndRequest(v) /\ overtaken' = overtaken /\ \A q \in Reviewers : q # v
    BY <1>4, LifecycleAssumption DEF Show, historyVars
  <2>2. \A q \in Reviewers : copy'[q] = copy[q]
    BY <1>1, <2>1, EndRequestParts
  <2>3. state' = (IF state = NoRow THEN NewRow ELSE state)
    BY <1>4, ShowWrites
  <2>4. state = NoRow => \A q \in Reviewers : copy[q] = NoRow
    BY <1>1 DEF TypeInv
  <2> QED
    BY <2>1, <2>2, <2>3, <2>4 DEF Current
<1>5. ASSUME NEW r \in Requests, Abandon(r) PROVE Current'
  <2>1. /\ EndRequest(r) /\ overtaken' = overtaken \ {r} /\ state' = state
    BY <1>5 DEF Abandon
  <2>2. copy'[r] = NoRow /\ \A q \in Requests \ {r} : copy'[q] = copy[q]
    BY <2>1, EndRequestParts
  <2> QED
    BY <1>1, <2>1, <2>2 DEF Current
<1>6. CASE Migrate
  <2>1. overtaken' = overtaken
    BY <1>6 DEF Migrate, historyVars
  <2> QED
    BY <1>6, <2>1, MigrateWrites DEF Current
<1>7. CASE UNCHANGED vars
  BY <1>7 DEF vars, historyVars, Current
<1> QED
  BY <1>1, <1>2, <1>3, <1>4, <1>5, <1>6, <1>7 DEF Next, ReadToReview, ReadToView

LEMMA PromiseInit == Init => Promise!Init
<1> SUFFICES ASSUME Init PROVE Promise!Init
  OBVIOUS
<1>1. PICK old \in Stored : state = old.row /\ events = old.events
  BY DEF Init
<1>2. DEFINE o == [status |-> Seen(old.row).status, reason |-> Seen(old.row).reason,
                   walk   |-> RepairedEvents(old.events)]
<1>3. /\ Seen(state).status = o.status /\ Seen(state).reason = o.reason
      /\ RepairedEvents(events) = o.walk
  BY <1>1
<1>4. o \in {[status |-> Seen(x.row).status, reason |-> Seen(x.row).reason,
              walk   |-> RepairedEvents(x.events)] : x \in Stored}
  OBVIOUS
<1>5. contested = FALSE
  BY DEF Init
<1> HIDE DEF o
<1> QED
  BY <1>3, <1>4, <1>5 DEF Promise!Init

PromiseVars ==
    <<Seen(state).status, Seen(state).reason, RepairedEvents(events), contested>>

LEMMA PromiseNext ==
    /\ TypeInv /\ CanonicalInv /\ SightInv /\ Current
    /\ (TypeInv /\ CanonicalInv)' /\ [Next]_vars
    => [Promise!Next]_PromiseVars
<1> SUFFICES ASSUME TypeInv, CanonicalInv, SightInv, Current,
                    TypeInv', CanonicalInv', [Next]_vars
             PROVE  Promise!Next \/ UNCHANGED PromiseVars
  OBVIOUS
<1>1. Reviewers \subseteq Requests /\ Viewers \subseteq Requests
  BY DEF Requests
<1>2. RepairedEvents(events) = events /\ RepairedEvents(events)' = events'
  BY SeenCanonical, RepairedEventsIdentity DEF CanonicalInv
<1>3. Seen(state) = IF state = NoRow THEN NewRow ELSE state
  BY SeenCanonical
<1>4. state' # NoRow => Seen(state)' = state'
  <2>1. state' # NoRow => state' \in Row /\ Canonical(state')
    BY DEF TypeInv, TypeOK, CanonicalInv
  <2>2. state' # NoRow => Opened(state') = state'
    BY <2>1, OpenedIdentity
  <2> QED
    BY <2>2 DEF Seen
<1>5. state' = NoRow => Seen(state)' = NewRow
  BY DEF Seen
<1>6. ASSUME NEW r \in Reviewers, Transition(r)
      PROVE  Promise!Next
  <2>1. /\ Opened(copy[r]) \in Row /\ Canonical(Opened(copy[r]))
        /\ Acceptable(Opened(copy[r]), want[r])
        /\ state' \in Row /\ state' # NoRow /\ state'.status = want[r].to
        /\ events' = Append(events, Recorded(r))
        /\ contested' = (contested \/ r \in overtaken)
    BY <1>6, TransitionParts, TransitionWrites DEF Transition
  <2>2. want[r].to \in Status /\ want[r].reason \in Reason
    BY <1>1, <1>6 DEF TypeInv, TypeOK, Transition
  <2> DEFINE e == <<Opened(copy[r]).status, want[r].to>>
  <2>3. e \in {x \in Status \X Status : x[2] \in AllowedTransitions[x[1]]}
    BY <2>1, <2>2 DEF Acceptable, Canonical
  <2>4. /\ Seen(state)'.status = want[r].to
        /\ RepairedEvents(events)' =
               Append(RepairedEvents(events),
                      [from |-> e[1], to |-> want[r].to, reason |-> want[r].reason])
    BY <1>2, <1>4, <2>1 DEF Recorded
  <2>5. e[1] = Opened(copy[r]).status /\ e[2] = want[r].to
    OBVIOUS
  <2>6. Promise!Moves(e[1], want[r].to, want[r].reason)
    BY <2>3, <2>4, <2>5 DEF Promise!Moves
  <2>7. CASE ~contested /\ r \notin overtaken
    <3>1. state' = Revised(r) /\ Opened(copy[r]) = Seen(state)
      BY <1>6, <2>7, CurrentTransition
    <3>2. Seen(state).count = Len(events)
      BY <1>3, <2>7 DEF SightInv, NewRow
    <3>3. Len(RepairedEvents(events)) < MaxEvents
      BY <1>2, <2>1, <3>1, <3>2 DEF Acceptable
    <3>4. Seen(state)'.reason = want[r].reason
      BY <1>4, <2>1, <3>1 DEF Revised
    <3>5. Promise!Step(e[2], want[r].reason)
      BY <2>1, <2>5, <2>6, <2>7, <3>1, <3>3, <3>4 DEF Promise!Step
    <3> QED
      BY <2>2, <2>3, <3>5 DEF Promise!Next
  <2>8. CASE contested \/ r \in overtaken
    <3>1. Seen(state)'.reason \in {Seen(state).reason, want[r].reason}
      BY <1>4, <1>6, <2>1, BlindReason
    <3>2. Promise!BlindStep(e[1], e[2], want[r].reason)
      BY <2>1, <2>5, <2>6, <2>8, <3>1 DEF Promise!BlindStep
    <3> QED
      BY <2>2, <2>3, <3>2 DEF Promise!Next
  <2> QED
    BY <2>7, <2>8
<1>7. ASSUME state' = state \/ (state = NoRow /\ state' = NewRow),
             events' = events, contested' = contested
      PROVE  UNCHANGED PromiseVars
  <2>1. Seen(state)' = Seen(state)
    BY <1>3, <1>4, <1>5, <1>7
  <2> QED
    BY <1>2, <1>7, <2>1 DEF PromiseVars
<1>8. ASSUME NEW r \in Requests, Read(r)
      PROVE  UNCHANGED <<state, events, contested>>
  BY <1>8, ReadParts
<1>9. ASSUME NEW v \in Viewers, Show(v)
      PROVE  /\ state' = state \/ (state = NoRow /\ state' = NewRow)
             /\ UNCHANGED <<events, contested>>
  BY <1>9, ShowWrites DEF Show, historyVars
<1>10. ASSUME (\E r \in Requests : Abandon(r)) \/ UNCHANGED vars
       PROVE  UNCHANGED <<state, events, contested>>
  BY <1>10 DEF Abandon, vars, historyVars
<1>11. ASSUME Migrate PROVE UNCHANGED <<state, events, contested>>
  BY <1>11, MigrateWrites DEF Migrate, historyVars
<1> QED
  BY <1>1, <1>6, <1>7, <1>8, <1>9, <1>10, <1>11 DEF Next, ReadToReview, ReadToView

(* A new record implements ReviewRecord, with any number of reviewers and  *)
(* of viewers that may create its row at any moment.                       *)
THEOREM LifecycleImplementsPromise ==
    ASSUME NewRecord PROVE Spec => ImplementsPromise
<1> DEFINE Inv == TypeInv /\ AgreeInv /\ SightInv /\ Current
<1>1. Init => Inv /\ Promise!Init
  <2>1. NewRecord => CountedRight
    BY DEF NewRecord, CountedRight
  <2> QED
    BY <2>1, TypeInvInit, AgreeInit, CountInit, CurrentInit, PromiseInit
<1>2. Inv /\ [Next]_vars => Inv'
  BY TypeInvNext, AgreeNext, SightNext, CurrentNext DEF AgreeInv
<1>3. Inv /\ Inv' /\ [Next]_vars => [Promise!Next]_(Promise!vars)
  <2>1. Promise!vars = PromiseVars /\ (Promise!vars)' = PromiseVars'
    BY DEF Promise!vars, PromiseVars
  <2> QED
    BY <2>1, PromiseNext DEF AgreeInv
<1> QED
  BY <1>1, <1>2, <1>3, PTL DEF Spec, ImplementsPromise, Promise!Spec

-------------------------------------------------------------------------------
(* The demo's records.                                                     *)

(* No record has two ids.                                                  *)
Identified == \A i, j \in Ids : records[i] = records[j] => i = j

(* One id is the highest, so that the next one is defined: inductive, where *)
(* finiteness alone would need an induction over the set.                   *)
Newest == \E n \in Ids \cup {0} : \A i \in Ids : i <= n

(* No demo record has two manifests that bear its marker.                  *)
OneManifest ==
    \A m, n \in manifests : m.marked /\ n.marked /\ m.of = n.of => m = n

(* What seeding has left and nobody but a reset takes away.                *)
Whole ==
    /\ connection /\ profile /\ run
    /\ Missing = {}
    /\ DemoIds \subseteq DOMAIN states
    /\ \A i \in Ids :
           records[i] \in Traced => i \in DOMAIN trail /\ trail[i].seed # 0
    /\ \A d \in Attached : \E m \in manifests : m.marked /\ m.of = d
    /\ \A d \in Announced : queue[d] # "absent"

DemoInv ==
    /\ DemoTypeOK
    /\ Identified
    /\ Newest
    /\ OneManifest
    /\ NothingDangles
    /\ seeded => Whole

-------------------------------------------------------------------------------
(* The ids a seed gives out.                                               *)

UpToRank(d) == {e \in Missing : Rank[e] <= Rank[d]}

NewId(d) == LastId + Cardinality(UpToRank(d))

LEMMA LastIsNewest ==
    ASSUME Newest
    PROVE  LastId \in Ids \cup {0} /\ \A i \in Ids : i <= LastId
BY DEF Newest, LastId

LEMMA MissingCount ==
    /\ IsFiniteSet(Missing) /\ Missing \subseteq Demos
    /\ Cardinality(Missing) \in Nat
    /\ \A d \in Missing :
          /\ IsFiniteSet(UpToRank(d))
          /\ Cardinality(UpToRank(d)) \in 1..Cardinality(Missing)
<1>1. IsFiniteSet(Missing) /\ Missing \subseteq Demos
      /\ Cardinality(Missing) \in Nat
  BY DemoAssumption, FS_Subset, FS_CardinalityType DEF Missing
<1>2. ASSUME NEW d \in Missing
      PROVE  /\ IsFiniteSet(UpToRank(d))
             /\ Cardinality(UpToRank(d)) \in 1..Cardinality(Missing)
  <2>1. UpToRank(d) \in SUBSET Missing /\ d \in UpToRank(d)
    BY <1>1, DemoAssumption DEF UpToRank
  <2>2. IsFiniteSet(UpToRank(d)) /\ Cardinality(UpToRank(d)) <= Cardinality(Missing)
    BY <1>1, <2>1, FS_Subset
  <2>3. Cardinality(UpToRank(d)) \in Nat /\ Cardinality(UpToRank(d)) # 0
    BY <2>1, <2>2, FS_CardinalityType, FS_EmptySet
  <2> QED
    BY <1>1, <2>2, <2>3
<1> QED
  BY <1>1, <1>2

LEMMA RanksDiffer ==
    ASSUME NEW d \in Missing, NEW e \in Missing,
           Cardinality(UpToRank(d)) = Cardinality(UpToRank(e))
    PROVE  d = e
<1>1. d \in Demos /\ e \in Demos /\ Rank[d] \in Nat /\ Rank[e] \in Nat
  BY MissingCount, DemoAssumption
<1>2. d \in UpToRank(d) /\ e \in UpToRank(e)
  BY <1>1 DEF UpToRank
<1>3. ASSUME NEW a \in Missing, NEW b \in Missing, Rank[a] <= Rank[b],
             Cardinality(UpToRank(a)) = Cardinality(UpToRank(b))
      PROVE  UpToRank(a) = UpToRank(b)
  <2>1. Rank[a] \in Nat /\ Rank[b] \in Nat /\ \A c \in Missing : Rank[c] \in Nat
    BY MissingCount, DemoAssumption
  <2>2. UpToRank(a) \in SUBSET UpToRank(b)
    BY <1>3, <2>1 DEF UpToRank
  <2> QED
    BY <1>3, <2>2, MissingCount, FS_Subset
<1>4. UpToRank(d) = UpToRank(e)
  BY <1>1, <1>3
<1>5. Rank[d] <= Rank[e] /\ Rank[e] <= Rank[d]
  BY <1>2, <1>4 DEF UpToRank
<1> QED
  BY <1>1, <1>5, DemoAssumption

(* The last of the missing records gets the highest id.                    *)
LEMMA LastOfMissing ==
    ASSUME Missing # {}
    PROVE  \E d \in Missing : Cardinality(UpToRank(d)) = Cardinality(Missing)
<1> DEFINE n == Cardinality(Missing)
           f == [d \in Missing |-> Cardinality(UpToRank(d))]
<1>1. IsFiniteSet(1..n) /\ Cardinality(1..n) = n /\ n \in Nat /\ n # 0
  <2>1. IsFiniteSet(Missing) /\ n \in Nat
    BY MissingCount
  <2>2. n # 0
    BY <2>1, FS_EmptySet
  <2> QED
    BY <2>1, <2>2, FS_Interval
<1>2. f \in Injection(Missing, 1..n)
  BY MissingCount, RanksDiffer DEF Injection, IsInjective
<1>3. f \in Surjection(Missing, 1..n)
  BY <1>1, <1>2, FS_Injection
<1>4. \E d \in Missing : f[d] = n
  <2>1. n \in 1..n
    BY <1>1
  <2> HIDE DEF f
  <2> QED
    BY <1>3, <2>1 DEF Surjection
<1> QED
  BY <1>4

LEMMA NewIds ==
    ASSUME DemoTypeOK, Newest
    PROVE  /\ LastId \in Nat
           /\ \A d \in Missing : NewId(d) \in Nat \ {0} /\ NewId(d) \notin Ids
           /\ \A d \in Missing : LastId < NewId(d)
           /\ \A d \in Missing : NewId(d) <= LastId + Cardinality(Missing)
           /\ \A d, e \in Missing : NewId(d) = NewId(e) => d = e
<1>1. LastId \in Nat /\ \A i \in Ids : i <= LastId /\ i \in Nat
  BY LastIsNewest DEF DemoTypeOK
<1>2. ASSUME NEW d \in Missing
      PROVE  /\ NewId(d) \in Nat \ {0} /\ NewId(d) \notin Ids /\ LastId < NewId(d)
             /\ NewId(d) <= LastId + Cardinality(Missing)
  BY <1>1, MissingCount DEF NewId
<1>3. ASSUME NEW d \in Missing, NEW e \in Missing, NewId(d) = NewId(e)
      PROVE  d = e
  <2>1. Cardinality(UpToRank(d)) = Cardinality(UpToRank(e))
    BY <1>1, <1>3, MissingCount DEF NewId
  <2> QED
    BY <2>1, RanksDiffer
<1> QED
  BY <1>1, <1>2, <1>3

(* The records a seed leaves: those that were there, and each missing one  *)
(* under an id of its own.                                                 *)
LEMMA SeededAre ==
    ASSUME DemoTypeOK, Newest
    PROVE  /\ DOMAIN SeededRecords = Ids \cup {NewId(d) : d \in Missing}
           /\ \A i \in Ids : SeededRecords[i] = records[i]
           /\ \A d \in Missing : SeededRecords[NewId(d)] = d
           /\ SeededRecords = [i \in DOMAIN SeededRecords |-> SeededRecords[i]]
<1>1. SeededRecords =
        [i \in Ids \cup {NewId(d) : d \in Missing} |->
            IF i \in Ids THEN records[i] ELSE CHOOSE d \in Missing : NewId(d) = i]
  BY DEF SeededRecords, NewId, UpToRank
<1>2. ASSUME NEW d \in Missing PROVE SeededRecords[NewId(d)] = d
  <2>1. SeededRecords[NewId(d)] = CHOOSE e \in Missing : NewId(e) = NewId(d)
    BY <1>1, NewIds
  <2>2. \A e \in Missing : NewId(e) = NewId(d) => e = d
    BY NewIds
  <2> QED
    BY <2>1, <2>2
<1>3. SeededRecords = [i \in DOMAIN SeededRecords |-> SeededRecords[i]]
  <2> DEFINE ids == Ids \cup {NewId(d) : d \in Missing}
             at(i) == IF i \in Ids THEN records[i] ELSE
                          CHOOSE d \in Missing : NewId(d) = i
  <2>1. SeededRecords = [i \in ids |-> at(i)]
    BY <1>1
  <2> HIDE DEF ids, at
  <2> QED
    BY <2>1
<1> QED
  BY <1>1, <1>2, <1>3

LEMMA SeededAreTyped ==
    ASSUME DemoTypeOK, Newest, Identified, records' = SeededRecords
    PROVE  /\ IsFiniteSet(Ids') /\ Ids' \subseteq Nat \ {0}
           /\ records' \in [Ids' -> Demos \cup {Intake}]
           /\ Ids \subseteq Ids'
           /\ \A i \in Ids : records'[i] = records[i]
           /\ Missing' = {}
           /\ Identified' /\ Newest'
<1>1. /\ Ids' = Ids \cup {NewId(d) : d \in Missing}
      /\ \A i \in Ids : records'[i] = records[i]
      /\ \A d \in Missing : records'[NewId(d)] = d
  BY SeededAre DEF Ids
<1>2. \A i \in Ids' : i \in Ids \/ \E d \in Missing : i = NewId(d)
  BY <1>1
<1>3. Ids' \subseteq Nat \ {0}
  BY <1>2, NewIds DEF DemoTypeOK
<1>4. \A i \in Ids' : i <= LastId + Cardinality(Missing)
  <2>1. Cardinality(Missing) \in Nat /\ LastId \in Nat
    BY NewIds, MissingCount
  <2>2. \A i \in Ids : i <= LastId /\ i \in Nat
    BY LastIsNewest DEF DemoTypeOK
  <2> QED
    BY <1>2, <2>1, <2>2, NewIds
<1>5. IsFiniteSet(Ids')
  <2>1. LastId + Cardinality(Missing) \in Nat
    BY NewIds, MissingCount
  <2> QED
    BY <1>3, <1>4, <2>1, FS_BoundedSetOfNaturals
<1>6. records' \in [Ids' -> Demos \cup {Intake}]
  <2>1. \A i \in Ids' : records'[i] \in Demos \cup {Intake}
    BY <1>1, <1>2, MissingCount DEF DemoTypeOK
  <2>2. records' = [i \in Ids' |-> records'[i]]
    BY SeededAre DEF Ids
  <2> QED
    BY <2>1, <2>2
<1>7. Missing' = {}
  <2>1. ASSUME NEW d \in Demos PROVE \E i \in Ids' : records'[i] = d
    BY <1>1 DEF Missing
  <2> QED
    BY <2>1 DEF Missing
<1>8. Identified'
  <2> SUFFICES ASSUME NEW i \in Ids', NEW j \in Ids', records'[i] = records'[j]
               PROVE  i = j
    BY DEF Identified
  <2>1. CASE i \in Ids /\ j \in Ids
    BY <1>1, <2>1 DEF Identified
  <2>2. CASE i \in Ids /\ j \notin Ids
    BY <1>1, <1>2, <2>2 DEF Missing
  <2>3. CASE i \notin Ids /\ j \in Ids
    BY <1>1, <1>2, <2>3 DEF Missing
  <2>4. CASE i \notin Ids /\ j \notin Ids
    BY <1>1, <1>2, <2>4
  <2> QED
    BY <2>1, <2>2, <2>3, <2>4
<1>9. Newest'
  <2>1. CASE Missing = {}
    BY <1>1, <2>1 DEF Newest
  <2>2. CASE Missing # {}
    <3>1. PICK d \in Missing : Cardinality(UpToRank(d)) = Cardinality(Missing)
      BY <2>2, LastOfMissing
    <3>2. NewId(d) \in Ids' /\ \A i \in Ids' : i <= NewId(d)
      BY <1>1, <1>4, <3>1 DEF NewId
    <3> QED
      BY <3>2 DEF Newest
  <2> QED
    BY <2>1, <2>2
<1> QED
  BY <1>1, <1>3, <1>5, <1>6, <1>7, <1>8, <1>9

-------------------------------------------------------------------------------
(* A seed keeps the invariant.                                             *)

IdsOf(ds) == {i \in DOMAIN SeededRecords : SeededRecords[i] \in ds}

LEMMA SeedKeeps ==
    ASSUME DemoInv, Seed
    PROVE  DemoInv'
<1>1. DemoTypeOK /\ Newest /\ Identified /\ OneManifest /\ NothingDangles
  BY DEF DemoInv
<1>2. /\ IsFiniteSet(Ids') /\ Ids' \subseteq Nat \ {0}
      /\ records' \in [Ids' -> Demos \cup {Intake}]
      /\ Ids \subseteq Ids'
      /\ \A i \in Ids : records'[i] = records[i]
      /\ Missing' = {}
      /\ Identified' /\ Newest'
  BY <1>1, SeededAreTyped DEF Seed
<1>3. Ids' = DOMAIN SeededRecords /\ records' = SeededRecords
  BY DEF Seed, Ids
<1>4. \A ds : /\ IdsOf(ds) \subseteq Ids'
             /\ \A i \in Ids' : i \in IdsOf(ds) <=> records'[i] \in ds
  BY <1>3 DEF IdsOf
<1>5. /\ states' = SeededStates(IdsOf(Demos), records')
      /\ trail' = SeededTrail(IdsOf(Traced))
      /\ manifests' = SeededManifests(IdsOf(Attached), records')
      /\ queue' = SeededQueue
      /\ connection' = TRUE /\ profile' = TRUE /\ run' = TRUE /\ seeded' = TRUE
      /\ polls' = polls /\ spent' = [spent EXCEPT !.seed = @ + 1]
  BY <1>3 DEF Seed, IdsOf
<1>6. /\ DOMAIN states' = DOMAIN states \cup IdsOf(Demos)
      /\ states' \in [DOMAIN states' -> Statuses]
  <2>1. \A i \in IdsOf(Demos) : SeedStatus[records'[i]] \in Statuses
    BY <1>4, DemoAssumption
  <2> QED
    BY <1>1, <1>5, <2>1 DEF SeededStates, DemoTypeOK
<1>7. /\ DOMAIN trail' = DOMAIN trail \cup IdsOf(Traced)
      /\ trail' \in [DOMAIN trail' -> DemoEvent]
      /\ \A i \in IdsOf(Traced) : trail'[i].seed # 0
  <2> DEFINE old(i) == IF i \in DOMAIN trail THEN trail[i] ELSE NoEvents
             new(i) == IF i \in IdsOf(Traced) /\ old(i).seed = 0
                       THEN [old(i) EXCEPT !.seed = 1] ELSE old(i)
  <2>1. trail' = [i \in DOMAIN trail \cup IdsOf(Traced) |-> new(i)]
    BY <1>5 DEF SeededTrail
  <2>2. ASSUME NEW i PROVE old(i) \in DemoEvent
    BY <1>1 DEF DemoTypeOK, DemoEvent, NoEvents
  <2>3. ASSUME NEW i
        PROVE  new(i) \in DemoEvent /\ (i \in IdsOf(Traced) => new(i).seed # 0)
    BY <2>2 DEF DemoEvent
  <2> HIDE DEF new
  <2> QED
    BY <2>1, <2>3
<1>8. /\ manifests \subseteq manifests'
      /\ manifests' \subseteq Manifest
      /\ OneManifest'
      /\ \A d \in Attached : \E m \in manifests' : m.marked /\ m.of = d
  <2> DEFINE without == {j \in IdsOf(Attached) :
                            \A m \in manifests : m.marked => m.of # records'[j]}
             seed(i) == [owner |-> i, of |-> records'[i], marked |-> TRUE]
  <2>1. manifests' = manifests \cup {seed(i) : i \in without}
    BY <1>5 DEF SeededManifests
  <2>2. \A i \in without : i \in Ids' /\ records'[i] \in Attached /\ i \in Nat
    BY <1>2, <1>4
  <2>3. manifests' \subseteq Manifest
    <3>1. ASSUME NEW i \in without PROVE seed(i) \in Manifest
      BY <2>2, DemoAssumption DEF Manifest
    <3> HIDE DEF seed, without
    <3> QED
      BY <1>1, <2>1, <3>1 DEF DemoTypeOK
  <2>4. OneManifest'
    <3> SUFFICES ASSUME NEW m \in manifests', NEW n \in manifests',
                        m.marked, n.marked, m.of = n.of
                 PROVE  m = n
      BY DEF OneManifest
    <3>1. CASE m \in manifests /\ n \in manifests
      BY <1>1, <3>1 DEF OneManifest
    <3>2. CASE m \in manifests /\ n \notin manifests
      BY <2>1, <3>2
    <3>3. CASE m \notin manifests /\ n \in manifests
      BY <2>1, <3>3
    <3>4. CASE m \notin manifests /\ n \notin manifests
      <4>1. PICK i \in without : m = seed(i)
        BY <2>1, <3>4
      <4>2. PICK j \in without : n = seed(j)
        BY <2>1, <3>4
      <4>3. i = j
        BY <1>2, <2>2, <4>1, <4>2 DEF Identified
      <4> QED
        BY <4>1, <4>2, <4>3
    <3> QED
      BY <3>1, <3>2, <3>3, <3>4
  <2>5. ASSUME NEW d \in Attached
        PROVE  \E m \in manifests' : m.marked /\ m.of = d
    <3>1. PICK i \in Ids' : records'[i] = d
      BY <1>2, DemoAssumption DEF Missing
    <3>2. i \in IdsOf(Attached)
      BY <1>4, <3>1
    <3>3. CASE i \in without
      <4>1. seed(i) \in manifests' /\ seed(i).marked /\ seed(i).of = d
        BY <2>1, <3>1, <3>3
      <4> QED
        BY <4>1
    <3>4. CASE i \notin without
      BY <2>1, <3>1, <3>2, <3>4
    <3> QED
      BY <3>3, <3>4
  <2> QED
    BY <2>1, <2>3, <2>4, <2>5
<1>9. /\ queue' \in [Demos -> {"absent", "queued", "processed"}]
      /\ \A d \in Announced : queue'[d] # "absent"
  BY <1>1, <1>5, DemoAssumption DEF SeededQueue, DemoTypeOK
<1>10. spent' \in [visit : Nat, seed : Nat]
  BY <1>1, <1>5 DEF DemoTypeOK
<1>11. DemoTypeOK'
  BY <1>1, <1>2, <1>5, <1>6, <1>7, <1>8, <1>9, <1>10 DEF DemoTypeOK
<1>12. NothingDangles'
  BY <1>1, <1>2, <1>4, <1>5, <1>6, <1>7 DEF NothingDangles
<1>13. Whole'
  <2>1. DemoIds' \subseteq DOMAIN states'
    BY <1>4, <1>6 DEF DemoIds
  <2>2. \A i \in Ids' : records'[i] \in Traced
                => i \in DOMAIN trail' /\ trail'[i].seed # 0
    BY <1>4, <1>7
  <2> QED
    BY <1>2, <1>5, <1>8, <1>9, <2>1, <2>2 DEF Whole
<1> QED
  BY <1>2, <1>8, <1>11, <1>12, <1>13 DEF DemoInv

-------------------------------------------------------------------------------
(* A reset keeps it: of the records it leaves there is at most one.        *)

LEMMA WithoutIs ==
    ASSUME NEW f, NEW ids
    PROVE  /\ DOMAIN Without(f, ids) = DOMAIN f \ ids
           /\ \A i \in DOMAIN f \ ids : Without(f, ids)[i] = f[i]
           /\ Without(f, ids) =
               [i \in DOMAIN Without(f, ids) |-> Without(f, ids)[i]]
BY DEF Without

LEMMA ResetKeeps ==
    ASSUME DemoInv, Reset
    PROVE  DemoInv'
<1>1. DemoTypeOK /\ Newest /\ Identified /\ OneManifest /\ NothingDangles
  BY DEF DemoInv
<1>2. /\ Ids' = Ids \ DemoIds
      /\ \A i \in Ids' : records'[i] = records[i] /\ records[i] = Intake
      /\ records' \in [Ids' -> Demos \cup {Intake}]
  <2>1. records' = Without(records, DemoIds)
    BY DEF Reset
  <2>2. Ids' = Ids \ DemoIds /\ \A i \in Ids' : records'[i] = records[i]
    <3>1. /\ DOMAIN Without(records, DemoIds) = DOMAIN records \ DemoIds
          /\ \A i \in DOMAIN records \ DemoIds :
                  Without(records, DemoIds)[i] = records[i]
      BY WithoutIs
    <3> QED
      BY <2>1, <3>1 DEF Ids
  <2>3. \A i \in Ids' : records[i] = Intake
    BY <1>1, <2>2 DEF DemoTypeOK, DemoIds
  <2> QED
    <3>1. Without(records, DemoIds)
            = [i \in DOMAIN Without(records, DemoIds)
                  |-> Without(records, DemoIds)[i]]
      BY WithoutIs
    <3>2. records' = [i \in Ids' |-> records'[i]]
      BY <2>1, <3>1 DEF Ids
    <3> QED
      BY <2>2, <2>3, <3>2
<1>3. Identified'
  BY <1>1, <1>2 DEF Identified
<1>4. Newest'
  <2>1. CASE Ids' = {}
    BY <2>1 DEF Newest
  <2>2. CASE Ids' # {}
    <3>1. PICK n \in Ids' : TRUE
      BY <2>2
    <3>2. n \in Nat /\ \A i \in Ids' : i = n
      BY <1>1, <1>2 DEF Identified, DemoTypeOK
    <3>3. \A i \in Ids' : i <= n
      BY <3>2
    <3> QED
      BY <3>3 DEF Newest
  <2> QED
    BY <2>1, <2>2
<1>5. /\ states' = Without(states, DemoIds) /\ trail' = Without(trail, DemoIds)
      /\ manifests' = {m \in manifests : ~m.marked}
      /\ queue' = [d \in Demos |-> "absent"]
      /\ run' = FALSE /\ profile' = FALSE /\ connection' = (connection /\ polls > 0)
      /\ seeded' = FALSE /\ polls' = polls /\ spent' = [spent EXCEPT !.seed = @ + 1]
  BY DEF Reset, DeleteOfDemos
<1>6. /\ DOMAIN states' = DOMAIN states \ DemoIds
      /\ DOMAIN trail' = DOMAIN trail \ DemoIds
      /\ states' \in [DOMAIN states' -> Statuses]
      /\ trail' \in [DOMAIN trail' -> DemoEvent]
  <2>1. ASSUME NEW f, NEW S, f \in [DOMAIN f -> S]
        PROVE  /\ DOMAIN Without(f, DemoIds) = DOMAIN f \ DemoIds
               /\ Without(f, DemoIds) \in [DOMAIN Without(f, DemoIds) -> S]
    BY <2>1 DEF Without
  <2>2. states \in [DOMAIN states -> Statuses] /\ trail \in [DOMAIN trail -> DemoEvent]
    BY <1>1 DEF DemoTypeOK
  <2>3. /\ DOMAIN Without(states, DemoIds) = DOMAIN states \ DemoIds
        /\ Without(states, DemoIds) \in
                      [DOMAIN Without(states, DemoIds) -> Statuses]
    BY <2>1, <2>2
  <2>4. /\ DOMAIN Without(trail, DemoIds) = DOMAIN trail \ DemoIds
        /\ Without(trail, DemoIds) \in [DOMAIN Without(trail, DemoIds) -> DemoEvent]
    BY <2>1, <2>2
  <2> QED
    BY <1>5, <2>3, <2>4
<1>7. DemoTypeOK'
  <2>1. IsFiniteSet(Ids') /\ Ids' \subseteq Nat \ {0}
    BY <1>1, <1>2, FS_Subset DEF DemoTypeOK
  <2>2. spent' \in [visit : Nat, seed : Nat]
    BY <1>1, <1>5 DEF DemoTypeOK
  <2>3. {connection', profile', run', seeded'} \subseteq BOOLEAN
    BY <1>5
  <2>4. manifests' \subseteq Manifest
        /\ queue' \in [Demos -> {"absent", "queued", "processed"}]
        /\ polls' \in Nat
    BY <1>1, <1>5 DEF DemoTypeOK
  <2> QED
    BY <1>2, <1>6, <2>1, <2>2, <2>3, <2>4 DEF DemoTypeOK
<1>8. OneManifest'
  BY <1>5 DEF OneManifest
<1>9. NothingDangles'
  BY <1>1, <1>2, <1>5, <1>6 DEF NothingDangles
<1> QED
  BY <1>3, <1>4, <1>5, <1>7, <1>8, <1>9 DEF DemoInv

-------------------------------------------------------------------------------
(* What visitors do.                                                       *)

LEMMA ReviewKeeps ==
    ASSUME DemoInv, NEW i \in Ids, Review(i)
    PROVE  DemoInv'
<1>1. DemoTypeOK /\ Newest /\ Identified /\ OneManifest /\ NothingDangles
  BY DEF DemoInv
<1>2. UNCHANGED <<connection, profile, run, polls, records, manifests, queue, seeded>>
  BY DEF Review, Visit
<1>3. /\ spent' \in [visit : Nat, seed : Nat]
      /\ DOMAIN states' = DOMAIN states \cup {i}
      /\ states' \in [DOMAIN states' -> Statuses]
  BY <1>1 DEF Review, Visit, DemoTypeOK
<1>4. /\ DOMAIN trail' = DOMAIN trail \cup {i}
      /\ trail' \in [DOMAIN trail' -> DemoEvent]
      /\ \A j \in DOMAIN trail : trail'[j].seed = trail[j].seed
  <2> DEFINE old(j) == IF j \in DOMAIN trail THEN trail[j] ELSE NoEvents
             new(j) == IF j = i THEN [old(j) EXCEPT !.review = @ + 1] ELSE old(j)
  <2>1. trail' = [j \in DOMAIN trail \cup {i} |-> new(j)]
    BY DEF Review
  <2>2. ASSUME NEW j PROVE old(j) \in DemoEvent
    BY <1>1 DEF DemoTypeOK, DemoEvent, NoEvents
  <2>3. ASSUME NEW j PROVE new(j) \in DemoEvent /\ new(j).seed = old(j).seed
    BY <2>2 DEF DemoEvent
  <2> HIDE DEF new
  <2> QED
    BY <2>1, <2>3
<1>5. DemoTypeOK'
  BY <1>1, <1>2, <1>3, <1>4 DEF DemoTypeOK, Ids
<1>6. Newest' /\ Identified' /\ OneManifest'
  BY <1>1, <1>2 DEF Newest, Identified, OneManifest, Ids
<1>7. NothingDangles'
  BY <1>1, <1>2, <1>3, <1>4 DEF NothingDangles, Ids
<1>8. seeded' => Whole'
  BY <1>2, <1>3, <1>4 DEF DemoInv, Whole, Missing, DemoIds, Ids
<1> QED
  BY <1>5, <1>6, <1>7, <1>8 DEF DemoInv

LEMMA PlanKeeps ==
    ASSUME DemoInv, NEW i \in Ids, PlanAttachment(i)
    PROVE  DemoInv'
<1>1. DemoTypeOK /\ Newest /\ Identified /\ OneManifest /\ NothingDangles
  BY DEF DemoInv
<1>2. UNCHANGED <<connection, profile, run, polls, records, states, trail, queue, seeded>>
  BY DEF PlanAttachment, Visit
<1>3. /\ spent' \in [visit : Nat, seed : Nat]
      /\ manifests' = manifests \cup {[owner |-> i, of |-> records[i], marked |-> FALSE]}
  BY <1>1 DEF PlanAttachment, Visit, DemoTypeOK
<1>4. manifests' \subseteq Manifest
  <2>1. i \in Nat /\ records[i] \in Demos \cup {Intake}
    BY <1>1 DEF DemoTypeOK
  <2>2. [owner |-> i, of |-> records[i], marked |-> FALSE] \in Manifest
    BY <2>1 DEF Manifest
  <2> QED
    BY <1>1, <1>3, <2>2 DEF DemoTypeOK
<1>5. DemoTypeOK'
  BY <1>1, <1>2, <1>3, <1>4 DEF DemoTypeOK, Ids
<1>6. Newest' /\ Identified' /\ NothingDangles'
  BY <1>1, <1>2 DEF Newest, Identified, NothingDangles, Ids
<1>7. OneManifest'
  BY <1>1, <1>3 DEF OneManifest
<1>8. seeded' => Whole'
  BY <1>2, <1>3 DEF DemoInv, Whole, Missing, DemoIds, Ids
<1> QED
  BY <1>5, <1>6, <1>7, <1>8 DEF DemoInv

LEMMA PollKeeps ==
    ASSUME DemoInv, PollDemo
    PROVE  DemoInv'
<1>1. DemoTypeOK /\ Newest /\ Identified /\ OneManifest /\ NothingDangles
  BY DEF DemoInv
<1>2. /\ UNCHANGED <<connection, profile, run, records, states, trail,
                manifests, queue, seeded>>
      /\ connection /\ polls' = polls + 1
  BY DEF PollDemo, Visit
<1>3. spent' \in [visit : Nat, seed : Nat]
  BY <1>1 DEF PollDemo, Visit, DemoTypeOK
<1>4. DemoTypeOK'
  BY <1>1, <1>2, <1>3 DEF DemoTypeOK, Ids
<1>5. Newest' /\ Identified' /\ NothingDangles' /\ OneManifest'
  BY <1>1, <1>2 DEF Newest, Identified, NothingDangles, OneManifest, Ids
<1>6. seeded' => Whole'
  BY <1>2 DEF DemoInv, Whole, Missing, DemoIds, Ids
<1> QED
  BY <1>4, <1>5, <1>6 DEF DemoInv

LEMMA SyncKeeps ==
    ASSUME DemoInv, SyncIntake
    PROVE  DemoInv'
<1> DEFINE new == LastId + 1
<1>1. DemoTypeOK /\ Newest /\ Identified /\ OneManifest /\ NothingDangles
  BY DEF DemoInv
<1>2. UNCHANGED <<connection, profile, run, polls, states, trail,
                manifests, queue, seeded>>
  BY DEF SyncIntake, Visit
<1>3. /\ \A i \in Ids : i <= LastId /\ i \in Nat
      /\ new \in Nat \ {0} /\ new \notin Ids /\ LastId \in Nat
  BY <1>1, LastIsNewest DEF DemoTypeOK
<1> HIDE DEF new
<1>4. /\ records' = [i \in Ids \cup {new} |->
                 IF i \in Ids THEN records[i] ELSE Intake]
      /\ \A i \in Ids : records[i] # Intake
  BY DEF SyncIntake, new
<1>5. /\ Ids' = Ids \cup {new} /\ records'[new] = Intake
      /\ \A i \in Ids : records'[i] = records[i]
  BY <1>3, <1>4 DEF Ids
<1>6. /\ IsFiniteSet(Ids') /\ Ids' \subseteq Nat \ {0}
      /\ records' \in [Ids' -> Demos \cup {Intake}]
  BY <1>1, <1>3, <1>4, <1>5, FS_AddElement DEF DemoTypeOK
<1>7. spent' \in [visit : Nat, seed : Nat]
  BY <1>1 DEF SyncIntake, Visit, DemoTypeOK
<1>8. DemoTypeOK'
  BY <1>1, <1>2, <1>6, <1>7 DEF DemoTypeOK
<1>9. Identified'
  BY <1>1, <1>4, <1>5 DEF Identified
<1>10. Newest'
  <2>1. \A i \in Ids' : i <= new
    BY <1>3, <1>5 DEF new
  <2> QED
    BY <1>5, <2>1 DEF Newest
<1>11. OneManifest' /\ NothingDangles'
  BY <1>1, <1>2, <1>5 DEF OneManifest, NothingDangles
<1>12. seeded' => Whole'
  <2> SUFFICES ASSUME seeded PROVE Whole'
    BY <1>2
  <2>1. Whole
    BY DEF DemoInv
  <2>2. Missing' = {}
    BY <1>5, <2>1 DEF Whole, Missing
  <2>3. DemoIds' \subseteq DOMAIN states'
    BY <1>2, <1>5, <2>1, DemoAssumption DEF Whole, DemoIds
  <2>4. \A i \in Ids' : records'[i] \in Traced
                => i \in DOMAIN trail' /\ trail'[i].seed # 0
    BY <1>2, <1>5, <2>1, DemoAssumption DEF Whole
  <2> QED
    BY <1>2, <2>1, <2>2, <2>3, <2>4 DEF Whole
<1> QED
  BY <1>8, <1>9, <1>10, <1>11, <1>12 DEF DemoInv

LEMMA ProcessKeeps ==
    ASSUME DemoInv, NEW d \in Demos, ProcessEvent(d)
    PROVE  DemoInv'
<1>1. DemoTypeOK /\ Newest /\ Identified /\ OneManifest /\ NothingDangles
  BY DEF DemoInv
<1>2. /\ UNCHANGED <<connection, profile, run, polls, records, states, trail,
                manifests, seeded>>
      /\ spent' = spent
      /\ queue' = [queue EXCEPT ![d] = "processed"]
  BY DEF ProcessEvent
<1>3. /\ queue' \in [Demos -> {"absent", "queued", "processed"}]
      /\ \A e \in Demos : queue[e] # "absent" => queue'[e] # "absent"
  BY <1>1, <1>2 DEF DemoTypeOK
<1>4. DemoTypeOK'
  BY <1>1, <1>2, <1>3 DEF DemoTypeOK, Ids
<1>5. Newest' /\ Identified' /\ NothingDangles' /\ OneManifest'
  BY <1>1, <1>2 DEF Newest, Identified, NothingDangles, OneManifest, Ids
<1>6. seeded' => Whole'
  BY <1>2, <1>3, DemoAssumption DEF DemoInv, Whole, Missing, DemoIds, Ids
<1> QED
  BY <1>4, <1>5, <1>6 DEF DemoInv

LEMMA DemoInvInit == DemoInit => DemoInv
<1> SUFFICES ASSUME DemoInit PROVE DemoInv
  OBVIOUS
<1>1. Ids = {} /\ DOMAIN states = {} /\ DOMAIN trail = {}
  BY DEF DemoInit, Ids
<1>2. DemoTypeOK
  <2>1. \A S : <<>> \in [{} -> S]
    OBVIOUS
  <2>2. IsFiniteSet({})
    BY FS_EmptySet
  <2>3. /\ records \in [Ids -> Demos \cup {Intake}]
        /\ states \in [DOMAIN states -> Statuses] /\ trail \in [DOMAIN trail -> DemoEvent]
    BY <1>1, <2>1 DEF DemoInit
  <2> QED
    BY <1>1, <2>2, <2>3 DEF DemoInit, DemoTypeOK
<1>3. Identified /\ Newest /\ OneManifest /\ NothingDangles /\ ~seeded
  BY <1>1 DEF DemoInit, Identified, Newest, OneManifest, NothingDangles
<1> QED
  BY <1>2, <1>3 DEF DemoInv

LEMMA DemoInvNext ==
    ASSUME DemoInv, [DemoNext]_demoVars
    PROVE  DemoInv'
<1>1. CASE UNCHANGED demoVars
  BY <1>1 DEF demoVars, tables, DemoInv, DemoTypeOK, Identified, Newest, OneManifest,
              NothingDangles, Whole, Missing, DemoIds, Ids
<1> QED
  BY <1>1, SeedKeeps, ResetKeeps, ReviewKeeps, PlanKeeps, PollKeeps, SyncKeeps,
     ProcessKeeps DEF DemoNext

LEMMA DemoAlways == DemoSpec => []DemoInv
<1>1. DemoInit => DemoInv
  BY DemoInvInit
<1>2. DemoInv /\ [DemoNext]_demoVars => DemoInv'
  BY DemoInvNext
<1> QED
  BY <1>1, <1>2, PTL DEF DemoSpec

-------------------------------------------------------------------------------
(* What the demo promises.                                                 *)

(* Every state of the demo's tables is well typed.                         *)
THEOREM DemoTypesHold == DemoSpec => []DemoTypeOK
<1>1. DemoInv => DemoTypeOK
  BY DEF DemoInv
<1> QED
  BY <1>1, DemoAlways, PTL

(* demo_data_experience looks each row up by its marker before it creates  *)
(* it: however seeds, resets and visits alternate, and although SQLite     *)
(* gives ids out again, a demo record and its manifest are there at most   *)
(* once.                                                                   *)
THEOREM MarkersAreUnique == DemoSpec => []OnePerMarker
<1>1. DemoInv => OnePerMarker
  BY DEF DemoInv, Identified, OneManifest, OnePerMarker
<1> QED
  BY <1>1, DemoAlways, PTL

(* reset_demo_data deletes what refers to a demo record before the record: *)
(* no review state or lifecycle event is left without its record, and no   *)
(* profile or run without its connection.                                  *)
THEOREM ResetLeavesNothing == DemoSpec => []NothingDangles
<1>1. DemoInv => NothingDangles
  BY DEF DemoInv
<1> QED
  BY <1>1, DemoAlways, PTL

(* seed_demo_data on what is seeded already changes no table, whatever     *)
(* visitors have reviewed, planned, polled and processed since.            *)
THEOREM SeedingTwiceIsOnce == DemoSpec => SeedIsIdempotent
<1>1. ASSUME DemoInv, Seed, seeded
      PROVE  UNCHANGED tables
  <2>1. DemoTypeOK /\ Newest /\ Whole
    BY <1>1 DEF DemoInv
  <2>2. Missing = {}
    BY <2>1 DEF Whole
  <2>3. SeededRecords = records
    <3>1. /\ DOMAIN SeededRecords = DOMAIN records
          /\ \A i \in DOMAIN records : SeededRecords[i] = records[i]
      BY <2>1, <2>2, SeededAre DEF Ids
    <3>2. SeededRecords = [i \in DOMAIN SeededRecords |-> SeededRecords[i]]
      BY <2>1, SeededAre
    <3>3. records = [i \in DOMAIN records |-> records[i]]
      BY <2>1 DEF DemoTypeOK, Ids
    <3> QED
      BY <3>1, <3>2, <3>3
  <2>4. \A ds : IdsOf(ds) = {i \in Ids : records[i] \in ds}
    BY <2>3 DEF IdsOf, Ids
  <2>5. /\ records' = records
        /\ states' = SeededStates(IdsOf(Demos), records)
        /\ trail' = SeededTrail(IdsOf(Traced))
        /\ manifests' = SeededManifests(IdsOf(Attached), records)
        /\ queue' = SeededQueue
        /\ connection' = TRUE /\ profile' = TRUE /\ run' = TRUE /\ polls' = polls
    BY <1>1, <2>3 DEF Seed, IdsOf
  <2>6. states' = states
    <3>1. IdsOf(Demos) \subseteq DOMAIN states
      BY <2>1, <2>4 DEF Whole, DemoIds
    <3>2. states' = [i \in DOMAIN states |-> states[i]]
      BY <2>5, <3>1 DEF SeededStates
    <3> QED
      BY <2>1, <3>2 DEF DemoTypeOK
  <2>7. trail' = trail
    <3>1. \A i \in IdsOf(Traced) : i \in DOMAIN trail /\ trail[i].seed # 0
      BY <2>1, <2>4 DEF Whole
    <3>2. trail' = [i \in DOMAIN trail |-> trail[i]]
      BY <2>5, <3>1 DEF SeededTrail
    <3> QED
      BY <2>1, <3>2 DEF DemoTypeOK
  <2>8. manifests' = manifests
    <3>1. {j \in IdsOf(Attached) :
            \A m \in manifests : m.marked => m.of # records[j]} = {}
      BY <2>1, <2>4 DEF Whole
    <3> QED
      BY <2>5, <3>1 DEF SeededManifests
  <2>9. queue' = queue
    BY <2>1, <2>5 DEF SeededQueue, Whole, DemoTypeOK
  <2>10. connection' = connection /\ profile' = profile /\ run' = run
    BY <2>1, <2>5 DEF Whole, DemoTypeOK
  <2> QED
    BY <2>5, <2>6, <2>7, <2>8, <2>9, <2>10 DEF tables
<1>2. DemoInv /\ [DemoNext]_demoVars
          => [Seed /\ seeded => UNCHANGED tables]_demoVars
  BY <1>1
<1> QED
  BY <1>2, DemoAlways, PTL DEF DemoSpec, SeedIsIdempotent

===============================================================================
