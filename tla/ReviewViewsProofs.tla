-------------------------- MODULE ReviewViewsProofs --------------------------
(***************************************************************************)
(* What the views promise, for any records, commits, page sizes and        *)
(* sections asked for.                                                     *)
(*                                                                         *)
(* The queue: its labels are of one moment, and what waits is sorted       *)
(* before what is closed.  Both follow from what a request has in hand     *)
(* while it builds the queue: the states as they were at a moment it       *)
(* remembers, and items labelled from them.                                *)
(*                                                                         *)
(* The page of a record explains the status it shows: each record that is  *)
(* no longer new has a last event that says so, and only commits after the *)
(* row was read can push that event off the page.                          *)
(*                                                                         *)
(* The sections of a packet know ever more: they are built in order, and   *)
(* what they count only grows.                                             *)
(*                                                                         *)
(* The listing has no holes, and is exact when nobody commits: the place   *)
(* of a record only grows as others arrive, so that whoever stands before  *)
(* the offset of a page is on an earlier one.                              *)
(***************************************************************************)
EXTENDS ReviewViews, FiniteSetTheorems, TLAPS

TriageSteps == {"queue_probe", "queue_states", "queue_records", "queue_item"}
DetailSteps == {"row", "commit_row", "refresh_row", "history"}

Types ==
    /\ date \in Seq(Dates) /\ Len(date) <= MaxRecords
    /\ row \in Rows
    /\ DOMAIN work = DOMAIN NoWork
    /\ DOMAIN shown = DOMAIN Nothing
    /\ shown.queue \subseteq Item

(* What the sections asked for say about the step a request is at.         *)
Frame ==
    /\ pc = "idle" => shown.queue = {}
    /\ pc # "idle" =>
          /\ \/ start.asked = {"detail"}
             \/ start.asked \subseteq Sections \ {"detail"}
          /\ "triage" \in start.asked => row \in past
    /\ pc \notin {"idle", "done"} => plan # {} /\ plan \subseteq start.asked
    /\ pc \in TriageSteps => "triage" \in start.asked
    /\ pc \in DetailSteps => start.asked = {"detail"} /\ shown.queue = {}

Labelled(items, then) ==
    \A i \in DOMAIN items : items[i].label = Label(then[items[i].record])

(* What a request has in hand while it builds the queue.                   *)
InHand ==
    /\ pc \in {"queue_records", "queue_item"} => work.copy \in past \cap Rows
    /\ pc = "queue_item" =>
          /\ work.dates \in Seq(Dates) /\ Len(work.dates) <= MaxRecords
          /\ work.todo \in Seq(1..Len(work.dates))
          /\ work.items \in Seq(Item)
          /\ Labelled(work.items, work.copy)

OneMoment(queue) ==
    \/ queue = {}
    \/ \E then \in past : \A i \in queue : i.label = Label(then[i.record])

Inv == Types /\ Frame /\ InHand /\ OneMoment(shown.queue)

-------------------------------------------------------------------------------

(* The first of some sections is one of them.                              *)
LEMMA FirstIsOne ==
    ASSUME NEW S \in SUBSET Sections, S # {}
    PROVE  First(S) \in S /\ \A t \in S : Position[First(S)] <= Position[t]
<1>1. \E s \in S : \A t \in S : Position[s] <= Position[t]
  <2>0. S \subseteq {"detail", "intake", "records", "lifecycle", "triage",
                     "attachments", "events"}
    BY DEF Sections, FirstStep
  <2>1. CASE "detail" \in S
    BY <2>0, <2>1 DEF Position
  <2>2. CASE "detail" \notin S /\ "intake" \in S
    BY <2>0, <2>2 DEF Position
  <2>3. CASE S \cap {"detail", "intake"} = {} /\ "records" \in S
    BY <2>0, <2>3 DEF Position
  <2>4. CASE S \cap {"detail", "intake", "records"} = {} /\ "lifecycle" \in S
    BY <2>0, <2>4 DEF Position
  <2>5. CASE /\ S \cap {"detail", "intake", "records", "lifecycle"} = {}
             /\ "triage" \in S
    BY <2>0, <2>5 DEF Position
  <2>6. CASE S \subseteq {"attachments", "events"} /\ "attachments" \in S
    BY <2>6 DEF Position
  <2>7. CASE S = {"events"}
    BY <2>7 DEF Position
  <2> QED
    BY <2>0, <2>1, <2>2, <2>3, <2>4, <2>5, <2>6, <2>7
<1> QED
  BY <1>1 DEF First

(* A request that reads something the queue is not made of.                *)
LEMMA LookKeeps ==
    ASSUME Inv, NEW next, NEW read, Look(next, read),
           pc \notin {"idle", "done"}, next \notin {"idle", "done"},
           next \notin TriageSteps,
           next \in DetailSteps => pc \in DetailSteps,
           DOMAIN read = DOMAIN work
    PROVE  Inv'
<1>1. Types'
  BY DEF Inv, Types, Look, db
<1>2. Frame'
  BY DEF Inv, Frame, Look, db, history, TriageSteps
<1>3. InHand' /\ OneMoment(shown.queue)'
  BY DEF Inv, InHand, OneMoment, Look, history, TriageSteps
<1> QED
  BY <1>1, <1>2, <1>3 DEF Inv

(* A request that adds something but the queue to its answer.              *)
LEMMA ShowKeeps ==
    ASSUME Inv, NEW next, NEW answer, Show(next, answer),
           pc \notin {"idle", "done"}, next \notin {"idle", "done"},
           next \notin TriageSteps,
           next \in DetailSteps => pc \in DetailSteps,
           DOMAIN answer = DOMAIN shown, answer.queue = shown.queue
    PROVE  Inv'
<1>1. Types'
  BY DEF Inv, Types, Show, db
<1>2. Frame'
  BY DEF Inv, Frame, Show, db, history, TriageSteps
<1>3. InHand' /\ OneMoment(shown.queue)'
  BY DEF Inv, InHand, OneMoment, Show, history, TriageSteps
<1> QED
  BY <1>1, <1>2, <1>3 DEF Inv

(* The end of a section leads to the first step of the next one asked for. *)
LEMMA EndKeeps ==
    ASSUME Inv, NEW answer, EndSection(answer), pc \notin {"idle", "done"},
           DOMAIN answer = DOMAIN shown,
           answer.queue \subseteq Item, OneMoment(answer.queue)
    PROVE  Inv'
<1>1. Types'
  BY DEF Inv, Types, EndSection, db, NoWork
<1>2. plan # {} /\ plan \subseteq start.asked /\ plan \subseteq Sections
  BY DEF Inv, Frame, Sections, FirstStep
<1>3. First(plan) \in plan
  BY <1>2, FirstIsOne
<1>4. Frame' /\ InHand'
  <2>1. CASE plan' = {}
    BY <2>1 DEF Inv, Frame, InHand, EndSection, db, history, TriageSteps,
                DetailSteps
  <2>2. CASE plan' # {}
    <3>1. plan' \subseteq plan /\ First(plan') \in plan'
      BY <1>2, <2>2, FirstIsOne DEF EndSection
    <3>2. pc' = FirstStep[First(plan')] /\ First(plan') \in Sections
      BY <1>2, <2>2, <3>1 DEF EndSection
    <3>3. start.asked \subseteq Sections \ {"detail"}
      BY <1>2, <1>3, <2>2, <3>1 DEF Inv, Frame, EndSection
    <3>4. pc' \notin DetailSteps \cup {"idle", "done", "queue_states",
                                       "queue_records", "queue_item"}
      BY <1>2, <3>1, <3>2, <3>3 DEF FirstStep, Sections, DetailSteps
    <3>5. pc' \in TriageSteps => "triage" \in start.asked
      BY <1>2, <3>1, <3>2 DEF FirstStep, Sections, TriageSteps
    <3>6. Frame'
      BY <1>2, <3>1, <3>3, <3>4, <3>5
      DEF Inv, Frame, EndSection, db, history
    <3>7. InHand'
      BY <3>4 DEF InHand
    <3> QED
      BY <3>6, <3>7
  <2> QED
    BY <2>1, <2>2
<1>5. OneMoment(shown.queue)'
  BY DEF OneMoment, EndSection, history
<1> QED
  BY <1>1, <1>4, <1>5 DEF Inv

(* A step of a request that is no Look of the queue, and no commit.        *)
LEMMA OtherStepsKeep ==
    ASSUME Inv,
           \/ CountRecords \/ CountManifests
           \/ CountPage \/ ReadPage \/ ReadItem \/ EndPage
           \/ CountStates \/ CountEvents
           \/ ReadManifestRecords \/ ReadManifest \/ EndAttachments
           \/ CountEventTotal \/ ReadEventRows
           \/ ReadRow \/ RefreshRow \/ ReadHistory
    PROVE  Inv'
<1> USE DEF TriageSteps, DetailSteps
<1>0. /\ shown.queue \subseteq Item
      /\ OneMoment(shown.queue)
      /\ "queue" \in DOMAIN shown
  BY DEF Inv, Types, Nothing
<1>1. CASE CountRecords
  BY <1>0, <1>1, ShowKeeps DEF CountRecords
<1>2. CASE CountManifests
  BY <1>0, <1>2, EndKeeps DEF CountManifests
<1>3. CASE CountPage
  BY <1>3, LookKeeps DEF CountPage
<1>4. CASE ReadPage
  <2> DEFINE read == [work EXCEPT !.todo = PageRows(work.page), !.items = <<>>]
  <2>1. Look("item", read) /\ DOMAIN read = DOMAIN work /\ pc = "page_rows"
    BY <1>4 DEF ReadPage
  <2> HIDE DEF read
  <2> QED
    BY <2>1, LookKeeps
<1>5. CASE ReadItem
  <2> DEFINE read == [work EXCEPT
                 !.todo = Tail(@),
                 !.items = Append(@, [record |-> Head(work.todo),
                                      label |-> Label(row[Head(work.todo)])])]
  <2>1. Look("item", read) /\ DOMAIN read = DOMAIN work /\ pc = "item"
    BY <1>5 DEF ReadItem
  <2> HIDE DEF read
  <2> QED
    BY <2>1, LookKeeps
<1>6. CASE EndPage
  <2> DEFINE listed == Taken(work.listed, work.items)
  <2>1. CASE MorePages(listed, work.items, work.page, work.pages)
    <3> DEFINE read == [work EXCEPT !.listed = listed, !.page = @ + 1,
                                    !.items = <<>>]
    <3>1. Look("page_count", read) /\ DOMAIN read = DOMAIN work /\ pc = "item"
      BY <1>6, <2>1 DEF EndPage
    <3> HIDE DEF read
    <3> QED
      BY <3>1, LookKeeps
  <2>2. CASE ~MorePages(listed, work.items, work.page, work.pages)
    BY <1>0, <1>6, <2>2, EndKeeps DEF EndPage
  <2> QED
    BY <2>1, <2>2
<1>7. CASE CountStates
  BY <1>0, <1>7, ShowKeeps DEF CountStates
<1>8. CASE CountEvents
  BY <1>0, <1>8, EndKeeps DEF CountEvents
<1>9. CASE ReadManifestRecords
  BY <1>9, LookKeeps DEF ReadManifestRecords
<1>10. CASE ReadManifest
  <2> DEFINE read == [work EXCEPT
                 !.todo = Tail(@),
                 !.items = Append(@, Head(work.todo) \in manifest)]
  <2>1. Look("manifest", read) /\ DOMAIN read = DOMAIN work /\ pc = "manifest"
    BY <1>10 DEF ReadManifest
  <2> HIDE DEF read
  <2> QED
    BY <2>1, LookKeeps
<1>11. CASE EndAttachments
  BY <1>0, <1>11, EndKeeps DEF EndAttachments
<1>12. CASE CountEventTotal
  BY <1>0, <1>12, ShowKeeps DEF CountEventTotal
<1>13. CASE ReadEventRows
  BY <1>0, <1>13, EndKeeps DEF ReadEventRows
<1>14. CASE ReadRow
  BY <1>14, LookKeeps DEF ReadRow
<1>15. CASE RefreshRow
  BY <1>0, <1>15, ShowKeeps DEF RefreshRow
<1>16. CASE ReadHistory
  BY <1>0, <1>16, EndKeeps DEF ReadHistory
<1> QED
  BY <1>1, <1>2, <1>3, <1>4, <1>5, <1>6, <1>7, <1>8, <1>9, <1>10, <1>11, <1>12,
     <1>13, <1>14, <1>15, <1>16

(* Commits of others: a moment more that the request has lived through.    *)
LEMMA CommitsKeep ==
    ASSUME Inv, OtherCommit
    PROVE  Inv'
<1>1. /\ UNCHANGED <<pc, plan, work, shown, start>>
      /\ past \subseteq past'
      /\ "triage" \in start.asked => row' \in past'
  BY DEF OtherCommit, StoreRecord, UpdateRecord, Review, OpenRow, Commit,
         request
<1>2. /\ date' \in Seq(Dates) /\ Len(date') <= MaxRecords
      /\ row' \in Rows
  <2>0. date \in Seq(Dates) /\ Len(date) <= MaxRecords /\ MaxRecords \in Nat
    BY ViewsAssumption DEF Inv, Types
  <2>1. CASE \E d \in Dates, attached \in BOOLEAN : StoreRecord(d, attached)
    BY <2>0, <2>1 DEF StoreRecord, Inv, Types
  <2>2. CASE \E d \in Dates, attached \in BOOLEAN, k \in DOMAIN date :
                 UpdateRecord(k, d, attached)
    BY <2>0, <2>2 DEF UpdateRecord, Inv, Types
  <2>3. CASE \E k \in DOMAIN date : OpenRow(k)
    BY <2>0, <2>3 DEF OpenRow, Inv, Types, Rows, Status
  <2>4. CASE \E k \in DOMAIN date, to \in Targets : Review(k, to)
    BY <2>0, <2>4, ViewsAssumption DEF Review, Inv, Types, Rows
  <2> QED
    BY <2>1, <2>2, <2>3, <2>4 DEF OtherCommit
<1>3. Types'
  BY <1>1, <1>2 DEF Inv, Types
<1>4. Frame'
  BY <1>1 DEF Inv, Frame
<1>5. InHand' /\ OneMoment(shown.queue)'
  BY <1>1 DEF Inv, InHand, OneMoment
<1> QED
  BY <1>3, <1>4, <1>5 DEF Inv

(* What is left of the records to look at.                                 *)
LEMMA HeadAndTail ==
    ASSUME NEW S, NEW s \in Seq(S), s # <<>>
    PROVE  Head(s) \in S /\ Tail(s) \in Seq(S)
<1> QED
  OBVIOUS

(* The building of the queue.                                              *)
LEMMA QueueStepsKeep ==
    ASSUME Inv,
           \/ ProbeQueue \/ ReadStates \/ ReadRecords
           \/ ReadQueueItem \/ EndQueue
    PROVE  Inv'
<1>0. /\ shown.queue \subseteq Item
      /\ OneMoment(shown.queue)
      /\ "triage" \in start.asked
      /\ pc \in TriageSteps
      /\ row \in past
  BY DEF Inv, Types, Frame, TriageSteps, ProbeQueue, ReadStates, ReadRecords,
         ReadQueueItem, EndQueue
<1>1. CASE ProbeQueue /\ date = <<>>
  BY <1>0, <1>1, EndKeeps DEF ProbeQueue
<1>2. ASSUME NEW next, NEW read, Look(next, read),
             next \in TriageSteps, DOMAIN read = DOMAIN work
      PROVE  Types' /\ Frame' /\ OneMoment(shown.queue)'
  BY <1>0, <1>2 DEF Inv, Types, Frame, OneMoment, Look, db, history,
                    TriageSteps, DetailSteps
<1>3. CASE ProbeQueue /\ date # <<>>
  <2>1. Look("queue_states", work)
    BY <1>3 DEF ProbeQueue
  <2>2. InHand'
    BY <2>1 DEF InHand, Look
  <2> QED
    BY <1>2, <2>1, <2>2 DEF Inv, TriageSteps
<1>4. CASE ReadStates
  <2> DEFINE read == [work EXCEPT !.copy = row]
  <2>1. Look("queue_records", read) /\ DOMAIN read = DOMAIN work
    BY <1>4 DEF ReadStates
  <2>2. work'.copy = row /\ row \in Rows /\ past' = past
    BY <2>1 DEF Look, history, Inv, Types, NoWork
  <2>3. InHand'
    BY <1>0, <2>1, <2>2 DEF InHand, Look
  <2> HIDE DEF read
  <2> QED
    BY <1>2, <2>1, <2>3 DEF Inv, TriageSteps
<1>5. CASE ReadRecords
  <2> DEFINE read == [work EXCEPT !.todo = [k \in DOMAIN date |-> k],
                                  !.items = <<>>, !.dates = date]
  <2>1. Look("queue_item", read) /\ DOMAIN read = DOMAIN work
    BY <1>5 DEF ReadRecords
  <2>2. /\ read.copy = work.copy /\ read.items = <<>> /\ read.dates = date
        /\ read.todo = [k \in DOMAIN date |-> k]
    BY DEF Inv, Types, NoWork
  <2> HIDE DEF read
  <2>3. work' = read /\ pc' = "queue_item" /\ past' = past
    BY <2>1 DEF Look, history
  <2>4. date \in Seq(Dates) /\ Len(date) <= MaxRecords
    BY DEF Inv, Types
  <2>5. read.todo \in Seq(1..Len(date))
    BY <2>2, <2>4
  <2>6. work.copy \in past \cap Rows
    BY <1>5 DEF ReadRecords, Inv, InHand
  <2>7. Labelled(<<>>, work.copy) /\ <<>> \in Seq(Item)
    BY DEF Labelled
  <2>8. /\ work'.copy = work.copy /\ work'.items = <<>>
        /\ work'.dates = date /\ work'.todo \in Seq(1..Len(date))
    BY <2>2, <2>3, <2>5
  <2>9. InHand'
    BY <2>3, <2>4, <2>6, <2>7, <2>8 DEF InHand
  <2> QED
    BY <1>2, <2>1, <2>9 DEF Inv, TriageSteps
<1>6. CASE ReadQueueItem
  <2> DEFINE k == Head(work.todo)
             item == [record |-> k, label |-> QueueLabel(k),
                      date |-> work.dates[k], manifest |-> k \in manifest]
             read == [work EXCEPT !.todo = Tail(@),
                                  !.items = Append(@, item)]
  <2>1. /\ Look("queue_item", read) /\ DOMAIN read = DOMAIN work
        /\ work.todo # <<>>
    BY <1>6 DEF ReadQueueItem
  <2>2. /\ read.copy = work.copy /\ read.items = Append(work.items, item)
        /\ read.dates = work.dates /\ read.todo = Tail(work.todo)
    BY DEF Inv, Types, NoWork
  <2>3. /\ work.copy \in past \cap Rows
        /\ work.dates \in Seq(Dates) /\ Len(work.dates) <= MaxRecords
        /\ work.todo \in Seq(1..Len(work.dates))
        /\ work.items \in Seq(Item) /\ Labelled(work.items, work.copy)
    BY <1>6 DEF ReadQueueItem, Inv, InHand
  <2>4. k \in 1..Len(work.dates) /\ Tail(work.todo) \in Seq(1..Len(work.dates))
    BY <2>1, <2>3, HeadAndTail
  <2>5. item \in Item
    <3>0. Len(work.dates) \in Nat /\ MaxRecords \in Nat
      BY <2>3, ViewsAssumption
    <3>1. k \in Records
      BY <2>3, <2>4, <3>0 DEF Records
    <3>2. work.copy[k] \in Status \cup {NoRow}
      BY <2>3, <3>1 DEF Rows
    <3>3. QueueLabel(k) \in Status
      BY <3>2 DEF QueueLabel, Label, Status
    <3>4. work.dates[k] \in Dates
      BY <2>3, <2>4
    <3> QED
      BY <3>1, <3>3, <3>4 DEF Item
  <2>6. item.record = k /\ item.label = Label(work.copy[k])
    BY DEF QueueLabel
  <2> HIDE DEF read, item
  <2>7. work' = read /\ pc' = "queue_item" /\ past' = past
    BY <2>1 DEF Look, history
  <2>8. /\ Append(work.items, item) \in Seq(Item)
        /\ Labelled(Append(work.items, item), work.copy)
    BY <2>3, <2>5, <2>6 DEF Labelled
  <2>9. InHand'
    BY <2>2, <2>3, <2>4, <2>7, <2>8 DEF InHand
  <2> QED
    BY <1>2, <2>1, <2>9 DEF Inv, TriageSteps
<1>7. CASE EndQueue
  <2> DEFINE queue == {work.items[i] : i \in DOMAIN work.items}
             answer == [shown EXCEPT !.queue = queue]
  <2>1. EndSection(answer) /\ pc = "queue_item"
    BY <1>7 DEF EndQueue
  <2>2. DOMAIN answer = DOMAIN shown /\ answer.queue = queue
    BY DEF Inv, Types, Nothing
  <2>3. /\ work.copy \in past /\ work.items \in Seq(Item)
        /\ Labelled(work.items, work.copy)
    BY <2>1 DEF Inv, InHand
  <2>4. queue \subseteq Item
    BY <2>3
  <2>5. \A i \in queue : i.label = Label(work.copy[i.record])
    BY <2>3 DEF Labelled
  <2>6. OneMoment(queue)
    BY <2>3, <2>5 DEF OneMoment
  <2> HIDE DEF answer, queue
  <2> QED
    BY <2>1, <2>2, <2>4, <2>6, EndKeeps
<1> QED
  BY <1>1, <1>3, <1>4, <1>5, <1>6, <1>7

(* The beginning and the end of a request.                                 *)
LEMMA EdgesKeep ==
    ASSUME Inv,
           \/ \E sections \in Requests : Begin(sections, 0)
           \/ \E k \in DOMAIN date : Begin({"detail"}, k)
           \/ CommitRow \/ FailPage \/ Deliver
    PROVE  Inv'
<1>1. ASSUME NEW sections \in SUBSET Sections, NEW k, Begin(sections, k),
             sections # {},
             sections = {"detail"} \/ sections \subseteq Sections \ {"detail"}
      PROVE  Inv'
  <2>1. First(sections) \in sections /\ pc' = FirstStep[First(sections)]
    BY <1>1, FirstIsOne DEF Begin
  <2>2. /\ pc' \notin {"idle", "done", "queue_states", "queue_records",
                       "queue_item"}
        /\ pc' \in TriageSteps => "triage" \in sections
        /\ pc' \in DetailSteps => sections = {"detail"}
    BY <1>1, <2>1 DEF FirstStep, Sections, TriageSteps, DetailSteps
  <2>3. /\ plan' = sections /\ start'.asked = sections
        /\ "triage" \in sections => past' = {row}
        /\ row' = row /\ date' = date /\ shown' = shown
        /\ work' = [NoWork EXCEPT !.record = k]
    BY <1>1 DEF Begin, db
  <2>4. shown.queue = {}
    BY <1>1 DEF Inv, Frame, Begin
  <2>5. Types'
    BY <2>3 DEF Inv, Types, NoWork
  <2>6. Frame'
    BY <1>1, <2>2, <2>3, <2>4 DEF Frame
  <2>7. InHand' /\ OneMoment(shown.queue)'
    BY <2>2, <2>3, <2>4 DEF InHand, OneMoment
  <2> QED
    BY <2>5, <2>6, <2>7 DEF Inv
<1>2. CASE \E sections \in Requests : Begin(sections, 0)
  BY <1>1, <1>2, RequestsAssumption
<1>3. CASE \E k \in DOMAIN date : Begin({"detail"}, k)
  BY <1>1, <1>3 DEF Sections, FirstStep
<1>4. CASE CommitRow
  <2>1. /\ pc' = "refresh_row" /\ pc = "commit_row" /\ date' = date
        /\ UNCHANGED <<plan, work, shown, start, past>>
    BY <1>4 DEF CommitRow, history
  <2>2. row' \in Rows
    <3> DEFINE k == work.record
    <3>1. row \in Rows /\ row' = [row EXCEPT ![k] = Label(row[k])]
      BY <1>4 DEF CommitRow, Inv, Types
    <3>2. k \in Records => Label(row[k]) \in Status
      BY <3>1 DEF Rows, Label, Status
    <3> HIDE DEF k
    <3> QED
      BY <3>1, <3>2 DEF Rows
  <2>3. Types'
    BY <2>1, <2>2 DEF Inv, Types
  <2>4. Frame'
    BY <2>1 DEF Inv, Frame, TriageSteps, DetailSteps
  <2>5. InHand' /\ OneMoment(shown.queue)'
    BY <2>1 DEF Inv, InHand, OneMoment
  <2> QED
    BY <2>3, <2>4, <2>5 DEF Inv
<1>5. CASE FailPage
  <2>1. /\ pc' = "idle" /\ work' = NoWork /\ UNCHANGED <<date, row, shown>>
        /\ shown.queue = {}
    BY <1>5 DEF FailPage, db, Inv, Frame, DetailSteps
  <2> QED
    BY <2>1 DEF Inv, Types, Frame, InHand, OneMoment, TriageSteps, DetailSteps
<1>6. CASE Deliver
  <2>1. /\ pc' = "idle" /\ shown' = Nothing /\ UNCHANGED <<date, row, work>>
    BY <1>6 DEF Deliver, db
  <2> QED
    BY <2>1 DEF Inv, Types, Frame, InHand, OneMoment, Nothing, TriageSteps,
                DetailSteps
<1> QED
  BY <1>2, <1>3, <1>4, <1>5, <1>6

(* Every step keeps the invariant.                                         *)
LEMMA StepKeeps ==
    ASSUME Inv, [Next]_vars
    PROVE  Inv'
<1>1. CASE UNCHANGED vars
  BY <1>1 DEF Inv, Types, Frame, InHand, OneMoment, vars, db, request, history
<1>2. CASE Next
  BY <1>2, OtherStepsKeep, CommitsKeep, QueueStepsKeep, EdgesKeep DEF Next
<1> QED
  BY <1>1, <1>2

(* It holds at the beginning,                                              *)
LEMMA InitHolds ==
    ASSUME Init
    PROVE  Inv
<1>1. date \in Seq(Dates) /\ Len(date) <= MaxRecords
  BY ViewsAssumption DEF Init
<1> QED
  BY <1>1 DEF Init, Inv, Types, Frame, InHand, OneMoment, Rows, Nothing,
              TriageSteps, DetailSteps

(* and so always.                                                          *)
LEMMA InvHolds == Spec => []Inv
<1> QED
  BY InitHolds, StepKeeps, PTL DEF Spec

(* The labels of a triage queue are all of one moment of the request, with *)
(* any number of records, states and commits in between.                   *)
THEOREM TriageLabelsAreOfOneMoment == Spec => []TriageIsSnapshot
<1>1. Inv => TriageIsSnapshot
  <2> SUFFICES ASSUME Inv, Answered("triage")
               PROVE  \E then \in past :
                          \A i \in shown.queue :
                              i.label = Label(then[i.record])
    BY DEF TriageIsSnapshot
  <2>1. row \in past
    BY DEF Inv, Frame, Answered
  <2> QED
    BY <2>1 DEF Inv, OneMoment
<1> QED
  BY <1>1, InvHolds, PTL

(* What is closed never stands before what waits, whatever the dates.      *)
THEOREM WaitingStandsFirst == Spec => []WaitingFirst
<1>1. Inv => WaitingFirst
  <2> SUFFICES ASSUME Inv,
                      NEW i \in shown.queue, NEW j \in shown.queue,
                      NEW x \in Extra, NEW y \in Extra,
                      \/ i.label = "needs_follow_up"
                      \/ i.date \in 1..OlderBefore - 1,
                      i.label \in {"new", "in_review", "needs_follow_up"},
                      j.label \in {"reviewed", "ignored"}
               PROVE  Score(i, x) > Score(j, y)
    BY DEF WaitingFirst
  <2>1. i \in Item /\ j \in Item
    BY DEF Inv, Types
  <2>2. x \in 0..35 /\ y \in 0..35
    BY DEF Extra
  <2>3. ~IsOverdue(j) /\ LifecycleWeight[j.label] <= -20
        /\ LifecycleWeight[j.label] \in Int
    BY DEF IsOverdue, LifecycleWeight
  <2>4. Score(j, y) <= -20 + 10 + 10 + 35 /\ Score(j, y) \in Int
    BY <2>2, <2>3 DEF Score
  <2>5. \/ /\ LifecycleWeight[i.label] = 50
        \/ /\ LifecycleWeight[i.label] \in {20, 30} /\ IsOverdue(i)
    BY DEF LifecycleWeight, IsOverdue
  <2>6. Score(i, x) >= 50 /\ Score(i, x) \in Int
    BY <2>2, <2>5 DEF Score
  <2> QED
    BY <2>4, <2>6
<1> QED
  BY <1>1, InvHolds, PTL
-------------------------------------------------------------------------------
(* The order of the sections, and what a request remembers of its start.   *)

StepsOf ==
    [detail      |-> DetailSteps,
     intake      |-> {"record_count", "manifest_count"},
     records     |-> {"page_count", "page_rows", "item"},
     lifecycle   |-> {"states", "events"},
     triage      |-> TriageSteps,
     attachments |-> {"manifest_records", "manifest"},
     events      |-> {"event_total", "event_rows"}]

Built == start.asked \ plan

Scheduled ==
    /\ plan \subseteq start.asked
    /\ pc \in {"idle", "done"} => plan = {}
    /\ pc = "idle" => start.asked = {}
    /\ pc \notin {"idle", "done"} => pc \in StepsOf[First(plan)]
    /\ \A s \in plan, t \in Built : Position[t] < Position[s]

WalkType ==
    /\ pc = "manifest_records" => work.items = <<>>
    /\ pc = "manifest" => work.items \in Seq(BOOLEAN) /\ work.todo \in Seq(Nat)

Counted ==
    /\ events \in Seq(Event)
    /\ manifest \subseteq DOMAIN date
    /\ commits \in Nat /\ start.commits \in Nat /\ DOMAIN start = DOMAIN NoStart
    /\ pc # "idle" => start.commits <= commits
    /\ {shown.records, shown.manifests, shown.events, shown.eventTotal,
        shown.reviewed, shown.manifested} \subseteq Nat
    /\ shown.states \in [Status -> Nat]
    /\ IsFiniteSet(shown.queue)
    /\ WalkType

(* Where a request is says which section it builds, and that those before  *)
(* it are built.                                                           *)
LEMMA AtSection ==
    ASSUME Inv, Scheduled, NEW s \in Sections, pc \in StepsOf[s]
    PROVE  /\ First(plan) = s /\ s \in plan /\ s \in start.asked
           /\ pc \notin {"idle", "done"}
           /\ \A t \in start.asked : Position[t] < Position[s] => t \in Built
<1>1. pc \notin {"idle", "done"}
  BY DEF StepsOf, Sections, FirstStep, DetailSteps, TriageSteps
<1>2. plan # {} /\ plan \subseteq start.asked /\ plan \subseteq Sections
  BY <1>1 DEF Inv, Frame, Sections, FirstStep
<1>3. /\ First(plan) \in plan /\ \A t \in plan : Position[First(plan)] <= Position[t]
      /\ pc \in StepsOf[First(plan)]
  BY <1>1, <1>2, FirstIsOne DEF Scheduled
<1>4. First(plan) = s
  <2>1. First(plan) \in Sections
    BY <1>2, <1>3
  <2> QED
    BY <1>3, <2>1 DEF StepsOf, Sections, FirstStep, DetailSteps, TriageSteps
<1>5. \A t \in Sections : Position[t] \in Int
  BY DEF Sections, FirstStep, Position
<1> QED
  BY <1>1, <1>2, <1>3, <1>4, <1>5 DEF Built

(* The step from one section to the next.                                  *)
LEMMA SectionEnds ==
    ASSUME Inv, Scheduled, NEW s \in Sections, pc \in StepsOf[s],
           NEW answer, EndSection(answer)
    PROVE  /\ Built' = Built \cup {s} /\ plan' = plan \ {s} /\ s \notin Built
           /\ pc' = "done" \/ \E t \in plan' : pc' = FirstStep[t] /\ t = First(plan')
           /\ pc' = "done" => plan' = {}
           /\ UNCHANGED <<db, history>> /\ shown' = answer
<1>1. First(plan) = s /\ s \in plan /\ s \in start.asked
  BY AtSection
<1>2. plan \subseteq Sections /\ plan \subseteq start.asked
  BY <1>1, AtSection DEF Inv, Frame, Sections, FirstStep
<1>3. plan' # {} => First(plan') \in plan'
  BY <1>1, <1>2, FirstIsOne DEF EndSection
<1>4. \A t \in Sections : FirstStep[t] # "done"
  BY DEF Sections, FirstStep
<1> QED
  BY <1>1, <1>2, <1>3, <1>4 DEF EndSection, Built, history

(* What the steps of a request within a section have in common.            *)
Within(s) ==
    /\ pc \in StepsOf[s] /\ pc' \in StepsOf[s]
    /\ UNCHANGED <<plan, start, past, steady>>

LEMMA WithinKeeps ==
    ASSUME Inv, Scheduled, NEW s \in Sections, Within(s)
    PROVE  Scheduled' /\ Built' = Built
<1>1. First(plan) = s /\ pc' \notin {"idle", "done"}
  BY AtSection DEF Within, StepsOf, Sections, FirstStep, DetailSteps, TriageSteps
<1> QED
  BY <1>1 DEF Scheduled, Within, Built

LEMMA EndSchedule ==
    ASSUME Inv, Scheduled, NEW s \in Sections, pc \in StepsOf[s],
           NEW answer, EndSection(answer)
    PROVE  Scheduled'
<1>1. /\ Built' = Built \cup {s} /\ plan' = plan \ {s} /\ start' = start
      /\ pc' = "done" \/ \E t \in plan' : pc' = FirstStep[t] /\ t = First(plan')
      /\ pc' = "done" => plan' = {}
  BY SectionEnds DEF history
<1>2. /\ s \in plan /\ First(plan) = s /\ plan \subseteq Sections
      /\ plan \subseteq start.asked
  BY AtSection DEF Inv, Frame, Sections, FirstStep
<1>3. \A t \in plan \ {s} : Position[s] < Position[t]
  <2>1. \A t \in plan : Position[s] <= Position[t]
    BY <1>2, FirstIsOne
  <2>2. \A t \in Sections : t # s => Position[t] # Position[s]
    BY DEF Sections, FirstStep, Position
  <2>3. \A t \in Sections : Position[t] \in Int
    BY DEF Sections, FirstStep, Position
  <2> QED
    BY <1>2, <2>1, <2>2, <2>3
<1>4. \A t \in Sections : FirstStep[t] \in StepsOf[t] /\ FirstStep[t] \notin {"idle", "done"}
  BY DEF Sections, FirstStep, StepsOf, DetailSteps, TriageSteps
<1> QED
  BY <1>1, <1>2, <1>3, <1>4 DEF Scheduled

(* The steps of a request, by section: those within it and those that end  *)
(* it.                                                                     *)
More == MorePages(Taken(work.listed, work.items), work.items, work.page, work.pages)

Steps(s) ==
    \/ s = "detail" /\ (ReadRow \/ CommitRow \/ RefreshRow)
    \/ s = "intake" /\ CountRecords
    \/ s = "records" /\ (CountPage \/ ReadPage \/ ReadItem \/ (EndPage /\ More))
    \/ s = "lifecycle" /\ CountStates
    \/ s = "triage" /\ \/ ProbeQueue /\ date # <<>>
                       \/ ReadStates \/ ReadRecords \/ ReadQueueItem
    \/ s = "attachments" /\ (ReadManifestRecords \/ ReadManifest)
    \/ s = "events" /\ CountEventTotal

Ends(s) ==
    \/ s = "detail" /\ ReadHistory
    \/ s = "intake" /\ CountManifests
    \/ s = "records" /\ EndPage /\ ~More
    \/ s = "lifecycle" /\ CountEvents
    \/ s = "triage" /\ ((ProbeQueue /\ date = <<>>) \/ EndQueue)
    \/ s = "attachments" /\ EndAttachments
    \/ s = "events" /\ ReadEventRows

Begins ==
    \/ \E sections \in Requests : Begin(sections, 0)
    \/ \E k \in DOMAIN date : Begin({"detail"}, k)

LEMMA NextCases ==
    ASSUME [Next]_vars
    PROVE  \/ UNCHANGED vars \/ OtherCommit \/ Begins \/ FailPage \/ Deliver
           \/ \E s \in Sections : Steps(s) \/ Ends(s)
<1>1. Sections = {"detail", "intake", "records", "lifecycle", "triage",
                  "attachments", "events"}
  BY DEF Sections, FirstStep
<1> QED
  BY <1>1 DEF Next, Begins, Steps, Ends

LEMMA WithinSteps ==
    ASSUME NEW s \in Sections, Steps(s)
    PROVE  Within(s)
<1> USE DEF Within, Look, Show, history, StepsOf, DetailSteps, TriageSteps
<1>1. CASE ReadRow \/ CommitRow \/ RefreshRow
  BY <1>1 DEF Steps, ReadRow, CommitRow, RefreshRow, CountRecords,
     CountPage, ReadPage, ReadItem, EndPage, CountStates, ProbeQueue,
     ReadStates, ReadRecords, ReadQueueItem, ReadManifestRecords,
     ReadManifest, CountEventTotal
<1>2. CASE s = "intake" /\ CountRecords
  BY <1>2 DEF CountRecords
<1>3. CASE s = "records" /\ (CountPage \/ ReadPage \/ ReadItem)
  BY <1>3 DEF CountPage, ReadPage, ReadItem
<1>4. CASE s = "records" /\ EndPage /\ More
  BY <1>4 DEF EndPage, More
<1>5. CASE s = "lifecycle" /\ CountStates
  BY <1>5 DEF CountStates
<1>6. CASE /\ s = "triage"
           /\ \/ ProbeQueue /\ date # <<>>
              \/ ReadStates \/ ReadRecords \/ ReadQueueItem
  BY <1>6 DEF ProbeQueue, ReadStates, ReadRecords, ReadQueueItem
<1>7. CASE s = "attachments" /\ (ReadManifestRecords \/ ReadManifest)
  BY <1>7 DEF ReadManifestRecords, ReadManifest
<1>8. CASE s = "events" /\ CountEventTotal
  BY <1>8 DEF CountEventTotal
<1> QED
  BY <1>1, <1>2, <1>3, <1>4, <1>5, <1>6, <1>7, <1>8 DEF Steps

LEMMA EndingSteps ==
    ASSUME NEW s \in Sections, Ends(s)
    PROVE  pc \in StepsOf[s] /\ \E answer : EndSection(answer)
<1> USE DEF StepsOf, DetailSteps, TriageSteps
<1>1. CASE s = "detail" /\ ReadHistory
  BY <1>1 DEF ReadHistory
<1>2. CASE s = "intake" /\ CountManifests
  BY <1>2 DEF CountManifests
<1>3. CASE s = "records" /\ EndPage /\ ~More
  BY <1>3 DEF EndPage, More
<1>4. CASE s = "lifecycle" /\ CountEvents
  BY <1>4 DEF CountEvents
<1>5. CASE s = "triage" /\ ((ProbeQueue /\ date = <<>>) \/ EndQueue)
  BY <1>5 DEF ProbeQueue, EndQueue
<1>6. CASE s = "attachments" /\ EndAttachments
  BY <1>6 DEF EndAttachments
<1>7. CASE s = "events" /\ ReadEventRows
  BY <1>7 DEF ReadEventRows
<1> QED
  BY <1>1, <1>2, <1>3, <1>4, <1>5, <1>6, <1>7 DEF Ends

(* Nothing is built when a request begins.                                 *)
LEMMA RequestBegins ==
    ASSUME Inv, Scheduled, Begins
    PROVE  \E sections \in SUBSET Sections, k \in Nat :
              /\ sections # {} /\ plan' = sections /\ start'.asked = sections
              /\ "detail" \in sections => sections = {"detail"} /\ k \in DOMAIN date
              /\ Built' = {}
              /\ pc' = FirstStep[First(sections)] /\ First(sections) \in sections
              /\ pc = "idle" /\ work' = [NoWork EXCEPT !.record = k]
              /\ start' = [asked |-> sections, date |-> date, commits |-> commits]
              /\ steady' = TRUE
              /\ UNCHANGED <<date, row, events, manifest, commits, shown>>
<1>1. ASSUME NEW sections \in SUBSET Sections, NEW k \in Nat, Begin(sections, k),
             sections # {},
             "detail" \in sections => sections = {"detail"} /\ k \in DOMAIN date
      PROVE  /\ plan' = sections /\ start'.asked = sections
             /\ Built' = {}
             /\ pc' = FirstStep[First(sections)] /\ First(sections) \in sections
             /\ pc = "idle" /\ work' = [NoWork EXCEPT !.record = k]
             /\ start' = [asked |-> sections, date |-> date, commits |-> commits]
             /\ steady' = TRUE
             /\ UNCHANGED <<date, row, events, manifest, commits, shown>>
  BY <1>1, FirstIsOne DEF Begin, Built, db
<1>2. CASE \E sections \in Requests : Begin(sections, 0)
  <2>1. PICK sections \in Requests : Begin(sections, 0)
    BY <1>2
  <2>2. sections \in SUBSET Sections /\ sections # {} /\ "detail" \notin sections
    BY <2>1, RequestsAssumption
  <2> QED
    BY <1>1, <2>1, <2>2
<1>3. CASE \E k \in DOMAIN date : Begin({"detail"}, k)
  <2>1. PICK k \in DOMAIN date : Begin({"detail"}, k)
    BY <1>3
  <2>2. k \in Nat /\ {"detail"} \in SUBSET Sections
    BY DEF Inv, Types, Sections, FirstStep
  <2> QED
    BY <1>1, <2>1, <2>2
<1> QED
  BY <1>2, <1>3 DEF Begins

LEMMA ScheduledNext ==
    ASSUME Inv, Scheduled, [Next]_vars
    PROVE  Scheduled'
<1>1. CASE UNCHANGED vars
  BY <1>1 DEF Scheduled, Built, vars, request, history
<1>2. CASE OtherCommit
  <2>1. UNCHANGED <<pc, plan, start>>
    BY <1>2 DEF OtherCommit, StoreRecord, UpdateRecord, Review, OpenRow, Commit,
                request
  <2> QED
    BY <2>1 DEF Scheduled, Built
<1>3. CASE Begins
  <2>1. PICK sections \in SUBSET Sections :
              /\ sections # {} /\ plan' = sections /\ start'.asked = sections
              /\ Built' = {} /\ First(sections) \in sections
              /\ pc' = FirstStep[First(sections)]
    BY <1>3, RequestBegins
  <2>2. \A t \in Sections : FirstStep[t] \in StepsOf[t] /\ FirstStep[t] \notin {"idle", "done"}
    BY DEF Sections, FirstStep, StepsOf, DetailSteps, TriageSteps
  <2> QED
    BY <2>1, <2>2 DEF Scheduled
<1>4. CASE FailPage \/ Deliver
  BY <1>4 DEF FailPage, Deliver, Scheduled, Built, NoStart
<1>5. ASSUME NEW s \in Sections, Steps(s)
      PROVE  Scheduled'
  BY <1>5, WithinSteps, WithinKeeps
<1>6. ASSUME NEW s \in Sections, Ends(s)
      PROVE  Scheduled'
  BY <1>6, EndingSteps, EndSchedule
<1> QED
  BY <1>1, <1>2, <1>3, <1>4, <1>5, <1>6, NextCases

(* A sequence without repetitions has as many elements as places.          *)
LEMMA ElementsCounted ==
    ASSUME NEW S, NEW q \in Seq(S)
    PROVE  /\ IsFiniteSet({q[i] : i \in DOMAIN q})
           /\ Cardinality({q[i] : i \in DOMAIN q}) \in Nat
           /\ Cardinality({q[i] : i \in DOMAIN q}) <= Len(q)
           /\ (\A i, j \in DOMAIN q : q[i] = q[j] => i = j) =>
                  Cardinality({q[i] : i \in DOMAIN q}) = Len(q)
<1> DEFINE T == {q[i] : i \in DOMAIN q}
<1>1. q \in Surjection(1..Len(q), T)
  BY DEF Surjection
<1>0. Len(q) \in Nat
  OBVIOUS
<1>2. IsFiniteSet(1..Len(q)) /\ Cardinality(1..Len(q)) = Len(q)
  BY SMTT(30), <1>0, FS_Interval
<1>3. /\ IsFiniteSet(T) /\ Cardinality(T) <= Len(q)
      /\ Cardinality(T) = Len(q) <=> q \in Injection(1..Len(q), T)
  BY <1>1, <1>2, FS_Surjection
<1>4. Cardinality(T) \in Nat
  BY <1>3, FS_CardinalityType
<1>5. ASSUME \A i, j \in DOMAIN q : q[i] = q[j] => i = j
      PROVE  q \in Injection(1..Len(q), T)
  BY <1>1, <1>5 DEF Injection, Surjection, IsInjective
<1> QED
  BY <1>3, <1>4, <1>5

(* What others commit.                                                     *)
LEMMA Commits ==
    ASSUME Inv, Counted, OtherCommit
    PROVE  /\ UNCHANGED <<pc, plan, work, shown, start>>
           /\ commits' = commits + 1
           /\ date' \in Seq(Dates) /\ Len(date) <= Len(date')
           /\ manifest \subseteq manifest' /\ manifest' \subseteq DOMAIN date'
           /\ steady' => steady
           /\ steady' /\ "records" \in start.asked =>
                  \A i \in DOMAIN date : date'[i] = date[i]
           /\ \/ UNCHANGED events /\ \E k \in Records : \A j \in Records :
                     row'[j] # row[j] => j = k /\ row'[k] = "new"
              \/ \E k \in Records, to \in Status :
                    /\ row' = [row EXCEPT ![k] = to]
                    /\ events' = Append(events, [record |-> k, to |-> to])
<1>0. /\ date \in Seq(Dates) /\ Len(date) <= MaxRecords /\ MaxRecords \in Nat
      /\ row \in Rows /\ DOMAIN date \subseteq Records
  BY ViewsAssumption DEF Inv, Types, Records
<1>5. manifest \subseteq DOMAIN date
  BY DEF Counted
<1>1. ASSUME \E d \in Dates, attached \in BOOLEAN : StoreRecord(d, attached)
      PROVE  /\ UNCHANGED <<row, events, pc, plan, work, shown, start>>
             /\ commits' = commits + 1
             /\ date' \in Seq(Dates) /\ Len(date) <= Len(date')
             /\ manifest \subseteq manifest' /\ manifest' \subseteq DOMAIN date'
             /\ steady' = steady
             /\ \A i \in DOMAIN date : date'[i] = date[i]
             /\ 1 \in Records
  <2>1. PICK d \in Dates, attached \in BOOLEAN : StoreRecord(d, attached)
    BY <1>1
  <2>2. /\ date' = Append(date, d)
        /\ manifest' \subseteq manifest \cup {Len(date) + 1} /\ manifest \subseteq manifest'
        /\ UNCHANGED <<row, events, steady, pc, plan, work, shown, start>>
        /\ commits' = commits + 1
    BY <2>1 DEF StoreRecord, Planned, Commit, request
  <2>3. /\ date' \in Seq(Dates) /\ Len(date') = Len(date) + 1 /\ Len(date) \in Nat
        /\ DOMAIN date' = DOMAIN date \cup {Len(date) + 1}
        /\ \A i \in DOMAIN date : date'[i] = date[i]
    BY <1>0, <2>2
  <2>4. 1 \in Records
    BY <1>0, <2>1 DEF StoreRecord, Records
  <2>5. manifest' \subseteq DOMAIN date'
    BY <1>5, <2>2, <2>3
  <2>6. Len(date) <= Len(date')
    BY <2>3
  <2> QED
    BY <2>2, <2>3, <2>4, <2>5, <2>6
<1>2. ASSUME NEW d \in Dates, NEW attached \in BOOLEAN, NEW k \in DOMAIN date,
             UpdateRecord(k, d, attached)
      PROVE  /\ UNCHANGED <<row, events, pc, plan, work, shown, start>>
             /\ commits' = commits + 1
             /\ date' \in Seq(Dates) /\ Len(date) <= Len(date')
             /\ manifest \subseteq manifest' /\ manifest' \subseteq DOMAIN date'
             /\ steady' => steady
             /\ steady' /\ "records" \in start.asked =>
                    \A i \in DOMAIN date : date'[i] = date[i]
             /\ k \in Records
  <2>1. /\ date' = [date EXCEPT ![k] = d]
        /\ manifest' \subseteq manifest \cup {k} /\ manifest \subseteq manifest'
        /\ steady' = (steady /\ ("records" \in start.asked => d = date[k]))
        /\ UNCHANGED <<row, events, pc, plan, work, shown, start>>
        /\ commits' = commits + 1
    BY <1>2 DEF UpdateRecord, Planned, Commit, request
  <2>2. /\ date' \in Seq(Dates) /\ Len(date') = Len(date) /\ DOMAIN date' = DOMAIN date
        /\ Len(date) \in Nat
        /\ d = date[k] => \A i \in DOMAIN date : date'[i] = date[i]
    BY <1>0, <2>1
  <2>3. k \in DOMAIN date' /\ k \in Records
    BY <1>0, <1>2, <2>2
  <2>4. manifest' \subseteq DOMAIN date'
    BY <1>5, <2>1, <2>2, <2>3
  <2>5. Len(date) <= Len(date')
    BY <2>2
  <2> QED
    BY <2>1, <2>2, <2>3, <2>4, <2>5
<1>3. ASSUME NEW k \in DOMAIN date, OpenRow(k)
      PROVE  /\ UNCHANGED <<date, events, manifest, steady, pc, plan, work, shown, start>>
             /\ commits' = commits + 1
             /\ \A j \in Records : row'[j] # row[j] => j = k /\ row'[k] = "new"
             /\ k \in Records
  BY <1>0, <1>3 DEF OpenRow, Commit, request, Rows
<1>4. ASSUME NEW k \in DOMAIN date, NEW to \in Targets, Review(k, to)
      PROVE  /\ UNCHANGED <<date, manifest, steady, pc, plan, work, shown, start>>
             /\ commits' = commits + 1
             /\ k \in Records /\ to \in Status
             /\ row' = [row EXCEPT ![k] = to]
             /\ events' = Append(events, [record |-> k, to |-> to])
  BY <1>0, <1>4, ViewsAssumption DEF Review, Commit, request
<1>6. Len(date) \in Nat
  BY <1>0
<1>7. CASE \E d \in Dates, attached \in BOOLEAN : StoreRecord(d, attached)
  BY <1>1, <1>7
<1>8. CASE \E d \in Dates, attached \in BOOLEAN, k \in DOMAIN date :
               UpdateRecord(k, d, attached)
  BY <1>2, <1>8
<1>9. CASE \E k \in DOMAIN date : OpenRow(k)
  BY <1>0, <1>3, <1>5, <1>6, <1>9
<1>10. CASE \E k \in DOMAIN date, to \in Targets : Review(k, to)
  <2>1. PICK k \in DOMAIN date, to \in Targets : Review(k, to)
    BY <1>10
  <2>2. /\ UNCHANGED <<date, manifest, steady, pc, plan, work, shown, start>>
        /\ commits' = commits + 1
        /\ k \in Records /\ to \in Status
        /\ row' = [row EXCEPT ![k] = to]
        /\ events' = Append(events, [record |-> k, to |-> to])
    BY <1>4, <2>1
  <2>3. \E k1 \in Records, to1 \in Status :
             /\ row' = [row EXCEPT ![k1] = to1]
             /\ events' = Append(events, [record |-> k1, to |-> to1])
    BY <2>2, Zenon
  <2>4. Len(date) <= Len(date')
    BY <1>6, <2>2
  <2> QED
    BY <1>0, <1>5, <2>2, <2>3, <2>4, Zenon
<1> QED
  BY <1>7, <1>8, <1>9, <1>10 DEF OtherCommit

LEMMA CountedNext ==
    ASSUME Inv, Scheduled, Counted, [Next]_vars
    PROVE  Counted'
<1>0. /\ date \in Seq(Dates) /\ DOMAIN shown = DOMAIN Nothing
      /\ DOMAIN work = DOMAIN NoWork
  BY DEF Inv, Types
<1>1. CASE UNCHANGED vars
  BY <1>1 DEF Counted, WalkType, vars, db, request, history
<1>2. CASE OtherCommit
  <2>1. /\ UNCHANGED <<pc, shown, start>> /\ commits' = commits + 1
        /\ manifest' \subseteq DOMAIN date'
        /\ events' \in Seq(Event)
    <3>1. events \in Seq(Event) /\ commits \in Nat
      BY DEF Counted
    <3>2. ASSUME NEW k \in Records, NEW to \in Status
          PROVE  Append(events, [record |-> k, to |-> to]) \in Seq(Event)
      <4>1. [record |-> k, to |-> to] \in Event
        BY <3>2 DEF Event
      <4> QED
        BY <3>1, <4>1
    <3>3. events' \in Seq(Event)
      BY <1>2, <3>1, <3>2, Commits
    <3> QED
      BY <1>2, <3>3, Commits
  <2> QED
    BY SMTT(30), <1>2, <2>1, Commits DEF Counted, WalkType
<1>3. CASE Begins \/ FailPage \/ Deliver
  <2>1. CASE Begins
    <3>1. PICK sections \in SUBSET Sections, k \in Nat :
              /\ pc' = FirstStep[First(sections)] /\ First(sections) \in sections
              /\ work' = [NoWork EXCEPT !.record = k]
              /\ start' = [asked |-> sections, date |-> date, commits |-> commits]
              /\ UNCHANGED <<date, row, events, manifest, commits, shown>>
      BY <2>1, RequestBegins
    <3>2. pc' # "manifest" /\ work'.items = <<>>
      BY <3>1 DEF Sections, FirstStep, NoWork
    <3> QED
      BY <3>1, <3>2 DEF Counted, WalkType, NoStart
  <2>2. CASE FailPage
    BY <2>2 DEF FailPage, Counted, WalkType, db, NoStart
  <2>3. CASE Deliver
    <3>1. Cardinality({}) \in Nat /\ IsFiniteSet({})
      BY FS_EmptySet
    <3> QED
      BY <2>3, <3>1 DEF Deliver, Counted, WalkType, db, NoStart, Nothing
  <2> QED
    BY <1>3, <2>1, <2>2, <2>3
<1>4. ASSUME UNCHANGED <<date, events, manifest, commits, start>>, pc # "idle",
             {shown'.records, shown'.manifests, shown'.events, shown'.eventTotal,
              shown'.reviewed, shown'.manifested} \subseteq Nat,
             shown'.states \in [Status -> Nat],
             IsFiniteSet(shown'.queue), WalkType'
      PROVE  Counted'
  BY <1>4 DEF Counted
<1>7. ASSUME UNCHANGED <<date, events, manifest, commits, start, shown>>, pc # "idle",
             WalkType'
      PROVE  Counted'
  BY <1>7 DEF Counted
<1>5. ASSUME NEW s \in Sections, Steps(s)
      PROVE  Counted'
  <2>1. CASE CountRecords
    BY <1>0, <1>4, <2>1 DEF CountRecords, Show, db, history, Counted, WalkType, Nothing
  <2>2. CASE CountStates
    <3>1. \A t \in Status : Cardinality({k \in Records : row[k] = t}) \in Nat
      <4>1. IsFiniteSet(Records)
        BY FS_Interval, ViewsAssumption DEF Records
      <4> QED
        BY <4>1, FS_Subset, FS_CardinalityType
    <3>2. shown'.states = [t \in Status |-> Cardinality({k \in Records : row[k] = t})]
      BY <1>0, <2>2 DEF CountStates, Show, Nothing
    <3>3. shown'.states \in [Status -> Nat]
      BY <3>1, <3>2
    <3> QED
      BY <1>0, <1>4, <2>2, <3>3 DEF CountStates, Show, db, history, Counted, WalkType, Nothing
  <2>3. CASE CountEventTotal
    BY <1>0, <1>4, <2>3 DEF CountEventTotal, Show, db, history, Counted, WalkType, Nothing
  <2>4. CASE RefreshRow
    BY <1>0, <1>4, <2>4 DEF RefreshRow, Show, db, history, Counted, WalkType, Nothing
  <2>5. CASE CommitRow
    BY <1>0, <1>4, <2>5 DEF CommitRow, history, Counted, WalkType
  <2>7. CASE ReadManifestRecords
    <3>1. /\ pc # "idle" /\ UNCHANGED <<date, events, manifest, commits, start, shown>>
          /\ work' = [work EXCEPT !.todo = [k \in DOMAIN date |-> k]]
      BY <2>7 DEF ReadManifestRecords, Look, db, history
    <3>2. work'.todo \in Seq(Nat) /\ work'.items = <<>> /\ pc' = "manifest"
      BY <1>0, <2>7, <3>1 DEF ReadManifestRecords, Look, Counted, WalkType, NoWork
    <3>3. WalkType'
      BY <3>2 DEF WalkType
    <3> QED
      BY <1>7, <3>1, <3>3
  <2>8. CASE ReadManifest
    <3>1. /\ pc # "idle" /\ UNCHANGED <<date, events, manifest, commits, start, shown>>
          /\ work'.todo = Tail(work.todo) /\ work.todo # <<>>
          /\ work'.items = Append(work.items, Head(work.todo) \in manifest)
          /\ pc' = "manifest"
      BY <1>0, <2>8 DEF ReadManifest, Look, db, history, NoWork
    <3>2. work.items \in Seq(BOOLEAN) /\ work.todo \in Seq(Nat)
      BY <2>8 DEF ReadManifest, Counted, WalkType
    <3>3. work'.todo \in Seq(Nat)
      BY <3>1, <3>2, HeadAndTail
    <3>4. (Head(work.todo) \in manifest) \in BOOLEAN
      OBVIOUS
    <3>5. work'.items \in Seq(BOOLEAN)
      BY <3>1, <3>2, <3>4
    <3> QED
      BY <1>7, <3>1, <3>3, <3>5 DEF WalkType
  <2>6. CASE \/ ReadRow \/ CountPage \/ ReadPage \/ ReadItem \/ (EndPage /\ More)
             \/ ProbeQueue /\ date # <<>>
             \/ ReadStates \/ ReadRecords \/ ReadQueueItem
    <3>1. /\ pc # "idle" /\ pc' \notin {"manifest_records", "manifest"}
          /\ UNCHANGED <<date, events, manifest, commits, start, shown>>
      BY <2>6 DEF ReadRow, CountPage, ReadPage, ReadItem, EndPage, More, ProbeQueue,
         ReadStates, ReadRecords, ReadQueueItem, Look, db, history
    <3> QED
      BY <1>7, <3>1 DEF WalkType
  <2> QED
    BY <1>5, <2>1, <2>2, <2>3, <2>4, <2>5, <2>6, <2>7, <2>8 DEF Steps
<1>6. ASSUME NEW s \in Sections, Ends(s)
      PROVE  Counted'
  <2> USE DEF EndSection, db, history
  <2>0. pc # "idle" /\ pc' # "manifest" /\ work'.items = <<>>
    <3>1. pc \in StepsOf[s]
      BY <1>6, EndingSteps
    <3>2. PICK answer : EndSection(answer)
      BY <1>6, EndingSteps
    <3>3. plan' \subseteq Sections
      BY <3>1, <3>2, AtSection DEF Inv, Frame, Sections, FirstStep
    <3>4. \A t \in Sections : FirstStep[t] # "manifest"
      BY DEF Sections, FirstStep
    <3> QED
      BY <3>1, <3>2, <3>3, <3>4, AtSection, SectionEnds DEF NoWork
  <2>1. CASE CountManifests
    <3>1. Cardinality(manifest) \in Nat
      <4>1. IsFiniteSet(DOMAIN date)
        BY <1>0, FS_Interval
      <4> QED
        BY <4>1, FS_Subset, FS_CardinalityType DEF Counted
    <3> QED
      BY <1>0, <1>4, <2>0, <2>1, <3>1 DEF CountManifests, Counted, WalkType, Nothing
  <2>2. CASE EndPage /\ ~More
    BY <1>0, <1>4, <2>0, <2>2 DEF EndPage, More, Counted, WalkType, Nothing
  <2>3. CASE CountEvents
    BY <1>0, <1>4, <2>0, <2>3 DEF CountEvents, Counted, WalkType, Nothing
  <2>4. CASE ProbeQueue /\ date = <<>>
    BY <1>0, <1>4, <2>0, <2>4 DEF ProbeQueue, Counted, WalkType, Nothing
  <2>5. CASE EndQueue
    <3>1. work.items \in Seq(Item)
      BY <2>5 DEF EndQueue, Inv, InHand
    <3>2. IsFiniteSet({work.items[i] : i \in DOMAIN work.items})
      BY <3>1, ElementsCounted
    <3> QED
      BY <1>0, <1>4, <2>0, <2>5, <3>2 DEF EndQueue, Counted, WalkType, Nothing
  <2>7. CASE ReadEventRows
    BY <1>0, <1>4, <2>0, <2>7 DEF ReadEventRows, Counted, WalkType, Nothing
  <2>8. CASE ReadHistory
    BY <1>0, <1>4, <2>0, <2>8 DEF ReadHistory, Counted, WalkType, Nothing
  <2>9. CASE EndAttachments
    <3>1. work.items \in Seq(BOOLEAN)
      BY <2>9 DEF EndAttachments, Counted, WalkType
    <3>2. /\ Len(work.items) \in Nat
          /\ Cardinality({i \in DOMAIN work.items : work.items[i]}) \in Nat
      <4>1. Len(work.items) \in Nat
        BY <3>1
      <4>2. IsFiniteSet(1..Len(work.items))
        BY <4>1, FS_Interval
      <4>3. {i \in DOMAIN work.items : work.items[i]} \in SUBSET (1..Len(work.items))
        BY <3>1
      <4> QED
        BY <4>1, <4>2, <4>3, FS_Subset, FS_CardinalityType
    <3> QED
      BY <1>0, <1>4, <2>0, <2>9, <3>2 DEF EndAttachments, Counted, WalkType, Nothing
  <2> QED
    BY <1>6, <2>1, <2>2, <2>3, <2>4, <2>5, <2>7, <2>8, <2>9 DEF Ends
<1> QED
  BY <1>1, <1>2, <1>3, <1>4, <1>5, <1>6, NextCases

(* Whoever is no longer new has an event that says so, his last.           *)
Since(k, j, n) == \A m \in j + 1..n : events[m].record # k

Says(k, j, status) == events[j].record = k /\ events[j].to = status

WrittenDown ==
    \A k \in Records : row[k] \notin {NoRow, "new"} =>
        \E j \in DOMAIN events : Says(k, j, row[k]) /\ Since(k, j, Len(events))

InTime == commits - start.commits

PageInHand ==
    /\ pc \in DetailSteps => work.record \in Records
    /\ pc = "history" /\ shown.status # "new" =>
          \E j \in DOMAIN events : \E n \in j..Len(events) :
              /\ Says(work.record, j, shown.status)
              /\ Since(work.record, j, n)
              /\ Len(events) - n <= InTime
    /\ pc = "done" /\ "detail" \in start.asked /\ InTime < HistoryPage =>
          shown.status = "new" \/ shown.status \in shown.explained

LEMMA WrittenDownNext ==
    ASSUME Inv, Scheduled, Counted, WrittenDown, [Next]_vars
    PROVE  WrittenDown'
<1>0. row \in Rows /\ events \in Seq(Event) /\ DOMAIN events = 1..Len(events)
      /\ Len(events) \in Nat
  BY DEF Inv, Types, Counted
<1>1. ASSUME UNCHANGED <<row, events>>
      PROVE  WrittenDown'
  BY <1>1 DEF WrittenDown, Says, Since
<1>2. CASE OtherCommit
  <2>1. CASE UNCHANGED events /\ \E k \in Records : \A j \in Records :
                 row'[j] # row[j] => j = k /\ row'[k] = "new"
    BY <2>1 DEF WrittenDown, Says, Since
  <2>2. ASSUME NEW k \in Records, NEW to \in Status,
               row' = [row EXCEPT ![k] = to],
               events' = Append(events, [record |-> k, to |-> to])
        PROVE  WrittenDown'
    <3> SUFFICES ASSUME NEW i \in Records, row'[i] \notin {NoRow, "new"}
                 PROVE  \E j \in DOMAIN events' :
                            /\ events'[j].record = i /\ events'[j].to = row'[i]
                            /\ \A m \in j + 1..Len(events') : events'[m].record # i
      BY DEF WrittenDown, Says, Since
    <3>1. /\ Len(events') = Len(events) + 1 /\ DOMAIN events' = 1..Len(events) + 1
          /\ events'[Len(events) + 1] = [record |-> k, to |-> to]
          /\ \A m \in 1..Len(events) : events'[m] = events[m]
      BY <1>0, <2>2
    <3>2. CASE i = k
      <4>1. row'[i] = to
        BY <1>0, <2>2, <3>2 DEF Rows
      <4> QED
        BY <1>0, <3>1, <3>2, <4>1
    <3>3. CASE i # k
      <4>1. row'[i] = row[i]
        BY <1>0, <2>2, <3>3 DEF Rows
      <4>2. PICK j \in 1..Len(events) :
                /\ events[j].record = i /\ events[j].to = row[i]
                /\ \A m \in j + 1..Len(events) : events[m].record # i
        BY <1>0, <4>1 DEF WrittenDown, Says, Since
      <4>3. events'[Len(events) + 1].record # i
        BY <3>1, <3>3
      <4>4. \A m \in j + 1..Len(events) + 1 : events'[m].record # i
        BY <1>0, <3>1, <4>2, <4>3
      <4> QED
        BY <1>0, <3>1, <4>1, <4>2, <4>4
    <3> QED
      BY <3>2, <3>3
  <2> QED
    BY <1>2, <2>1, <2>2, Commits
<1>3. CASE UNCHANGED vars \/ Begins \/ FailPage \/ Deliver
  <2>1. UNCHANGED <<row, events>>
    BY <1>3 DEF vars, db, Begins, Begin, FailPage, Deliver
  <2> QED
    BY <1>1, <2>1
<1>4. CASE CommitRow
  <2>1. /\ events' = events
        /\ \A k \in Records : row'[k] \in {row[k], Label(row[k])}
    BY <1>0, <1>4 DEF CommitRow, Rows
  <2>2. \A k \in Records : row'[k] = row[k] \/ row'[k] \in {NoRow, "new"}
    BY <2>1 DEF Label
  <2> QED
    BY <2>1, <2>2 DEF WrittenDown, Says, Since
<1>5. ASSUME NEW s \in Sections, Steps(s), ~CommitRow
      PROVE  UNCHANGED <<row, events>>
  BY <1>5 DEF Steps, ReadRow, RefreshRow, CountRecords,
     CountPage, ReadPage, ReadItem, EndPage, More, CountStates, ProbeQueue,
     ReadStates, ReadRecords, ReadQueueItem, ReadManifestRecords,
     ReadManifest, CountEventTotal, Look, Show, db
<1>6. ASSUME NEW s \in Sections, Ends(s)
      PROVE  UNCHANGED <<row, events>>
  BY <1>6, EndingSteps DEF EndSection, db
<1> QED
  BY <1>1, <1>2, <1>3, <1>4, <1>5, <1>6, NextCases

(* What the page shows of a status that was read before the events.        *)
LEMMA HistoryTells ==
    ASSUME Counted, NEW k, NEW j \in DOMAIN events, NEW n \in j..Len(events),
           Since(k, j, n), events[j].record = k,
           Len(events) - n < HistoryPage
    PROVE  events[j].to \in NewestEvents(k)
<1> DEFINE S == {m \in j..Len(events) : events[m].record = k}
           T == n + 1..Len(events)
<1>1. Len(events) \in Nat /\ DOMAIN events = 1..Len(events) /\ HistoryPage \in Nat
  BY ViewsAssumption DEF Counted
<1>7. n \in Int /\ n + 1 \in Int /\ n <= Len(events)
  BY <1>1
<1>2. IsFiniteSet(T) /\ Cardinality(T) = Len(events) - n
  <2>1. Len(events) \in Int
    BY <1>1
  <2>2. /\ IsFiniteSet(T)
        /\ Cardinality(T) = IF n + 1 > Len(events) THEN 0
                            ELSE Len(events) - (n + 1) + 1
    BY <1>7, <2>1, FS_Interval, Zenon
  <2> HIDE DEF T
  <2> QED
    BY <1>7, <2>1, <2>2
<1>3. /\ IsFiniteSet(T \cup {j})
      /\ Cardinality(T \cup {j}) <= Len(events) - n + 1
      /\ Cardinality(T \cup {j}) \in Nat
  <2>1. /\ IsFiniteSet(T \cup {j})
        /\ Cardinality(T \cup {j}) \in {Cardinality(T), Cardinality(T) + 1}
    BY <1>2, FS_AddElement
  <2> QED
    BY <1>1, <1>2, <1>7, <2>1, FS_CardinalityType
<1>4. S \subseteq T \cup {j}
  BY <1>1 DEF Since
<1>5. Cardinality(S) <= Cardinality(T \cup {j}) /\ Cardinality(S) \in Nat
  BY <1>3, <1>4, FS_Subset, FS_CardinalityType
<1>6. Cardinality(S) <= HistoryPage
  BY <1>1, <1>3, <1>5
<1> QED
  BY <1>6 DEF NewestEvents

LEMMA PageInHandNext ==
    ASSUME Inv, Scheduled, Counted, WrittenDown, PageInHand, [Next]_vars
    PROVE  PageInHand'
<1>0. /\ events \in Seq(Event) /\ DOMAIN events = 1..Len(events)
      /\ Len(events) \in Nat /\ DOMAIN shown = DOMAIN Nothing
      /\ commits \in Nat /\ start.commits \in Nat
      /\ DOMAIN work = DOMAIN NoWork /\ HistoryPage \in Nat
  BY ViewsAssumption DEF Inv, Types, Counted
<1>1. ASSUME pc' \notin DetailSteps, pc' = "done" => "detail" \notin start'.asked
      PROVE  PageInHand'
  BY <1>1 DEF PageInHand, DetailSteps
<1>2. CASE UNCHANGED vars
  BY <1>2 DEF PageInHand, Says, Since, InTime, vars, db, request, history
<1>3. CASE OtherCommit
  <2>1. /\ UNCHANGED <<pc, work, shown, start>> /\ commits' = commits + 1
        /\ Len(events') \in Len(events)..Len(events) + 1
        /\ \A m \in 1..Len(events) : events'[m] = events[m]
        /\ DOMAIN events' = 1..Len(events')
    <3>1. /\ UNCHANGED <<pc, work, shown, start>> /\ commits' = commits + 1
          /\ UNCHANGED events \/ \E e \in Event : events' = Append(events, e)
      BY <1>3, Commits DEF Event
    <3> QED
      BY <1>0, <3>1
  <2>2. InTime' = InTime + 1 /\ InTime \in Int
    BY <1>0, <2>1 DEF InTime
  <2>3. ASSUME pc = "history", shown.status # "new"
        PROVE  \E j \in DOMAIN events' : \E n \in j..Len(events') :
                  /\ Says(work.record, j, shown.status)'
                  /\ Since(work.record, j, n)'
                  /\ Len(events') - n <= InTime'
    <3>1. PICK j \in DOMAIN events : \E n \in j..Len(events) :
              /\ Says(work.record, j, shown.status)
              /\ Since(work.record, j, n)
              /\ Len(events) - n <= InTime
      BY <2>3 DEF PageInHand
    <3>2. PICK n \in j..Len(events) :
              /\ Says(work.record, j, shown.status)
              /\ Since(work.record, j, n)
              /\ Len(events) - n <= InTime
      BY <3>1
    <3>3. j \in DOMAIN events' /\ n \in j..Len(events') /\ n \in Int /\ n <= Len(events)
      BY <1>0, <2>1
    <3>4. Says(work.record, j, shown.status)' /\ Since(work.record, j, n)'
      BY <1>0, <2>1, <3>2, <3>3 DEF Says, Since
    <3>5. Len(events') - n <= InTime'
      BY <1>0, <2>1, <2>2, <3>2, <3>3
    <3> QED
      BY <3>3, <3>4, <3>5
  <2> QED
    BY <1>0, <2>1, <2>2, <2>3 DEF PageInHand
<1>4. CASE Begins
  <2>1. PICK sections \in SUBSET Sections, k \in Nat :
              /\ "detail" \in sections => k \in DOMAIN date
              /\ pc' = FirstStep[First(sections)] /\ First(sections) \in sections
              /\ work' = [NoWork EXCEPT !.record = k]
    BY <1>4, RequestBegins
  <2>2. CASE pc' = "row"
    <3>1. k \in DOMAIN date
      BY <2>1, <2>2 DEF FirstStep, Sections
    <3>2. work'.record \in Records
      BY <2>1, <3>1, ViewsAssumption DEF Inv, Types, Records, NoWork
    <3> QED
      BY <2>2, <3>2 DEF PageInHand
  <2>3. CASE pc' # "row"
    <3>1. pc' \notin DetailSteps /\ pc' # "done"
      BY <2>1, <2>3 DEF FirstStep, Sections, DetailSteps
    <3> QED
      BY <1>1, <3>1
  <2> QED
    BY <2>2, <2>3
<1>5. CASE FailPage \/ Deliver
  BY <1>1, <1>5 DEF FailPage, Deliver, DetailSteps
<1>6. CASE ReadRow \/ CommitRow
  <2>1. /\ pc \in DetailSteps /\ pc' \in {"commit_row", "refresh_row"}
        /\ work'.record = work.record
    BY <1>0, <1>6 DEF ReadRow, CommitRow, Look, DetailSteps, NoWork
  <2> QED
    BY <2>1 DEF PageInHand
<1>7. CASE RefreshRow
  <2>1. /\ pc \in DetailSteps /\ pc' = "history" /\ work' = work
        /\ shown'.status = Label(row[work.record])
        /\ UNCHANGED <<events, commits, start, row>>
    BY <1>0, <1>7 DEF RefreshRow, Show, DetailSteps, Nothing, db, history
  <2>2. work.record \in Records /\ 0 <= InTime
    <3>1. pc # "idle"
      BY <2>1 DEF DetailSteps
    <3> QED
      BY <1>0, <2>1, <3>1 DEF PageInHand, Counted, InTime
  <2>3. ASSUME shown'.status # "new"
        PROVE  \E j \in DOMAIN events : \E n \in j..Len(events) :
                  /\ Says(work.record, j, shown'.status)
                  /\ Since(work.record, j, n)
                  /\ Len(events) - n <= InTime
    <3>1. row[work.record] \notin {NoRow, "new"} /\ shown'.status = row[work.record]
      BY <2>1, <2>3 DEF Label
    <3>2. PICK j \in DOMAIN events : /\ Says(work.record, j, row[work.record])
                                     /\ Since(work.record, j, Len(events))
      BY <2>2, <3>1 DEF WrittenDown
    <3>3. Len(events) \in j..Len(events) /\ Len(events) - Len(events) <= InTime
      BY <1>0, <2>2 DEF InTime
    <3> QED
      BY <3>1, <3>2, <3>3
  <2> QED
    BY <2>1, <2>2, <2>3 DEF PageInHand, Says, Since, InTime
<1>8. CASE ReadHistory
  <2>1. /\ pc = "history" /\ "detail" \in Sections
        /\ EndSection([shown EXCEPT !.explained = NewestEvents(work.record)])
    BY <1>8 DEF ReadHistory, Sections, FirstStep
  <2>2. /\ shown'.status = shown.status
        /\ shown'.explained = NewestEvents(work.record)
        /\ UNCHANGED <<events, commits, start>>
    BY <1>0, <2>1 DEF EndSection, db, history, Nothing
  <2>3. plan' = {}
    <3>1. start.asked = {"detail"} /\ plan \subseteq start.asked
      BY <2>1 DEF Inv, Frame, DetailSteps, Scheduled
    <3>2. pc \in StepsOf["detail"]
      BY <2>1 DEF StepsOf, DetailSteps
    <3> QED
      BY <2>1, <3>1, <3>2, SectionEnds
  <2>4. pc' = "done"
    BY <2>1, <2>3 DEF EndSection
  <2>5. ASSUME InTime < HistoryPage, shown.status # "new"
        PROVE  shown.status \in NewestEvents(work.record)
    <3>1. PICK j \in DOMAIN events : \E n \in j..Len(events) :
              /\ Says(work.record, j, shown.status)
              /\ Since(work.record, j, n)
              /\ Len(events) - n <= InTime
      BY <2>1, <2>5 DEF PageInHand
    <3>2. PICK n \in j..Len(events) :
              /\ Says(work.record, j, shown.status)
              /\ Since(work.record, j, n)
              /\ Len(events) - n <= InTime
      BY <3>1
    <3>3. Len(events) - n < HistoryPage
      BY <1>0, <2>5, <3>2 DEF InTime
    <3> QED
      BY <3>2, <3>3, HistoryTells DEF Says
  <2> QED
    BY <2>2, <2>4, <2>5 DEF PageInHand, DetailSteps, InTime
<1>9. ASSUME NEW s \in Sections \ {"detail"}, Steps(s)
      PROVE  PageInHand'
  <2>1. pc' \in StepsOf[s]
    BY <1>9, WithinSteps DEF Within
  <2>2. pc' \notin DetailSteps /\ pc' # "done"
    BY <2>1 DEF StepsOf, DetailSteps, TriageSteps, Sections, FirstStep
  <2> QED
    BY <1>1, <2>2
<1>10. ASSUME NEW s \in Sections \ {"detail"}, Ends(s)
       PROVE  PageInHand'
  <2>1. pc \in StepsOf[s] /\ \E answer : EndSection(answer)
    BY <1>10, EndingSteps
  <2>2. s \in start.asked /\ plan \subseteq Sections
    BY <2>1, AtSection DEF Inv, Frame, Sections, FirstStep
  <2>3. "detail" \notin start.asked
    BY <2>1, <2>2, AtSection DEF Inv, Frame
  <2>4. start' = start
    BY <2>1 DEF EndSection, history
  <2>5. \/ pc' = "done"
        \/ \E t \in plan' : pc' = FirstStep[t]
    BY <2>1, SectionEnds
  <2>6. plan' \subseteq Sections \ {"detail"}
    BY <2>1, <2>2, <2>3, <2>4, SectionEnds DEF Scheduled
  <2>7. pc' \notin DetailSteps
    BY <2>5, <2>6 DEF FirstStep, Sections, DetailSteps
  <2> QED
    BY <1>1, <2>3, <2>4, <2>7
<1>11. ASSUME NEW s \in Sections, s = "detail", Steps(s) \/ Ends(s)
       PROVE  ReadRow \/ CommitRow \/ RefreshRow \/ ReadHistory
  BY <1>11 DEF Steps, Ends
<1> QED
  BY <1>2, <1>3, <1>4, <1>5, <1>6, <1>7, <1>8, <1>9, <1>10, <1>11, NextCases

-------------------------------------------------------------------------------
(* How far a walk over the records is, and what the finished sections say. *)

Numbered(todo, n) == \A i \in DOMAIN todo : todo[i] = n + i

Reviewed(states) ==
    states["in_review"] + states["reviewed"] + states["needs_follow_up"]
    + states["ignored"]

(* The manifests seen and those still to be seen.                          *)
Manifests ==
    {i \in DOMAIN work.items : work.items[i]}
    \cup {k \in manifest : k \in Len(work.items) + 1..Len(work.items) + Len(work.todo)}

Growing ==
    /\ "triage" \notin Built => shown.queue = {}
    /\ pc = "manifest_count" \/ "intake" \in Built => shown.records <= Len(date)
    /\ "intake" \in Built => shown.manifests <= Cardinality(manifest)
    /\ pc = "events" => Reviewed(shown.states) <= Len(events)
    /\ "lifecycle" \in Built =>
           Reviewed(shown.states) <= shown.events /\ shown.events <= Len(events)
    /\ "triage" \in Built =>
           /\ Cardinality(shown.queue) <= Len(date)
           /\ "intake" \in start.asked => shown.records <= Cardinality(shown.queue)
    /\ "attachments" \in Built =>
           /\ "triage" \in start.asked => Cardinality(shown.queue) <= shown.reviewed
           /\ "intake" \in start.asked => shown.manifests <= shown.manifested
    /\ pc = "event_rows" \/ "events" \in Built =>
           ("lifecycle" \in start.asked => shown.events <= shown.eventTotal)

Walking ==
    /\ pc = "queue_item" =>
           /\ Len(work.items) + Len(work.todo) = Len(work.dates)
           /\ Len(work.dates) <= Len(date)
           /\ \A i \in DOMAIN work.items : work.items[i].record = i
           /\ Numbered(work.todo, Len(work.items))
           /\ "intake" \in start.asked => shown.records <= Len(work.dates)
    /\ pc = "manifest" =>
           /\ work.items \in Seq(BOOLEAN)
           /\ work.todo \in Seq(Nat)
           /\ Numbered(work.todo, Len(work.items))
           /\ "triage" \in start.asked =>
                  Cardinality(shown.queue) <= Len(work.items) + Len(work.todo)
           /\ "intake" \in start.asked => shown.manifests <= Cardinality(Manifests)

(* No figure of another section changes.                                   *)
SameFigures ==
    /\ shown'.records = shown.records /\ shown'.manifests = shown.manifests
    /\ shown'.states = shown.states /\ shown'.events = shown.events
    /\ shown'.queue = shown.queue
    /\ shown'.reviewed = shown.reviewed /\ shown'.manifested = shown.manifested
    /\ shown'.eventTotal = shown.eventTotal

LEMMA GrowingKept ==
    ASSUME Growing, SameFigures, UNCHANGED <<date, manifest, events, start>>,
           \A t \in Sections \ {"records", "detail"} : t \in Built' <=> t \in Built,
           pc' \notin {"manifest_count", "events", "event_rows"}
    PROVE  Growing'
BY DEF Growing, SameFigures, Sections, FirstStep

LEMMA WalkingElsewhere ==
    ASSUME pc' \notin {"queue_item", "manifest"}
    PROVE  Walking'
BY DEF Walking

(* A section is built after those that stand before it and before those    *)
(* that stand behind it.                                                   *)
LEMMA BuiltBefore ==
    ASSUME Inv, Scheduled, NEW s \in Sections, pc \in StepsOf[s]
    PROVE  /\ \A t \in Sections : Position[t] >= Position[s] => t \notin Built
           /\ \A t \in start.asked : Position[t] < Position[s] => t \in Built
<1>1. s \in plan /\ \A t \in start.asked : Position[t] < Position[s] => t \in Built
  BY AtSection
<1>2. \A t \in Built : Position[t] < Position[s]
  BY <1>1 DEF Scheduled
<1>3. \A t \in Sections : Position[t] \in Int
  BY DEF Sections, FirstStep, Position
<1> QED
  BY <1>1, <1>2, <1>3

(* No step of a request ends in the middle of another section.             *)
LEMMA EndsElsewhere ==
    ASSUME Inv, Scheduled, NEW s \in Sections, pc \in StepsOf[s],
           NEW answer, EndSection(answer)
    PROVE  pc' \notin {"manifest_count", "events", "event_rows", "queue_item", "manifest"}
<1>1. plan' \subseteq Sections
  BY AtSection, SectionEnds DEF Inv, Frame, Sections, FirstStep
<1>2. pc' = "done" \/ \E t \in plan' : pc' = FirstStep[t]
  BY SectionEnds
<1> QED
  BY <1>1, <1>2 DEF Sections, FirstStep

(* Each record that is no longer new has made an event.                    *)
LEMMA ReviewedHaveEvents ==
    ASSUME Inv, Counted, WrittenDown,
           NEW states, states = [s \in Status |-> Cardinality({k \in Records : row[k] = s})]
    PROVE  Reviewed(states) <= Len(events)
<1> DEFINE With(s) == {k \in Records : row[k] = s}
           A == With("in_review") \cup With("reviewed")
           B == A \cup With("needs_follow_up")
           U == B \cup With("ignored")
           q == [j \in 1..Len(events) |-> events[j].record]
           Q == {q[j] : j \in DOMAIN q}
<1>0. events \in Seq(Event) /\ Len(events) \in Nat /\ DOMAIN events = 1..Len(events)
  BY DEF Counted
<1>1. q \in Seq(Records) /\ Len(q) = Len(events)
  <2>1. \A j \in 1..Len(events) : events[j].record \in Records
    <3>1. \A j \in 1..Len(events) : events[j] \in Event
      BY <1>0
    <3> QED
      BY <3>1 DEF Event
  <2> QED
    BY <1>0, <2>1
<1>2. IsFiniteSet(Q) /\ Cardinality(Q) \in Nat /\ Cardinality(Q) <= Len(events)
  BY <1>1, ElementsCounted
<1>3. IsFiniteSet(Records)
  BY ViewsAssumption, FS_Interval DEF Records
<1>4. \A s \in Status : IsFiniteSet(With(s)) /\ Cardinality(With(s)) \in Nat
  BY <1>3, FS_Subset, FS_CardinalityType
<1>5. U \subseteq Q
  <2> SUFFICES ASSUME NEW k \in U
               PROVE  k \in Q
    OBVIOUS
  <2>1. k \in Records /\ row[k] \notin {NoRow, "new"}
    BY ViewsAssumption DEF Status
  <2>2. PICK j \in DOMAIN events : events[j].record = k
    BY <2>1 DEF WrittenDown, Says
  <2> QED
    BY <1>0, <2>2
<1>6. IsFiniteSet({}) /\ Cardinality({}) = 0
  BY FS_EmptySet
<1>7. {"in_review", "reviewed", "needs_follow_up", "ignored"} \subseteq Status
  BY DEF Status
<1>8. /\ With("in_review") \cap With("reviewed") = {}
      /\ A \cap With("needs_follow_up") = {}
      /\ B \cap With("ignored") = {}
  OBVIOUS
<1> HIDE DEF With
<1>9. Cardinality(U) = Cardinality(With("in_review")) + Cardinality(With("reviewed"))
                       + Cardinality(With("needs_follow_up"))
                       + Cardinality(With("ignored"))
  <2>1. /\ IsFiniteSet(A)
        /\ Cardinality(A) = Cardinality(With("in_review"))
                            + Cardinality(With("reviewed")) - 0
    BY <1>4, <1>6, <1>7, <1>8, FS_Union
  <2> HIDE DEF A
  <2>2. /\ IsFiniteSet(B)
        /\ Cardinality(B) = Cardinality(A) + Cardinality(With("needs_follow_up")) - 0
    BY <1>4, <1>6, <1>7, <1>8, <2>1, FS_Union
  <2> HIDE DEF B
  <2>3. Cardinality(U) = Cardinality(B) + Cardinality(With("ignored")) - 0
    <3>1. IsFiniteSet(B) /\ IsFiniteSet(With("ignored"))
      BY <1>4, <1>7, <2>2
    <3>2. Cardinality(B \cup With("ignored"))
             = Cardinality(B) + Cardinality(With("ignored"))
               - Cardinality(B \cap With("ignored"))
      BY <3>1, FS_Union
    <3> QED
      BY <1>6, <1>8, <3>2
  <2> QED
    BY <1>4, <1>7, <2>1, <2>2, <2>3
<1>10. Cardinality(U) <= Cardinality(Q)
  BY <1>2, <1>5, FS_Subset
<1>11. Reviewed(states) = Cardinality(U)
  <2>1. \A s \in Status : states[s] = Cardinality(With(s))
    BY DEF With
  <2> HIDE DEF U
  <2> QED
    BY <1>4, <1>7, <1>9, <2>1 DEF Reviewed
<1> HIDE DEF U, Q
<1>12. Cardinality(U) \in Nat
  BY <1>4, <1>7, <1>9
<1> QED
  BY <1>0, <1>2, <1>10, <1>11, <1>12

LEMMA ManifestFinite ==
    ASSUME Inv, Counted
    PROVE  IsFiniteSet(manifest) /\ Cardinality(manifest) \in Nat
           /\ Cardinality(manifest) <= Len(date)
<1>1. Len(date) \in Nat /\ DOMAIN date = 1..Len(date)
  BY DEF Inv, Types
<1>2. IsFiniteSet(1..Len(date)) /\ Cardinality(1..Len(date)) = Len(date)
  <2>1. PICK n \in Nat : n = Len(date)
    BY <1>1
  <2>2. IsFiniteSet(1..n) /\ Cardinality(1..n) = n
    BY FS_Interval
  <2> QED
    BY <2>1, <2>2
<1> QED
  BY <1>1, <1>2, FS_Subset, FS_CardinalityType DEF Counted

(* The counting sections.                                                  *)
LEMMA CountsGrow ==
    ASSUME Inv, Scheduled, Counted, WrittenDown, Growing,
           \/ CountRecords \/ CountManifests \/ CountStates \/ CountEvents
           \/ CountEventTotal \/ ReadEventRows
    PROVE  Growing' /\ Walking'
<1>0. /\ DOMAIN shown = DOMAIN Nothing /\ Len(date) \in Nat /\ Len(events) \in Nat
  BY DEF Inv, Types, Counted
<1>1. CASE CountRecords
  <2>1. /\ pc \in StepsOf["intake"] /\ "intake" \in Sections /\ pc' = "manifest_count"
        /\ shown' = [shown EXCEPT !.records = Len(date)]
        /\ UNCHANGED <<date, manifest, events, plan, start>>
    BY <1>1 DEF CountRecords, Show, db, history, StepsOf, Sections, FirstStep
  <2>2. Built \cap {"intake", "lifecycle", "triage", "attachments", "events"} = {}
    BY <2>1, BuiltBefore DEF Sections, FirstStep, Position
  <2>3. Built' = Built
    BY <2>1 DEF Built
  <2>4. shown'.records = Len(date) /\ shown'.queue = shown.queue
    BY <1>0, <2>1 DEF Nothing
  <2> QED
    BY <1>0, <2>1, <2>2, <2>3, <2>4 DEF Growing, Walking
<1>2. CASE CountManifests
  <2> DEFINE answer == [shown EXCEPT !.manifests = Cardinality(manifest)]
  <2>1. /\ pc \in StepsOf["intake"] /\ "intake" \in Sections /\ EndSection(answer)
        /\ pc = "manifest_count"
    BY <1>2 DEF CountManifests, StepsOf, Sections, FirstStep
  <2>2. Built \cap {"intake", "lifecycle", "triage", "attachments", "events"} = {}
    BY <2>1, BuiltBefore DEF Sections, FirstStep, Position
  <2>3. Built' = Built \cup {"intake"} /\ shown' = answer
        /\ UNCHANGED <<date, manifest, events, start>>
    BY <2>1, SectionEnds DEF db, history
  <2>4. pc' \notin {"manifest_count", "events", "event_rows", "queue_item", "manifest"}
    BY <2>1, EndsElsewhere
  <2>5. /\ shown'.records = shown.records /\ shown'.queue = shown.queue
        /\ shown'.manifests = Cardinality(manifest) /\ Cardinality(manifest) \in Nat
    <3>1. Cardinality(manifest) \in Nat
      BY ManifestFinite
    <3> QED
      BY <1>0, <2>3, <3>1 DEF Nothing
  <2> HIDE DEF answer
  <2>6. Growing'
    BY <1>0, <2>1, <2>2, <2>3, <2>4, <2>5 DEF Growing
  <2> QED
    BY <2>4, <2>6 DEF Walking
<1>3. CASE CountStates
  <2> DEFINE states == [s \in Status |-> Cardinality({k \in Records : row[k] = s})]
  <2>1. /\ pc \in StepsOf["lifecycle"] /\ "lifecycle" \in Sections /\ pc' = "events"
        /\ shown' = [shown EXCEPT !.states = states]
        /\ UNCHANGED <<date, manifest, events, plan, start>>
    BY <1>3 DEF CountStates, Show, db, history, StepsOf, Sections, FirstStep
  <2>2. Built \cap {"lifecycle", "triage", "attachments", "events"} = {}
    BY <2>1, BuiltBefore DEF Sections, FirstStep, Position
  <2>3. Built' = Built
    BY <2>1 DEF Built
  <2>4. Reviewed(states) <= Len(events)
    BY ReviewedHaveEvents
  <2> HIDE DEF states
  <2>5. /\ shown'.states = states /\ shown'.queue = shown.queue
        /\ shown'.records = shown.records /\ shown'.manifests = shown.manifests
    BY <1>0, <2>1 DEF Nothing
  <2>6. Growing'
    BY <1>0, <2>1, <2>2, <2>3, <2>4, <2>5 DEF Growing
  <2> QED
    BY <2>1, <2>6 DEF Walking
<1>4. CASE CountEvents
  <2> DEFINE answer == [shown EXCEPT !.events = Len(events)]
  <2>1. /\ pc \in StepsOf["lifecycle"] /\ "lifecycle" \in Sections /\ EndSection(answer)
        /\ pc = "events"
    BY <1>4 DEF CountEvents, StepsOf, Sections, FirstStep
  <2>2. Built \cap {"lifecycle", "triage", "attachments", "events"} = {}
    BY <2>1, BuiltBefore DEF Sections, FirstStep, Position
  <2>3. Built' = Built \cup {"lifecycle"} /\ shown' = answer
        /\ UNCHANGED <<date, manifest, events, start>>
    BY <2>1, SectionEnds DEF db, history
  <2>4. pc' \notin {"manifest_count", "events", "event_rows", "queue_item", "manifest"}
    BY <2>1, EndsElsewhere
  <2>5. /\ shown'.states = shown.states /\ shown'.queue = shown.queue
        /\ shown'.records = shown.records /\ shown'.manifests = shown.manifests
        /\ shown'.events = Len(events)
    BY <1>0, <2>3 DEF Nothing
  <2> HIDE DEF answer
  <2>6. Reviewed(shown.states) <= Len(events)
    BY <2>1 DEF Growing
  <2>7. Growing'
    BY <1>0, <2>1, <2>2, <2>3, <2>4, <2>5, <2>6 DEF Growing
  <2> QED
    BY <2>4, <2>7 DEF Walking
<1>5. CASE CountEventTotal
  <2>1. /\ pc \in StepsOf["events"] /\ "events" \in Sections /\ pc' = "event_rows"
        /\ shown' = [shown EXCEPT !.eventTotal = Len(events)]
        /\ UNCHANGED <<date, manifest, events, plan, start>>
    BY <1>5 DEF CountEventTotal, Show, db, history, StepsOf, Sections, FirstStep
  <2>2. "events" \notin Built /\ ("lifecycle" \in start.asked => "lifecycle" \in Built)
    BY <2>1, BuiltBefore DEF Sections, FirstStep, Position
  <2>3. Built' = Built
    BY <2>1 DEF Built
  <2>4. /\ shown'.records = shown.records /\ shown'.manifests = shown.manifests
        /\ shown'.states = shown.states /\ shown'.events = shown.events
        /\ shown'.queue = shown.queue
        /\ shown'.reviewed = shown.reviewed /\ shown'.manifested = shown.manifested
        /\ shown'.eventTotal = Len(events)
    BY <1>0, <2>1 DEF Nothing
  <2> QED
    BY <1>0, <2>1, <2>2, <2>3, <2>4 DEF Growing, Walking
<1>6. CASE ReadEventRows
  <2> DEFINE answer == [shown EXCEPT !.exported =
           SubSeq(events, Len(events) + 1 - Smaller(MaxExport, Len(events)),
                  Len(events))]
  <2>1. /\ pc \in StepsOf["events"] /\ "events" \in Sections /\ EndSection(answer)
        /\ pc = "event_rows"
    BY <1>6 DEF ReadEventRows, StepsOf, Sections, FirstStep
  <2>3. Built' = Built \cup {"events"} /\ shown' = answer
        /\ UNCHANGED <<date, manifest, events, start>>
    BY <2>1, SectionEnds DEF db, history
  <2>4. pc' \notin {"manifest_count", "events", "event_rows", "queue_item", "manifest"}
    BY <2>1, EndsElsewhere
  <2>5. SameFigures
    BY <1>0, <2>3 DEF Nothing, SameFigures
  <2> QED
    BY <1>0, <2>1, <2>3, <2>4, <2>5 DEF Growing, Walking, SameFigures
<1> QED
  BY <1>1, <1>2, <1>3, <1>4, <1>5, <1>6

(* The walk over the queue.                                                *)
LEMMA QueueGrows ==
    ASSUME Inv, Scheduled, Counted, Growing, Walking,
           \/ ProbeQueue \/ ReadStates \/ ReadRecords \/ ReadQueueItem \/ EndQueue
    PROVE  Growing' /\ Walking'
<1>0. /\ DOMAIN shown = DOMAIN Nothing /\ Len(date) \in Nat /\ Len(events) \in Nat
      /\ DOMAIN work = DOMAIN NoWork /\ date \in Seq(Dates) /\ DOMAIN date = 1..Len(date)
  BY DEF Inv, Types, Counted
<1>1. /\ pc \in StepsOf["triage"] /\ "triage" \in Sections
  BY DEF ProbeQueue, ReadStates, ReadRecords, ReadQueueItem, EndQueue, StepsOf,
         TriageSteps, Sections, FirstStep
<1>2. /\ Built \cap {"triage", "attachments", "events"} = {}
      /\ "intake" \in start.asked => "intake" \in Built
  BY <1>1, BuiltBefore DEF Sections, FirstStep, Position
<1>3. shown.queue = {} /\ ("intake" \in start.asked => shown.records <= Len(date))
  BY <1>2 DEF Growing
<1>4. ASSUME NEW next, NEW read, Look(next, read), next \in TriageSteps
      PROVE  Growing' /\ UNCHANGED <<date, start, shown>>
  <2>1. /\ UNCHANGED <<date, manifest, events, plan, start, shown>> /\ pc' = next
    BY <1>4 DEF Look, db, history
  <2> QED
    BY <1>4, <2>1, GrowingKept DEF SameFigures, Built, TriageSteps
<1>5. CASE ProbeQueue /\ date = <<>>
  <2>1. EndSection(shown)
    BY <1>5 DEF ProbeQueue
  <2>2. Built' = Built \cup {"triage"} /\ shown' = shown
        /\ UNCHANGED <<date, manifest, events, start>>
    BY <1>1, <2>1, SectionEnds DEF db, history
  <2>3. pc' \notin {"manifest_count", "events", "event_rows", "queue_item", "manifest"}
    BY <1>1, <2>1, EndsElsewhere
  <2>4. Cardinality({}) = 0 /\ Len(date) = 0
    BY <1>5, FS_EmptySet
  <2>5. /\ shown'.queue = {} /\ shown'.records = shown.records
        /\ "intake" \in start.asked => shown.records <= 0
    BY <1>3, <2>2, <2>4
  <2>6. Growing'
    BY <1>2, <2>2, <2>3, <2>4, <2>5 DEF Growing
  <2> QED
    BY <2>3, <2>6 DEF Walking
<1>6. CASE (ProbeQueue /\ date # <<>>) \/ ReadStates
  <2>1. PICK next \in {"queue_states", "queue_records"}, read \in {work, work'} :
            Look(next, read)
    BY <1>6 DEF ProbeQueue, ReadStates, Look
  <2>2. Growing'
    BY <1>4, <2>1 DEF TriageSteps
  <2> QED
    BY <2>1, <2>2 DEF Walking, Look
<1>7. CASE ReadRecords
  <2> DEFINE read == [work EXCEPT !.todo = [k \in DOMAIN date |-> k],
                                  !.items = <<>>, !.dates = date]
  <2>1. Look("queue_item", read)
    BY <1>7 DEF ReadRecords
  <2>2. Growing' /\ UNCHANGED <<date, start, shown>>
    BY <1>4, <2>1 DEF TriageSteps
  <2>3. /\ work'.todo = [k \in 1..Len(date) |-> k] /\ work'.items = <<>>
        /\ work'.dates = date /\ pc' = "queue_item"
    BY <1>0, <2>1 DEF Look, NoWork
  <2>4. Len(work'.todo) = Len(date) /\ DOMAIN work'.todo = 1..Len(date)
    BY <1>0, <2>3
  <2> QED
    BY <1>0, <1>3, <2>2, <2>3, <2>4 DEF Walking, Numbered
<1>8. CASE ReadQueueItem
  <2>1. /\ pc = "queue_item" /\ work.todo # <<>>
        /\ \E read : Look("queue_item", read)
    BY <1>8 DEF ReadQueueItem
  <2>2. Growing' /\ UNCHANGED <<date, start, shown>>
    BY <1>4, <2>1 DEF TriageSteps
  <2>3. /\ pc' = "queue_item" /\ work'.todo = Tail(work.todo) /\ work'.dates = work.dates
        /\ \E item : item.record = Head(work.todo) /\ work'.items = Append(work.items, item)
    <3> DEFINE k == Head(work.todo)
               item == [record |-> k, label |-> QueueLabel(k),
                        date |-> work.dates[k], manifest |-> k \in manifest]
    <3>1. /\ pc' = "queue_item"
          /\ work' = [work EXCEPT !.todo = Tail(@), !.items = Append(@, item)]
      BY <1>8 DEF ReadQueueItem, Look
    <3>2. item.record = Head(work.todo)
      OBVIOUS
    <3> HIDE DEF item
    <3>3. /\ work'.todo = Tail(work.todo) /\ work'.dates = work.dates
          /\ work'.items = Append(work.items, item)
      BY <1>0, <3>1 DEF NoWork
    <3> QED
      BY <3>1, <3>2, <3>3
  <2>4. /\ work.items \in Seq(Item) /\ work.todo \in Seq(1..Len(work.dates))
        /\ Len(work.items) + Len(work.todo) = Len(work.dates)
        /\ Len(work.dates) <= Len(date) /\ work.dates \in Seq(Dates)
        /\ \A i \in DOMAIN work.items : work.items[i].record = i
        /\ Numbered(work.todo, Len(work.items))
        /\ "intake" \in start.asked => shown.records <= Len(work.dates)
    BY <2>1 DEF Walking, Inv, InHand
  <2>5. PICK item : item.record = Head(work.todo) /\ work'.items = Append(work.items, item)
    BY <2>3
  <2>6. item.record = Len(work.items) + 1
    BY <2>1, <2>4, <2>5 DEF Numbered
  <2>7. /\ Len(work'.items) = Len(work.items) + 1
        /\ DOMAIN work'.items = 1..Len(work.items) + 1
        /\ work'.items[Len(work.items) + 1] = item
        /\ \A i \in 1..Len(work.items) : work'.items[i] = work.items[i]
    BY <2>4, <2>5
  <2>8. /\ Len(work'.todo) = Len(work.todo) - 1
        /\ DOMAIN work'.todo = 1..Len(work.todo) - 1
        /\ \A i \in 1..Len(work.todo) - 1 : work'.todo[i] = work.todo[i + 1]
    BY <2>1, <2>3, <2>4
  <2>9. /\ Len(work.items) \in Nat /\ Len(work.todo) \in Nat
        /\ DOMAIN work.items = 1..Len(work.items) /\ DOMAIN work.todo = 1..Len(work.todo)
    BY <2>4
  <2>10. \A i \in DOMAIN work'.items : work'.items[i].record = i
    <3> SUFFICES ASSUME NEW i \in 1..Len(work.items) + 1
                 PROVE  work'.items[i].record = i
      BY <2>7
    <3>1. CASE i = Len(work.items) + 1
      BY <2>6, <2>7, <3>1
    <3>2. CASE i \in 1..Len(work.items)
      BY <2>4, <2>7, <2>9, <3>2
    <3> QED
      BY <2>9, <3>1, <3>2
  <2>13. PICK n \in Nat, m \in Nat : n = Len(work.items) /\ m = Len(work.todo)
    BY <2>9
  <2>11. Numbered(work'.todo, Len(work'.items))
    <3> SUFFICES ASSUME NEW i \in 1..m - 1
                 PROVE  work'.todo[i] = n + 1 + i
      BY <2>7, <2>8, <2>13 DEF Numbered
    <3>1. work'.todo[i] = work.todo[i + 1] /\ i + 1 \in 1..m
      BY <2>8, <2>13
    <3>2. work.todo[i + 1] = n + (i + 1)
      BY <2>4, <2>9, <2>13, <3>1 DEF Numbered
    <3>3. n + (i + 1) = n + 1 + i
      OBVIOUS
    <3> QED
      BY <3>1, <3>2, <3>3
  <2>12. Len(work'.items) + Len(work'.todo) = Len(work.dates)
    <3>1. Len(work'.items) = n + 1 /\ Len(work'.todo) = m - 1 /\ n + m = Len(work.dates)
      BY <2>4, <2>7, <2>8, <2>13
    <3>2. (n + 1) + (m - 1) = n + m
      OBVIOUS
    <3> QED
      BY <3>1, <3>2
  <2> QED
    BY <2>2, <2>3, <2>4, <2>10, <2>11, <2>12 DEF Walking, Numbered
<1>9. CASE EndQueue
  <2> DEFINE queue == {work.items[i] : i \in DOMAIN work.items}
             answer == [shown EXCEPT !.queue = queue]
  <2>1. pc = "queue_item" /\ work.todo = <<>> /\ EndSection(answer)
    BY <1>9 DEF EndQueue
  <2>2. Built' = Built \cup {"triage"} /\ shown' = answer
        /\ UNCHANGED <<date, manifest, events, start>>
    BY <1>1, <2>1, SectionEnds DEF db, history
  <2>3. pc' \notin {"manifest_count", "events", "event_rows", "queue_item", "manifest"}
    BY <1>1, <2>1, EndsElsewhere
  <2>4. /\ work.items \in Seq(Item)
        /\ Len(work.items) = Len(work.dates) /\ Len(work.dates) <= Len(date)
        /\ \A i \in DOMAIN work.items : work.items[i].record = i
        /\ "intake" \in start.asked => shown.records <= Len(work.dates)
    BY <2>1 DEF Walking, Inv, InHand
  <2>5. Cardinality(queue) = Len(work.items)
    <3>1. \A i, j \in DOMAIN work.items : work.items[i] = work.items[j] => i = j
      BY <2>4
    <3> QED
      BY <2>4, <3>1, ElementsCounted
  <2> HIDE DEF queue
  <2>6. /\ shown'.records = shown.records /\ shown'.manifests = shown.manifests
        /\ shown'.states = shown.states /\ shown'.events = shown.events
        /\ shown'.queue = queue
    BY <1>0, <2>2 DEF Nothing
  <2> QED
    BY <1>2, <2>2, <2>3, <2>4, <2>5, <2>6 DEF Growing, Walking
<1> QED
  BY <1>5, <1>6, <1>7, <1>8, <1>9

(* The walk over the manifests.                                            *)
LEMMA AttachmentsGrow ==
    ASSUME Inv, Scheduled, Counted, Growing, Walking,
           ReadManifestRecords \/ ReadManifest \/ EndAttachments
    PROVE  Growing' /\ Walking'
<1>0. /\ DOMAIN shown = DOMAIN Nothing /\ Len(date) \in Nat /\ Len(events) \in Nat
      /\ DOMAIN work = DOMAIN NoWork /\ date \in Seq(Dates) /\ DOMAIN date = 1..Len(date)
      /\ manifest \subseteq DOMAIN date
  BY DEF Inv, Types, Counted
<1>1. /\ pc \in StepsOf["attachments"] /\ "attachments" \in Sections
  BY DEF ReadManifestRecords, ReadManifest, EndAttachments, StepsOf,
         Sections, FirstStep
<1>2. /\ Built \cap {"attachments", "events"} = {}
      /\ "intake" \in start.asked => "intake" \in Built
      /\ "triage" \in start.asked => "triage" \in Built
  BY <1>1, BuiltBefore DEF Sections, FirstStep, Position
<1>3. /\ "intake" \in start.asked => shown.manifests <= Cardinality(manifest)
      /\ "triage" \in start.asked => Cardinality(shown.queue) <= Len(date)
  BY <1>2 DEF Growing
<1>4. ASSUME NEW read, Look("manifest", read)
      PROVE  Growing' /\ UNCHANGED <<date, start, shown, manifest>> /\ pc' = "manifest"
  <2>1. UNCHANGED <<date, manifest, events, plan, start, shown>> /\ pc' = "manifest"
    BY <1>4 DEF Look, db, history
  <2> QED
    BY <1>4, <2>1, GrowingKept DEF SameFigures, Built
<1>5. CASE ReadManifestRecords
  <2> DEFINE read == [work EXCEPT !.todo = [k \in DOMAIN date |-> k]]
  <2>1. Look("manifest", read) /\ work.items = <<>>
    BY <1>5 DEF ReadManifestRecords, Counted, WalkType
  <2>2. /\ Growing' /\ UNCHANGED <<date, start, shown, manifest>>
        /\ pc' = "manifest"
    BY <1>4, <2>1
  <2>3. work'.todo = [k \in 1..Len(date) |-> k] /\ work'.items = <<>>
    BY <1>0, <2>1 DEF Look, NoWork
  <2>4. /\ Len(work'.todo) = Len(date) /\ DOMAIN work'.todo = 1..Len(date)
        /\ work'.todo \in Seq(Nat)
        /\ work'.items \in Seq(BOOLEAN) /\ Len(work'.items) = 0
        /\ DOMAIN work'.items = {}
    BY <1>0, <2>3
  <2>5. Manifests' = manifest
    BY <1>0, <2>2, <2>4 DEF Manifests
  <2>6. Numbered(work'.todo, Len(work'.items))
    BY <2>3, <2>4 DEF Numbered
  <2> QED
    BY <1>0, <1>3, <2>2, <2>4, <2>5, <2>6 DEF Walking, Numbered
<1>6. CASE ReadManifest
  <2>1. /\ pc = "manifest" /\ work.todo # <<>>
        /\ \E read : Look("manifest", read)
    BY <1>6 DEF ReadManifest
  <2>2. /\ Growing' /\ UNCHANGED <<date, start, shown, manifest>>
        /\ pc' = "manifest"
    BY <1>4, <2>1
  <2>3. /\ work'.todo = Tail(work.todo)
        /\ work'.items = Append(work.items, Head(work.todo) \in manifest)
    <3> DEFINE has == Head(work.todo) \in manifest
    <3>1. work' = [work EXCEPT !.todo = Tail(@), !.items = Append(@, has)]
      BY <1>6 DEF ReadManifest, Look
    <3> HIDE DEF has
    <3>2. /\ work'.todo = Tail(work.todo)
          /\ work'.items = Append(work.items, has)
      BY <1>0, <3>1 DEF NoWork
    <3> QED
      BY <3>2 DEF has
  <2>4. /\ work.items \in Seq(BOOLEAN) /\ work.todo \in Seq(Nat)
        /\ Numbered(work.todo, Len(work.items))
        /\ "triage" \in start.asked =>
               Cardinality(shown.queue) <= Len(work.items) + Len(work.todo)
        /\ "intake" \in start.asked => shown.manifests <= Cardinality(Manifests)
    BY <2>1 DEF Walking
  <2>5. PICK n \in Nat, m \in Nat : n = Len(work.items) /\ m = Len(work.todo)
    BY <2>4
  <2>6. DOMAIN work.items = 1..n /\ DOMAIN work.todo = 1..m /\ m > 0
    BY <2>1, <2>4, <2>5
  <2> DEFINE has == Head(work.todo) \in manifest
  <2>7. has \in BOOLEAN /\ work'.items = Append(work.items, has)
    BY <2>3
  <2>15. has <=> Head(work.todo) \in manifest
    OBVIOUS
  <2> HIDE DEF has
  <2>8. Head(work.todo) = n + 1
    <3>1. Head(work.todo) = work.todo[1] /\ 1 \in DOMAIN work.todo
      BY <2>1, <2>4, <2>6
    <3> QED
      BY <2>4, <2>5, <3>1 DEF Numbered
  <2>9. /\ work'.items \in Seq(BOOLEAN)
        /\ Len(work'.items) = n + 1 /\ DOMAIN work'.items = 1..n + 1
        /\ work'.items[n + 1] = has
        /\ \A i \in 1..n : work'.items[i] = work.items[i]
    BY <2>4, <2>5, <2>7
  <2>10. /\ work'.todo \in Seq(Nat)
         /\ Len(work'.todo) = m - 1 /\ DOMAIN work'.todo = 1..m - 1
         /\ \A i \in 1..m - 1 : work'.todo[i] = work.todo[i + 1]
    BY <2>1, <2>3, <2>4, <2>5
  <2>11. Numbered(work'.todo, Len(work'.items))
    <3> SUFFICES ASSUME NEW i \in 1..m - 1
                 PROVE  work'.todo[i] = n + 1 + i
      BY <2>9, <2>10 DEF Numbered
    <3>1. work'.todo[i] = work.todo[i + 1] /\ i + 1 \in 1..m
      BY <2>10
    <3>2. work.todo[i + 1] = n + (i + 1)
      BY <2>4, <2>5, <2>6, <3>1 DEF Numbered
    <3>3. n + (i + 1) = n + 1 + i
      OBVIOUS
    <3> QED
      BY <3>1, <3>2, <3>3
  <2>12. Manifests' = Manifests
    <3>1. Manifests = {i \in 1..n : work.items[i]} \cup {k \in manifest : k \in n + 1..n + m}
      BY <2>5, <2>6 DEF Manifests
    <3>2. Manifests' = {i \in 1..n + 1 : work'.items[i]}
                       \cup {k \in manifest : k \in n + 1 + 1..n + 1 + (m - 1)}
      BY <2>2, <2>9, <2>10 DEF Manifests
    <3>3. {i \in 1..n + 1 : work'.items[i]}
             = {i \in 1..n : work.items[i]} \cup {k \in {n + 1} : k \in manifest}
      BY <2>8, <2>9, <2>15
    <3>4. {k \in manifest : k \in n + 1..n + m}
             = {k \in {n + 1} : k \in manifest}
               \cup {k \in manifest : k \in n + 1 + 1..n + 1 + (m - 1)}
      BY <2>6
    <3> QED
      BY <3>1, <3>2, <3>3, <3>4
  <2>13. Len(work'.items) + Len(work'.todo) = Len(work.items) + Len(work.todo)
    <3>1. (n + 1) + (m - 1) = n + m
      OBVIOUS
    <3> QED
      BY <2>5, <2>9, <2>10, <3>1
  <2>14. /\ "triage" \in start'.asked =>
                Cardinality(shown'.queue) <= Len(work'.items) + Len(work'.todo)
         /\ "intake" \in start'.asked => shown'.manifests <= Cardinality(Manifests')
    BY <2>2, <2>4, <2>12, <2>13
  <2> QED
    BY <2>2, <2>9, <2>10, <2>11, <2>14 DEF Walking, Numbered
<1>7. CASE EndAttachments
  <2> DEFINE with == {i \in DOMAIN work.items : work.items[i]}
             answer == [shown EXCEPT !.reviewed = Len(work.items),
                                     !.manifested = Cardinality(with)]
  <2>1. pc = "manifest" /\ work.todo = <<>> /\ EndSection(answer)
    BY <1>7 DEF EndAttachments
  <2>2. Built' = Built \cup {"attachments"} /\ shown' = answer
        /\ UNCHANGED <<date, manifest, events, start>>
    BY <1>1, <2>1, SectionEnds DEF db, history
  <2>3. pc' \notin {"manifest_count", "events", "event_rows", "queue_item", "manifest"}
    BY <1>1, <2>1, EndsElsewhere
  <2>4. /\ work.items \in Seq(BOOLEAN)
        /\ "triage" \in start.asked =>
               Cardinality(shown.queue) <= Len(work.items) + Len(work.todo)
        /\ "intake" \in start.asked => shown.manifests <= Cardinality(Manifests)
    BY <2>1 DEF Walking
  <2>5. PICK n \in Nat : n = Len(work.items)
    BY <2>4
  <2>6. Len(work.todo) = 0 /\ n + 0 = n
    BY <2>1
  <2>7. Manifests = with
    <3>1. {k \in manifest : k \in n + 1..n} = {}
      OBVIOUS
    <3> QED
      BY <2>5, <2>6, <3>1 DEF Manifests
  <2> HIDE DEF with
  <2>8. /\ shown'.records = shown.records /\ shown'.manifests = shown.manifests
        /\ shown'.states = shown.states /\ shown'.events = shown.events
        /\ shown'.queue = shown.queue /\ shown'.eventTotal = shown.eventTotal
        /\ shown'.reviewed = Len(work.items) /\ shown'.manifested = Cardinality(with)
    BY <1>0, <2>2 DEF Nothing
  <2>9. /\ "triage" \in start.asked => Cardinality(shown'.queue) <= shown'.reviewed
        /\ "intake" \in start.asked => shown'.manifests <= shown'.manifested
    BY <2>4, <2>5, <2>6, <2>7, <2>8
  <2> HIDE DEF answer
  <2>10. Growing'
    BY <1>2, <2>2, <2>3, <2>8, <2>9 DEF Growing
  <2> QED
    BY <2>3, <2>10 DEF Walking
<1> QED
  BY <1>5, <1>6, <1>7

LEMMA GrowingNext ==
    ASSUME Inv, Scheduled, Counted, WrittenDown, Growing, Walking, [Next]_vars
    PROVE  Growing' /\ Walking'
<1>0. /\ DOMAIN shown = DOMAIN Nothing /\ Len(date) \in Nat /\ Len(events) \in Nat
  BY DEF Inv, Types, Counted
<1>1. CASE UNCHANGED vars
  <2>1. /\ UNCHANGED <<date, manifest, events, pc, plan, work, shown, start>>
        /\ Manifests' = Manifests
    BY <1>1 DEF vars, db, request, history, Manifests
  <2>2. Growing'
    BY <2>1 DEF Growing, Built
  <2>3. Walking'
    BY <2>1 DEF Walking, Numbered
  <2> QED
    BY <2>2, <2>3
<1>2. CASE OtherCommit
  <2>1. /\ UNCHANGED <<pc, plan, work, shown, start>>
        /\ Len(date) <= Len(date') /\ manifest \subseteq manifest'
        /\ manifest' \subseteq DOMAIN date' /\ date' \in Seq(Dates)
        /\ UNCHANGED events \/ \E e : events' = Append(events, e)
    BY <1>2, Commits
  <2>2. Len(events) <= Len(events')
    BY <2>1 DEF Counted
  <2>3. IsFiniteSet(manifest')
    <3>1. PICK n \in Nat : DOMAIN date' = 1..n
      BY <2>1
    <3>2. IsFiniteSet(1..n)
      BY FS_Interval
    <3> QED
      BY <2>1, <3>1, <3>2, FS_Subset
  <2>4. /\ Cardinality(manifest) <= Cardinality(manifest')
        /\ Cardinality(manifest) \in Nat /\ Cardinality(manifest') \in Nat
    BY <2>1, <2>3, FS_Subset, FS_CardinalityType
  <2>5. Built' = Built /\ Len(date') \in Nat /\ Len(events') \in Nat
    BY <1>0, <2>1 DEF Built, Counted
  <2>6. Growing'
    <3>1. /\ shown.records \in Nat /\ shown.manifests \in Nat /\ shown.events \in Nat
          /\ Reviewed(shown.states) \in Nat /\ Cardinality(shown.queue) \in Nat
      BY SMTT(30), FS_CardinalityType DEF Counted, Reviewed, Status
    <3> QED
      BY SMTT(30), <1>0, <2>1, <2>2, <2>4, <2>5, <3>1 DEF Growing
  <2>7. pc = "manifest" => /\ Manifests \subseteq Manifests' /\ IsFiniteSet(Manifests')
                           /\ Cardinality(Manifests) <= Cardinality(Manifests')
                           /\ Cardinality(Manifests) \in Nat
                           /\ Cardinality(Manifests') \in Nat
    <3> SUFFICES ASSUME pc = "manifest"
                 PROVE  /\ Manifests \subseteq Manifests' /\ IsFiniteSet(Manifests')
                        /\ Cardinality(Manifests) <= Cardinality(Manifests')
                        /\ Cardinality(Manifests) \in Nat
                        /\ Cardinality(Manifests') \in Nat
      OBVIOUS
    <3>1. Manifests \subseteq Manifests'
      BY <2>1 DEF Manifests
    <3>2. PICK n \in Nat : DOMAIN work.items = 1..n
      BY DEF Walking
    <3>3. IsFiniteSet((1..n) \cup manifest')
      <4>1. IsFiniteSet(1..n)
        BY FS_Interval
      <4> QED
        BY <2>3, <4>1, FS_Union
    <3>4. Manifests' \subseteq (1..n) \cup manifest'
      BY <2>1, <3>2 DEF Manifests
    <3>5. IsFiniteSet(Manifests')
      BY <3>3, <3>4, FS_Subset
    <3> QED
      BY <3>1, <3>5, FS_Subset, FS_CardinalityType
  <2>8. Walking'
    <3>1. pc = "manifest" /\ "intake" \in start.asked =>
              shown.manifests <= Cardinality(Manifests')
      BY <2>7 DEF Walking, Counted
    <3>2. pc = "queue_item" => Len(work.dates) <= Len(date')
      <4>1. pc = "queue_item" => Len(work.dates) \in Nat
        BY DEF Inv, InHand
      <4> QED
        BY <1>0, <2>1, <2>5, <4>1 DEF Walking
    <3> QED
      BY <2>1, <3>1, <3>2 DEF Walking, Numbered
  <2> QED
    BY <2>6, <2>8
<1>3. CASE Begins
  <2>1. PICK sections \in SUBSET Sections :
              /\ Built' = {} /\ shown' = shown /\ pc = "idle"
              /\ pc' = FirstStep[First(sections)] /\ First(sections) \in sections
    BY <1>3, RequestBegins
  <2>2. pc' \notin {"manifest_count", "events", "event_rows", "queue_item", "manifest"}
    BY <2>1 DEF FirstStep, Sections
  <2>3. shown.queue = {}
    BY <2>1 DEF Inv, Frame
  <2> QED
    BY <2>1, <2>2, <2>3 DEF Growing, Walking
<1>4. CASE FailPage \/ Deliver
  <2>1. pc' = "idle" /\ start'.asked = {} /\ shown'.queue = {}
    BY <1>4 DEF FailPage, Deliver, NoStart, Nothing, Inv, Frame, DetailSteps
  <2> QED
    BY <2>1 DEF Growing, Walking, Built
<1>5. ASSUME NEW s \in {"records", "detail"}, Steps(s)
      PROVE  Growing' /\ Walking'
  <2>1. /\ pc' \in DetailSteps \cup {"page_count", "page_rows", "item"}
        /\ UNCHANGED <<date, manifest, events, plan, start>>
        /\ shown' = shown \/ \E status : shown' = [shown EXCEPT !.status = status]
    BY <1>5 DEF Steps, ReadRow, CommitRow, RefreshRow, CountPage, ReadPage, ReadItem,
       EndPage, More, Look, Show, db, history, DetailSteps
  <2>2. SameFigures
    BY <1>0, <2>1 DEF SameFigures, Nothing
  <2>3. Built' = Built
    BY <2>1 DEF Built
  <2>4. pc' \notin {"manifest_count", "events", "event_rows", "queue_item", "manifest"}
    BY <2>1 DEF DetailSteps
  <2> QED
    BY <2>1, <2>2, <2>3, <2>4, GrowingKept, WalkingElsewhere
<1>6. ASSUME NEW s \in {"records", "detail"}, Ends(s)
      PROVE  Growing' /\ Walking'
  <2>0. s \in Sections
    BY DEF Sections, FirstStep
  <2>1. /\ pc \in StepsOf[s]
        /\ \E l : EndSection([shown EXCEPT !.listed = l])
                  \/ EndSection([shown EXCEPT !.explained = l])
    <3>1. CASE s = "records"
      BY <1>6, <3>1 DEF Ends, EndPage, More, StepsOf
    <3>2. CASE s = "detail"
      BY <1>6, <3>2 DEF Ends, ReadHistory, StepsOf, DetailSteps
    <3> QED
      BY <3>1, <3>2
  <2>2. PICK answer : EndSection(answer) /\ \E l :
            answer = [shown EXCEPT !.listed = l] \/ answer = [shown EXCEPT !.explained = l]
    BY <2>1
  <2>3. /\ Built' = Built \cup {s} /\ shown' = answer
        /\ UNCHANGED <<date, manifest, events, start>>
    BY <2>0, <2>1, <2>2, SectionEnds DEF db, history
  <2>4. pc' \notin {"manifest_count", "events", "event_rows", "queue_item", "manifest"}
    BY <2>0, <2>1, <2>2, EndsElsewhere
  <2>5. SameFigures
    BY <1>0, <2>2, <2>3 DEF SameFigures, Nothing
  <2>6. \A t \in Sections \ {"records", "detail"} : t \in Built' <=> t \in Built
    BY <2>3
  <2> QED
    BY <2>3, <2>4, <2>5, <2>6, GrowingKept, WalkingElsewhere
<1>7. ASSUME NEW s \in Sections \ {"records", "detail"}, Steps(s) \/ Ends(s)
      PROVE  Growing' /\ Walking'
  BY <1>7, CountsGrow, QueueGrows, AttachmentsGrow DEF Steps, Ends
<1> QED
  BY <1>1, <1>2, <1>3, <1>4, <1>5, <1>6, <1>7, NextCases

-------------------------------------------------------------------------------
(* The order of the listing.  Its place among the records is how many come *)
(* before a record, and a place has one record.                            *)

Ahead(d, k) == {j \in DOMAIN d : Precedes(d, j, k)}

Place(d, k) == Cardinality(Ahead(d, k)) + 1

LEMMA UpTo ==
    ASSUME NEW n \in Nat
    PROVE  IsFiniteSet(1..n) /\ Cardinality(1..n) = n
BY FS_Interval

LEMMA PlacesAreOrdered ==
    ASSUME NEW d \in Seq(Nat)
    PROVE  /\ \A k \in DOMAIN d : Place(d, k) \in DOMAIN d
           /\ \A i, j \in DOMAIN d : Precedes(d, i, j) => Place(d, i) < Place(d, j)
           /\ \A i, j \in DOMAIN d : Place(d, i) < Place(d, j) => Precedes(d, i, j)
           /\ \A i, j \in DOMAIN d : Place(d, i) = Place(d, j) => i = j
<1>1. PICK n \in Nat : n = Len(d) /\ DOMAIN d = 1..n /\ \A k \in 1..n : d[k] \in Nat
  OBVIOUS
<1>2. IsFiniteSet(1..n) /\ Cardinality(1..n) = n
  BY UpTo
<1>3. \A k \in 1..n : /\ IsFiniteSet(Ahead(d, k)) /\ Cardinality(Ahead(d, k)) \in Nat
                      /\ Ahead(d, k) \subseteq 1..n /\ k \notin Ahead(d, k)
  <2> TAKE k \in 1..n
  <2>1. Ahead(d, k) \subseteq 1..n /\ k \notin Ahead(d, k)
    BY <1>1 DEF Ahead, Precedes
  <2> QED
    BY <1>2, <2>1, FS_Subset, FS_CardinalityType
<1>4. \A k \in 1..n : Place(d, k) \in 1..n
  <2> TAKE k \in 1..n
  <2>1. /\ IsFiniteSet(Ahead(d, k) \cup {k})
        /\ Cardinality(Ahead(d, k) \cup {k}) = Place(d, k)
    BY <1>3, FS_AddElement DEF Place
  <2>2. Cardinality(Ahead(d, k) \cup {k}) <= Cardinality(1..n)
    BY <1>2, <1>3, FS_Subset
  <2> QED
    BY <1>2, <1>3, <2>1, <2>2 DEF Place
<1>5. ASSUME NEW i \in 1..n, NEW j \in 1..n, Precedes(d, i, j)
      PROVE  Place(d, i) < Place(d, j)
  <2>1. Ahead(d, i) \cup {i} \subseteq Ahead(d, j)
    BY <1>1, <1>5 DEF Ahead, Precedes
  <2>2. Cardinality(Ahead(d, i) \cup {i}) = Place(d, i)
    BY <1>3, FS_AddElement DEF Place
  <2>3. Cardinality(Ahead(d, i) \cup {i}) <= Cardinality(Ahead(d, j))
    BY <1>3, <2>1, FS_Subset
  <2> QED
    BY <1>3, <1>4, <2>2, <2>3 DEF Place
<1>6. \A i, j \in 1..n : i = j \/ Precedes(d, i, j) \/ Precedes(d, j, i)
  BY <1>1 DEF Precedes
<1>7. ASSUME NEW i \in 1..n, NEW j \in 1..n, Place(d, i) <= Place(d, j)
      PROVE  i = j \/ Precedes(d, i, j)
  BY <1>4, <1>5, <1>6, <1>7
<1>8. \A i, j \in 1..n : Place(d, i) < Place(d, j) => Precedes(d, i, j)
  <2> TAKE i \in 1..n, j \in 1..n
  <2>1. Place(d, i) \in Int /\ Place(d, j) \in Int
    BY <1>4
  <2>2. CASE i = j
    BY <2>1, <2>2
  <2>3. CASE i # j
    BY <1>7, <2>1, <2>3
  <2> QED
    BY <2>2, <2>3
<1>9. \A i, j \in 1..n : Place(d, i) = Place(d, j) => i = j
  <2> TAKE i \in 1..n, j \in 1..n
  <2>1. Place(d, i) \in Int /\ Place(d, j) \in Int
    BY <1>4
  <2>2. Precedes(d, i, j) => Place(d, i) < Place(d, j)
    BY <1>5
  <2>3. Precedes(d, j, i) => Place(d, j) < Place(d, i)
    BY <1>5
  <2> QED
    BY <1>6, <2>1, <2>2, <2>3
<1> QED
  BY <1>1, <1>4, <1>5, <1>8, <1>9

LEMMA PlacesAreTaken ==
    ASSUME NEW d \in Seq(Nat), NEW p \in DOMAIN d
    PROVE  \E k \in DOMAIN d : Place(d, k) = p
<1> DEFINE place == [k \in DOMAIN d |-> Place(d, k)]
<1>1. PICK n \in Nat : DOMAIN d = 1..n
  OBVIOUS
<1>2. IsFiniteSet(1..n)
  BY UpTo
<1>3. place \in Injection(DOMAIN d, DOMAIN d)
  <2>1. place \in [DOMAIN d -> DOMAIN d]
    BY PlacesAreOrdered
  <2>2. \A i, j \in DOMAIN d : place[i] = place[j] => i = j
    BY PlacesAreOrdered
  <2> QED
    BY <2>1, <2>2 DEF Injection, IsInjective
<1>4. place \in Surjection(DOMAIN d, DOMAIN d)
  BY <1>1, <1>2, <1>3, FS_Injection
<1> QED
  BY <1>4 DEF Surjection

(* The listing is sorted: it has at each place the record of that place.   *)
LEMMA NewestFirstSorts ==
    ASSUME NEW d \in Seq(Nat)
    PROVE  /\ NewestFirst(d) \in [DOMAIN d -> DOMAIN d]
           /\ \A p \in DOMAIN d : Place(d, NewestFirst(d)[p]) = p
           /\ \A k \in DOMAIN d : NewestFirst(d)[Place(d, k)] = k
<1> DEFINE Sorted(s) == \A i, j \in DOMAIN s : i < j => Precedes(d, s[i], s[j])
           t == [p \in DOMAIN d |-> CHOOSE k \in DOMAIN d : Place(d, k) = p]
           s == NewestFirst(d)
<1>1. PICK n \in Nat : DOMAIN d = 1..n
  OBVIOUS
<1>2. t \in [DOMAIN d -> DOMAIN d] /\ \A p \in DOMAIN d : Place(d, t[p]) = p
  BY PlacesAreTaken
<1>3. Sorted(t)
  <2> SUFFICES ASSUME NEW i \in DOMAIN d, NEW j \in DOMAIN d, i < j
               PROVE  Precedes(d, t[i], t[j])
    OBVIOUS
  <2>1. Place(d, t[i]) < Place(d, t[j]) /\ t[i] \in DOMAIN d /\ t[j] \in DOMAIN d
    BY <1>2
  <2> QED
    BY <2>1, PlacesAreOrdered
<1>4. s \in [DOMAIN d -> DOMAIN d] /\ Sorted(s)
  BY <1>2, <1>3 DEF NewestFirst
<1> HIDE DEF t, s
<1>8. \A k \in 1..n : Place(d, k) \in 1..n
  BY <1>1, PlacesAreOrdered
<1>9. \A p \in 1..n : s[p] \in 1..n /\ Place(d, s[p]) \in 1..n
  BY <1>1, <1>4, <1>8
<1>5. \A i, j \in 1..n : i < j => Place(d, s[i]) < Place(d, s[j])
  BY <1>1, <1>4, PlacesAreOrdered
<1>6. \A p \in 1..n : Place(d, s[p]) = p
  <2> TAKE p \in 1..n
  <2> DEFINE earlier == [q \in 1..p - 1 |-> s[q]]
  <2>1. earlier \in Seq(Nat) /\ Len(earlier) = p - 1 /\ DOMAIN earlier = 1..p - 1
    BY <1>1, <1>4
  <2>2. \A i, j \in 1..n : s[i] = s[j] => i = j
    <3>1. \A i \in 1..n : Place(d, s[i]) \in Int
      BY <1>9
    <3> QED
      BY <1>5, <3>1
  <2>3. Cardinality({earlier[q] : q \in DOMAIN earlier}) = p - 1
    <3>1. \A i, j \in DOMAIN earlier : earlier[i] = earlier[j] => i = j
      BY <2>1, <2>2
    <3> QED
      BY <2>1, <3>1, ElementsCounted
  <2>4. Ahead(d, s[p]) = {earlier[q] : q \in DOMAIN earlier}
    <3>1. ASSUME NEW q \in 1..p - 1
          PROVE  earlier[q] \in Ahead(d, s[p])
      <4>1. q \in 1..n /\ q < p /\ earlier[q] = s[q] /\ s[q] \in DOMAIN d
        BY <1>1, <1>9, <3>1
      <4>2. Precedes(d, s[q], s[p])
        BY <1>1, <1>4, <4>1
      <4> QED
        BY <4>1, <4>2 DEF Ahead
    <3>2. ASSUME NEW k \in Ahead(d, s[p])
          PROVE  \E q \in 1..p - 1 : s[q] = k
      <4>1. k \in DOMAIN d /\ Place(d, k) < Place(d, s[p])
        BY <1>1, <1>4, <3>2, PlacesAreOrdered DEF Ahead
      <4>2. PICK q \in 1..n : s[q] = k
        <5>1. s \in Injection(1..n, 1..n)
          BY <1>1, <1>4, <2>2 DEF Injection, IsInjective
        <5>2. s \in Surjection(1..n, 1..n)
          <6>1. IsFiniteSet(1..n)
            BY UpTo
          <6> QED
            BY <5>1, <6>1, FS_Injection
        <5> QED
          BY <1>1, <4>1, <5>2 DEF Surjection
      <4>3. q < p
        <5>1. Place(d, s[p]) \in Int /\ Place(d, s[q]) \in Int
          BY <1>9
        <5> QED
          BY <1>5, <4>1, <4>2, <5>1
      <4> QED
        BY <4>2, <4>3
    <3> QED
      BY <2>1, <3>1, <3>2
  <2> QED
    BY <2>3, <2>4 DEF Place
<1>7. \A k \in DOMAIN d : s[Place(d, k)] = k
  <2> TAKE k \in DOMAIN d
  <2>1. Place(d, k) \in 1..n
    BY <1>1, <1>8
  <2>2. /\ Place(d, s[Place(d, k)]) = Place(d, k)
        /\ s[Place(d, k)] \in DOMAIN d
    BY <1>1, <1>6, <1>9, <2>1
  <2> QED
    BY <2>2, PlacesAreOrdered
<1> QED
  BY <1>1, <1>4, <1>6, <1>7 DEF s

(* Records that arrive push others back, never forward.                    *)
LEMMA PlacesGrow ==
    ASSUME NEW d \in Seq(Nat), NEW e \in Seq(Nat), Len(d) <= Len(e),
           \A i \in DOMAIN d : e[i] = d[i], NEW k \in DOMAIN d
    PROVE  Place(d, k) <= Place(e, k) /\ Place(d, k) \in Nat /\ Place(e, k) \in Nat
<1>1. PICK n \in Nat, m \in Nat : DOMAIN d = 1..n /\ DOMAIN e = 1..m /\ n <= m
  OBVIOUS
<1>2. Ahead(d, k) \subseteq Ahead(e, k) /\ Ahead(e, k) \subseteq 1..m
  BY <1>1 DEF Ahead, Precedes
<1>3. IsFiniteSet(1..m)
  BY UpTo
<1>4. IsFiniteSet(Ahead(e, k)) /\ IsFiniteSet(Ahead(d, k))
  BY <1>2, <1>3, FS_Subset
<1>5. /\ Cardinality(Ahead(d, k)) <= Cardinality(Ahead(e, k))
      /\ Cardinality(Ahead(d, k)) \in Nat /\ Cardinality(Ahead(e, k)) \in Nat
  BY <1>2, <1>4, FS_Subset, FS_CardinalityType
<1> QED
  BY <1>5, SMTT(30) DEF Place

(* The arithmetic of the pages.                                            *)
LEMMA SizeIsPositive == Size \in Nat \ {0} /\ MaxExport \in Nat \ {0} /\ Size <= MaxExport
BY ViewsAssumption DEF Size, Smaller

LEMMA Offsets ==
    ASSUME NEW page \in Nat \ {0}
    PROVE  /\ Offset(page) \in Nat /\ Offset(page + 1) = Offset(page) + Size
           /\ Offset(1) = 0
<1>1. PICK size \in Nat \ {0} : size = Size
  BY SizeIsPositive
<1>2. (page - 1) * size \in Nat /\ (page + 1 - 1) * size = (page - 1) * size + size
      /\ (1 - 1) * size = 0
  OBVIOUS
<1> QED
  BY <1>1, <1>2 DEF Offset

LEMMA Pages ==
    ASSUME NEW page \in Nat \ {0}, NEW total \in Nat
    PROVE  /\ PagesOf(total) \in Nat
           /\ page < PagesOf(total) => Offset(page + 1) < total
           /\ page >= PagesOf(total) => Offset(page + 1) >= total
<1>1. PICK size \in Nat \ {0} : size = Size
  BY SizeIsPositive
<1>2. PICK q \in Int : q = (total + size - 1) \div size
  OBVIOUS
<1>3. q * size <= total + size - 1 /\ total + size - 1 < q * size + size
  BY <1>2
<1>4. q >= 0
  BY <1>3
<1>5. page < q => (page + 1) * size <= q * size
  BY <1>4
<1>6. page >= q => page * size >= q * size
  BY <1>4
<1>7. (page + 1) * size = page * size + size /\ page * size \in Nat /\ q * size \in Int
  BY <1>4
<1>8. (page < q => page * size < total) /\ (page >= q => page * size >= total)
  BY <1>3, <1>5, <1>6, <1>7
<1>9. page + 1 - 1 = page
  OBVIOUS
<1> QED
  BY <1>1, <1>2, <1>4, <1>8, <1>9 DEF PagesOf, Offset

(* What the listing has in hand: the records listed so far and those of    *)
(* the page it is reading.                                                 *)

ListSteps == {"page_count", "page_rows", "item"}

Entry == [record : Records, label : Status]

PageLength == Len(work.items) + Len(work.todo)

InPage(q) ==
    IF q <= Len(work.items) THEN work.items[q].record
                            ELSE work.todo[q - Len(work.items)]

Of(listed) == {listed[i].record : i \in DOMAIN listed}

Listing ==
    /\ pc \in ListSteps => /\ work.page \in Nat \ {0} /\ work.pages \in Nat
                           /\ work.listed \in Seq(Entry)
                           /\ Len(work.listed) < MaxExport
    /\ pc = "item" => work.todo \in Seq(Records) /\ work.items \in Seq(Entry)
    /\ "records" \in Built => shown.listed \in Seq(Entry)

(* Nobody is dated anew: what was there at the beginning is as it was.     *)
Undated ==
    pc # "idle" /\ "records" \in start.asked /\ steady =>
        /\ start.date \in Seq(Nat) /\ Len(start.date) <= Len(date)
        /\ \A i \in DOMAIN start.date : date[i] = start.date[i]

Closed(S) ==
    \A i, j \in DOMAIN start.date :
        Precedes(start.date, i, j) /\ j \in S => i \in S

Gapless ==
    "records" \in start.asked /\ steady =>
        /\ pc \in ListSteps => Closed(Of(work.listed))
        /\ pc \in {"page_count", "page_rows"} =>
               \A k \in DOMAIN start.date :
                   Place(date, k) <= Offset(work.page) => k \in Of(work.listed)
        /\ pc = "item" =>
               /\ \A q \in 1..PageLength, i \in DOMAIN start.date :
                      InPage(q) \in DOMAIN start.date
                      /\ Precedes(start.date, i, InPage(q)) =>
                          i \in Of(work.listed) \/ \E r \in 1..q - 1 : InPage(r) = i
               /\ \A k \in DOMAIN start.date :
                      Place(date, k) <= Offset(work.page) + Size =>
                          k \in Of(work.listed) \/ \E q \in 1..PageLength : InPage(q) = k
        /\ "records" \in Built => Closed(Of(shown.listed))

Prefix(listed, n) ==
    Len(listed) = n /\ \A i \in 1..n : listed[i].record = NewestFirst(date)[i]

Quiet ==
    "records" \in start.asked /\ start.commits = commits =>
        /\ pc \in ListSteps => /\ Offset(work.page) <= Len(date)
                               /\ Prefix(work.listed, Offset(work.page))
        /\ pc \in {"page_rows", "item"} => work.pages = PagesOf(Len(date))
        /\ pc = "item" =>
               /\ PageLength = Smaller(Offset(work.page) + Size, Len(date))
                               - Offset(work.page)
               /\ \A q \in 1..PageLength :
                      InPage(q) = NewestFirst(date)[Offset(work.page) + q]
        /\ "records" \in Built =>
               Prefix(shown.listed, Smaller(MaxExport, Len(date)))

ListInv == Listing /\ Undated /\ Gapless /\ Quiet

LEMMA WiderSequences ==
    ASSUME NEW S, NEW T, S \subseteq T, NEW q \in Seq(S)
    PROVE  q \in Seq(T)
<1>1. Len(q) \in Nat /\ q = [i \in 1..Len(q) |-> q[i]] /\ \A i \in 1..Len(q) : q[i] \in T
  OBVIOUS
<1>2. \A f : (\E n \in Nat : f \in [1..n -> T]) => f \in Seq(T)
  OBVIOUS
<1>3. q \in [1..Len(q) -> T]
  BY <1>1, Zenon
<1> QED
  BY <1>1, <1>2, <1>3

LEMMA DatesAreNumbers ==
    ASSUME Inv
    PROVE  date \in Seq(Nat) /\ Len(date) \in Nat /\ DOMAIN date = 1..Len(date)
           /\ DOMAIN date \subseteq Records
<1>1. date \in Seq(Dates) /\ Len(date) <= MaxRecords /\ MaxRecords \in Nat /\ Dates \subseteq Nat
  BY ViewsAssumption DEF Inv, Types
<1>2. date \in Seq(Nat)
  BY <1>1, WiderSequences
<1>3. PICK n \in Nat : n = Len(date) /\ DOMAIN date = 1..n
  BY <1>1
<1> QED
  BY <1>1, <1>2, <1>3 DEF Records

(* Steps that do not list, up to a fresh start of the listing.             *)
LEMMA ListElsewhere ==
    ASSUME Inv, Counted, ListInv, UNCHANGED <<date, commits, start, steady>>,
           pc # "idle", pc' # "idle",
           \/ pc' \notin ListSteps
           \/ pc' = "page_count" /\ work'.listed = <<>> /\ work'.page = 1 /\ work'.pages = 0,
           "records" \in Built' <=> "records" \in Built,
           shown'.listed = shown.listed
    PROVE  ListInv'
<1>0. Offset(1) = 0 /\ 0 < MaxExport /\ Len(date) \in Nat /\ date \in Seq(Nat)
  BY Offsets, SizeIsPositive, DatesAreNumbers
<1>1. Of(<<>>) = {} /\ <<>> \in Seq(Entry) /\ Len(<<>>) = 0
  BY DEF Of
<1>2. Listing'
  <2>1. pc' \notin ListSteps => Listing'
    BY DEF ListInv, Listing, ListSteps
  <2>2. CASE pc' = "page_count" /\ work'.listed = <<>> /\ work'.page = 1 /\ work'.pages = 0
    <3>1. 1 \in Nat \ {0} /\ 0 \in Nat
      OBVIOUS
    <3>2. Len(work'.listed) < MaxExport /\ work'.listed \in Seq(Entry)
      BY <1>0, <1>1, <2>2
    <3> QED
      BY <2>2, <3>1, <3>2 DEF ListInv, Listing, ListSteps
  <2> QED
    BY <2>1, <2>2
<1>3. Undated'
  BY DEF ListInv, Undated
<1>4. Gapless'
  <2>1. ASSUME "records" \in start.asked, steady, NEW k \in DOMAIN start.date
        PROVE  ~(Place(date, k) <= 0)
    <3>1. k \in DOMAIN date
      BY <1>0, <2>1 DEF ListInv, Undated
    <3>2. Place(date, k) \in DOMAIN date
      BY <1>0, <3>1, PlacesAreOrdered
    <3> QED
      BY <1>0, <3>2
  <2> QED
    BY <1>0, <1>1, <2>1 DEF ListInv, Gapless, Closed, ListSteps
<1>5. Quiet'
  BY <1>0, <1>1 DEF ListInv, Quiet, Prefix, ListSteps
<1> QED
  BY <1>2, <1>3, <1>4, <1>5 DEF ListInv

LEMMA ListCommits ==
    ASSUME Inv, Scheduled, Counted, ListInv, OtherCommit
    PROVE  ListInv'
<1>1. /\ UNCHANGED <<pc, plan, work, shown, start>>
      /\ commits' = commits + 1
      /\ date' \in Seq(Dates) /\ Len(date) <= Len(date')
      /\ steady' => steady
      /\ steady' /\ "records" \in start.asked =>
             \A i \in DOMAIN date : date'[i] = date[i]
  BY Commits
<1>2. date \in Seq(Nat) /\ Len(date) \in Nat /\ DOMAIN date = 1..Len(date)
  BY DatesAreNumbers
<1>3. date' \in Seq(Nat) /\ Len(date') \in Nat
  <2>1. Dates \subseteq Nat
    BY ViewsAssumption
  <2>2. date' \in Seq(Dates)
    BY <1>1
  <2>3. date' \in Seq(Nat)
    BY <2>1, <2>2, WiderSequences
  <2> QED
    BY <2>3
<1>4. Listing' /\ Built' = Built
  BY <1>1 DEF ListInv, Listing, Built, ListSteps
<1>5. ASSUME pc # "idle", "records" \in start.asked, steady'
      PROVE  /\ start.date \in Seq(Nat) /\ Len(start.date) <= Len(date')
             /\ DOMAIN start.date \subseteq DOMAIN date
             /\ \A i \in DOMAIN start.date : date'[i] = start.date[i]
             /\ \A k \in DOMAIN start.date : /\ Place(date, k) <= Place(date', k)
                                             /\ Place(date, k) \in Nat
                                             /\ Place(date', k) \in Nat
  <2>1. /\ start.date \in Seq(Nat) /\ Len(start.date) <= Len(date)
        /\ \A i \in DOMAIN start.date : date[i] = start.date[i]
    BY <1>1, <1>5 DEF ListInv, Undated
  <2>2. DOMAIN start.date \subseteq DOMAIN date /\ Len(start.date) \in Nat
    BY <1>2, <2>1
  <2>3. \A i \in DOMAIN date : date'[i] = date[i]
    BY <1>1, <1>5
  <2>4. \A k \in DOMAIN start.date : /\ Place(date, k) <= Place(date', k)
                                     /\ Place(date, k) \in Nat
                                     /\ Place(date', k) \in Nat
    BY <1>1, <1>2, <1>3, <2>2, <2>3, PlacesGrow
  <2> QED
    BY SMTT(30), <1>1, <1>2, <1>3, <2>1, <2>2, <2>3, <2>4
<1>6. Undated'
  BY <1>1, <1>5 DEF Undated
<1>7. Gapless'
  <2> SUFFICES ASSUME "records" \in start.asked, steady'
               PROVE  Gapless'
    BY <1>1 DEF Gapless
  <2>0. pc # "idle"
    BY DEF Scheduled
  <2>1. \A k \in DOMAIN start.date : /\ Place(date, k) <= Place(date', k)
                                     /\ Place(date, k) \in Nat
                                     /\ Place(date', k) \in Nat
    BY <1>5, <2>0
  <2>2. Gapless /\ "records" \in start.asked /\ steady
    BY <1>1 DEF ListInv
  <2>3. pc \in ListSteps => /\ Offset(work.page) \in Nat /\ Size \in Nat
    BY Offsets, SizeIsPositive DEF ListInv, Listing
  <2>4. (Closed(Of(work.listed)))' <=> Closed(Of(work.listed))
    BY <1>1 DEF Closed, Of
  <2>5. (Closed(Of(shown.listed)))' <=> Closed(Of(shown.listed))
    BY <1>1 DEF Closed, Of
  <2>6. /\ PageLength' = PageLength
        /\ \A q : InPage(q)' = InPage(q)
        /\ Of(work.listed)' = Of(work.listed)
        /\ pc' = pc /\ start' = start /\ Offset(work.page)' = Offset(work.page)
    BY <1>1 DEF PageLength, InPage, Of, Offset
  <2> QED
    BY <1>4, <2>1, <2>2, <2>3, <2>4, <2>5, <2>6 DEF Gapless, ListSteps
<1>8. Quiet'
  <2>1. "records" \in start.asked /\ pc # "idle" => start.commits # commits'
    BY <1>1 DEF Counted
  <2>2. "records" \in start.asked => pc # "idle"
    BY DEF Scheduled
  <2> QED
    BY <1>1, <2>1, <2>2 DEF Quiet, ListSteps
<1> QED
  BY <1>4, <1>6, <1>7, <1>8 DEF ListInv

(* The rows of a page are those of its places.                             *)
LEMMA PageRowsAre ==
    ASSUME Inv, NEW page \in Nat \ {0}
    PROVE  /\ PageRows(page) \in Seq(DOMAIN date)
           /\ Len(PageRows(page)) =
                  IF Offset(page) < Len(date)
                  THEN Smaller(Offset(page) + Size, Len(date)) - Offset(page) ELSE 0
           /\ \A q \in 1..Len(PageRows(page)) :
                  /\ Offset(page) + q \in DOMAIN date
                  /\ PageRows(page)[q] = NewestFirst(date)[Offset(page) + q]
<1>1. PICK n \in Nat : n = Len(date) /\ DOMAIN date = 1..n
  BY DatesAreNumbers
<1>2. PICK off \in Nat, size \in Nat \ {0} : off = Offset(page) /\ size = Size
  BY Offsets, SizeIsPositive
<1>3. PICK s : s = NewestFirst(date) /\ s \in [1..n -> 1..n]
  BY <1>1, DatesAreNumbers, NewestFirstSorts
<1>4. PICK m \in Nat : m = Smaller(off + size, n) /\ m <= n /\ (off < n <=> off < m)
  BY DEF Smaller
<1>5. s \in Seq(1..n) /\ Len(s) = n
  BY <1>3
<1>6. PageRows(page) = SubSeq(s, off + 1, m)
  BY <1>1, <1>2, <1>3, <1>4 DEF PageRows
<1>7. /\ SubSeq(s, off + 1, m) \in Seq(1..n)
      /\ Len(SubSeq(s, off + 1, m)) = IF off < m THEN m - off ELSE 0
      /\ \A q \in 1..Len(SubSeq(s, off + 1, m)) :
             off + q \in 1..n /\ SubSeq(s, off + 1, m)[q] = s[off + q]
  <2>1. CASE off < m
    <3>1. off + 1 \in 1..n + 1 /\ m \in off + 1 - 1..n /\ off + 1 \in Int /\ m \in Int
      BY <1>4, <2>1
    <3>2. SubSeq(s, off + 1, m) = [i \in 1..m - off |-> s[off + i]]
      BY <3>1
    <3>3. \A i \in 1..m - off : off + i \in 1..n
      BY <1>4, <2>1
    <3> DEFINE t == [i \in 1..m - off |-> s[off + i]]
    <3>4. m - off \in Nat
      BY <2>1
    <3>5. \A i \in 1..m - off : s[off + i] \in 1..n
      BY <1>3, <3>3
    <3>6. t \in [1..m - off -> 1..n] /\ \A i \in 1..m - off : t[i] = s[off + i]
      BY <3>5
    <3> HIDE DEF t
    <3>7. t \in Seq(1..n) /\ Len(t) = m - off
      BY <3>4, <3>6
    <3>8. SubSeq(s, off + 1, m) = t
      BY <3>2 DEF t
    <3> QED
      BY <2>1, <3>3, <3>6, <3>7, <3>8
  <2>2. CASE ~(off < m)
    <3>1. SubSeq(s, off + 1, m) = <<>>
      BY <1>4, <2>2
    <3> QED
      BY <2>2, <3>1
  <2> QED
    BY <2>1, <2>2
<1> QED
  BY <1>1, <1>2, <1>3, <1>4, <1>6, <1>7

(* At the listing.                                                         *)
LEMMA AtListing ==
    ASSUME Inv, Scheduled, Counted, ListInv, pc \in ListSteps
    PROVE  /\ "records" \in start.asked /\ "records" \notin Built
           /\ DOMAIN work = DOMAIN NoWork /\ DOMAIN shown = DOMAIN Nothing
           /\ work.page \in Nat \ {0} /\ work.pages \in Nat
           /\ work.listed \in Seq(Entry) /\ Len(work.listed) < MaxExport
           /\ Offset(work.page) \in Nat
           /\ steady => /\ start.date \in Seq(Nat)
                        /\ DOMAIN start.date \subseteq DOMAIN date
                        /\ \A i \in DOMAIN start.date : date[i] = start.date[i]
<1>1. "records" \in Sections /\ pc \in StepsOf["records"]
  BY DEF Sections, FirstStep, StepsOf, ListSteps
<1>2. "records" \in start.asked /\ "records" \notin Built /\ pc # "idle"
  BY <1>1, AtSection DEF Built
<1>3. Len(date) \in Nat /\ DOMAIN date = 1..Len(date)
  BY DatesAreNumbers
<1>4. steady => DOMAIN start.date \subseteq DOMAIN date
  <2> SUFFICES ASSUME steady
               PROVE  DOMAIN start.date \subseteq DOMAIN date
    OBVIOUS
  <2>0. start.date \in Seq(Nat) /\ Len(start.date) <= Len(date)
    BY <1>2 DEF ListInv, Undated
  <2>1. PICK n \in Nat : n = Len(start.date) /\ DOMAIN start.date = 1..n
    BY <2>0
  <2>2. PICK m \in Nat : m = Len(date) /\ DOMAIN date = 1..m
    BY <1>3
  <2>3. n <= m
    BY <2>0, <2>1, <2>2
  <2> QED
    BY <2>1, <2>2, <2>3
<1>5. steady => start.date \in Seq(Nat) /\ \A i \in DOMAIN start.date : date[i] = start.date[i]
  BY <1>2 DEF ListInv, Undated
<1>6. /\ work.page \in Nat \ {0} /\ work.pages \in Nat
      /\ work.listed \in Seq(Entry) /\ Len(work.listed) < MaxExport
  BY DEF ListInv, Listing
<1> QED
  BY <1>2, <1>4, <1>5, <1>6, Offsets DEF Inv, Types

LEMMA CountPageLists ==
    ASSUME Inv, Scheduled, Counted, ListInv, CountPage
    PROVE  ListInv'
<1>1. /\ pc = "page_count" /\ pc' = "page_rows" /\ Built' = Built
      /\ work' = [work EXCEPT !.pages = PagesOf(Len(date))]
      /\ UNCHANGED <<date, commits, start, steady, shown>>
  BY DEF CountPage, Look, db, history, Built
<1>2. DOMAIN work = DOMAIN NoWork /\ work.page \in Nat \ {0} /\ "records" \notin Built
  BY <1>1, AtListing DEF ListSteps
<1>3. /\ work'.page = work.page /\ work'.listed = work.listed
      /\ work'.pages = PagesOf(Len(date)) /\ PagesOf(Len(date)) \in Nat
  BY <1>1, <1>2, DatesAreNumbers, Pages DEF NoWork
<1>4. Listing'
  BY <1>1, <1>2, <1>3 DEF ListInv, Listing, ListSteps
<1>5. Undated'
  BY <1>1 DEF ListInv, Undated
<1>6. Gapless'
  BY <1>1, <1>2, <1>3 DEF ListInv, Gapless, ListSteps, Closed, Of, Offset
<1>7. Quiet'
  BY <1>1, <1>2, <1>3 DEF ListInv, Quiet, ListSteps, Prefix, Offset
<1> QED
  BY <1>4, <1>5, <1>6, <1>7 DEF ListInv

LEMMA ReadPageLists ==
    ASSUME Inv, Scheduled, Counted, ListInv, ReadPage
    PROVE  ListInv'
<1> DEFINE todo == PageRows(work.page)
           off == Offset(work.page)
<1>1. /\ pc = "page_rows" /\ pc' = "item" /\ Built' = Built
      /\ work' = [work EXCEPT !.todo = todo, !.items = <<>>]
      /\ UNCHANGED <<date, commits, start, steady, shown>>
  BY DEF ReadPage, Look, db, history, Built
<1>2. /\ DOMAIN work = DOMAIN NoWork /\ work.page \in Nat \ {0} /\ "records" \notin Built
      /\ work.listed \in Seq(Entry) /\ Len(work.listed) < MaxExport /\ work.pages \in Nat
      /\ off \in Nat
  BY <1>1, AtListing DEF ListSteps
<1>3. /\ work'.page = work.page /\ work'.listed = work.listed /\ work'.pages = work.pages
      /\ work'.todo = todo /\ work'.items = <<>>
  BY <1>1, <1>2 DEF NoWork
<1>4. /\ todo \in Seq(DOMAIN date)
      /\ Len(todo) = IF off < Len(date) THEN Smaller(off + Size, Len(date)) - off ELSE 0
      /\ \A q \in 1..Len(todo) : /\ off + q \in DOMAIN date
                                 /\ todo[q] = NewestFirst(date)[off + q]
  BY <1>2, PageRowsAre
<1>5. Len(date) \in Nat /\ DOMAIN date = 1..Len(date) /\ date \in Seq(Nat)
      /\ DOMAIN date \subseteq Records
  BY DatesAreNumbers
<1> HIDE DEF todo, off
<1>6. todo \in Seq(Records) /\ Len(todo) \in Nat
  <2>1. todo \in Seq(Records)
    BY <1>4, <1>5, WiderSequences
  <2> QED
    BY <2>1
<1>7. PageLength' = Len(todo) /\ \A q \in 1..Len(todo) : InPage(q)' = todo[q]
  BY <1>3, <1>6 DEF PageLength, InPage
<1>8. Listing'
  BY <1>1, <1>2, <1>3, <1>6 DEF ListInv, Listing, ListSteps
<1>9. Undated'
  BY <1>1 DEF ListInv, Undated
<1>10. Offset(work.page)' = off
  BY <1>3 DEF off, Offset
<1>11. Gapless'
  <2> SUFFICES ASSUME "records" \in start.asked, steady
               PROVE  Gapless'
    BY <1>1 DEF Gapless
  <2>1. /\ Closed(Of(work.listed))
        /\ \A k \in DOMAIN start.date : Place(date, k) <= off => k \in Of(work.listed)
    BY <1>1 DEF ListInv, Gapless, ListSteps, off
  <2>2. /\ DOMAIN start.date \subseteq DOMAIN date
        /\ \A i \in DOMAIN start.date : date[i] = start.date[i]
    BY <1>1, AtListing DEF ListSteps
  <2>3. \A q \in 1..Len(todo) : Place(date, todo[q]) = off + q
    BY <1>4, <1>5, NewestFirstSorts
  <2>4. ASSUME NEW k \in DOMAIN date, off < Place(date, k),
               Place(date, k) <= off + Size
        PROVE  /\ Place(date, k) - off \in 1..Len(todo)
               /\ todo[Place(date, k) - off] = k
    <3>1. PICK p \in 1..Len(date) : p = Place(date, k)
      BY <1>5, PlacesAreOrdered
    <3>2. p - off \in 1..Len(todo)
      <4>1. PICK n \in Nat, size \in Nat \ {0} : n = Len(date) /\ size = Size
        BY <1>5, SizeIsPositive
      <4> QED
        BY SMTT(30), <1>2, <1>4, <2>4, <3>1, <4>1 DEF Smaller
    <3>3. todo[p - off] = NewestFirst(date)[off + (p - off)] /\ off + (p - off) = p
      BY <1>2, <1>4, <3>1, <3>2
    <3> QED
      BY <1>5, <3>1, <3>2, <3>3, NewestFirstSorts
  <2>5. ASSUME NEW q \in 1..Len(todo), NEW i \in DOMAIN start.date,
               todo[q] \in DOMAIN start.date, Precedes(start.date, i, todo[q])
        PROVE  i \in Of(work.listed) \/ \E r \in 1..q - 1 : todo[r] = i
    <3>1. i \in DOMAIN date /\ todo[q] \in DOMAIN date /\ Precedes(date, i, todo[q])
      BY <2>2, <2>5 DEF Precedes
    <3>2. PICK p \in 1..Len(date) : p = Place(date, i)
      BY <1>5, <3>1, PlacesAreOrdered
    <3>3. p < off + q
      <4>1. Place(date, i) < Place(date, todo[q])
        BY <1>5, <3>1, PlacesAreOrdered
      <4> QED
        BY <2>3, <3>2, <4>1
    <3>4. CASE p <= off
      BY <2>1, <3>2, <3>4
    <3>5. CASE off < p
      <4>1. p <= off + Size
        <5>1. PICK n \in Nat, size \in Nat \ {0} : n = Len(date) /\ size = Size
          BY <1>5, SizeIsPositive
        <5> QED
          BY <1>2, <1>4, <3>3, <5>1 DEF Smaller
      <4>2. todo[p - off] = i
        BY <2>4, <3>1, <3>2, <3>5, <4>1
      <4>3. p - off \in 1..q - 1
        BY <1>2, <3>2, <3>3, <3>5
      <4> QED
        BY <4>2, <4>3
    <3> QED
      BY <1>2, <3>2, <3>4, <3>5
  <2>6. ASSUME NEW k \in DOMAIN start.date, Place(date, k) <= off + Size
        PROVE  k \in Of(work.listed) \/ \E q \in 1..Len(todo) : todo[q] = k
    <3>1. k \in DOMAIN date /\ Place(date, k) \in Int
      BY <1>5, <2>2, PlacesAreOrdered
    <3>2. CASE Place(date, k) <= off
      BY <2>1, <3>2
    <3>3. CASE off < Place(date, k)
      BY <2>4, <2>6, <3>1, <3>3
    <3> QED
      BY <1>2, <3>1, <3>2, <3>3
  <2>7. \A q \in 1..Len(todo) : \A r \in 1..q - 1 : r \in 1..Len(todo)
    BY <1>6
  <2>8. /\ \A q \in 1..PageLength', i \in DOMAIN start.date :
               InPage(q)' \in DOMAIN start.date /\ Precedes(start.date, i, InPage(q)') =>
                   i \in Of(work.listed) \/ \E r \in 1..q - 1 : InPage(r)' = i
        /\ \A k \in DOMAIN start.date :
               Place(date, k) <= off + Size =>
                   k \in Of(work.listed) \/ \E q \in 1..PageLength' : InPage(q)' = k
    BY <1>7, <2>5, <2>6, <2>7
  <2>9. (Of(work.listed))' = Of(work.listed)
    BY <1>3 DEF Of
  <2> HIDE <2>5, <2>6
  <2> QED
    BY <1>1, <1>2, <1>10, <2>1, <2>8, <2>9 DEF Gapless, Closed, ListSteps
<1>12. Quiet'
  <2> SUFFICES ASSUME "records" \in start.asked, start.commits = commits
               PROVE  Quiet'
    BY <1>1 DEF Quiet
  <2>1. off <= Len(date) /\ Prefix(work.listed, off) /\ work.pages = PagesOf(Len(date))
    BY <1>1 DEF ListInv, Quiet, ListSteps, off
  <2>2. Len(todo) = Smaller(off + Size, Len(date)) - off
    <3>1. PICK n \in Nat, size \in Nat \ {0} : n = Len(date) /\ size = Size
      BY <1>5, SizeIsPositive
    <3> QED
      BY <1>2, <1>4, <2>1, <3>1 DEF Smaller
  <2>3. \A q \in 1..PageLength' : InPage(q)' = NewestFirst(date)[off + q]
    BY <1>4, <1>7
  <2> QED
    BY <1>1, <1>2, <1>3, <1>7, <1>10, <2>1, <2>2, <2>3 DEF Quiet, ListSteps, Prefix
<1> QED
  BY <1>8, <1>9, <1>11, <1>12 DEF ListInv

LEMMA ReadItemLists ==
    ASSUME Inv, Scheduled, Counted, ListInv, ReadItem
    PROVE  ListInv'
<1> DEFINE k == Head(work.todo)
           entry == [record |-> k, label |-> Label(row[k])]
<1>1. /\ pc = "item" /\ pc' = "item" /\ Built' = Built /\ work.todo # <<>>
      /\ work' = [work EXCEPT !.todo = Tail(@), !.items = Append(@, entry)]
      /\ UNCHANGED <<date, commits, start, steady, shown>>
  BY DEF ReadItem, Look, db, history, Built
<1>2. /\ DOMAIN work = DOMAIN NoWork /\ work.page \in Nat \ {0} /\ "records" \notin Built
      /\ work.listed \in Seq(Entry) /\ Len(work.listed) < MaxExport /\ work.pages \in Nat
  BY <1>1, AtListing DEF ListSteps
<1>3. /\ work'.page = work.page /\ work'.listed = work.listed /\ work'.pages = work.pages
      /\ work'.todo = Tail(work.todo) /\ work'.items = Append(work.items, entry)
  BY <1>1, <1>2 DEF NoWork
<1>4. work.todo \in Seq(Records) /\ work.items \in Seq(Entry)
  BY <1>1 DEF ListInv, Listing
<1>5. PICK a \in Nat, b \in Nat : /\ a = Len(work.items) /\ b = Len(work.todo) /\ b > 0
                                  /\ DOMAIN work.items = 1..a /\ DOMAIN work.todo = 1..b
  BY <1>1, <1>4
<1>6. k \in Records /\ entry \in Entry /\ entry.record = k
  <2>1. k \in Records
    BY <1>4, <1>1
  <2>2. row[k] \in Status \cup {NoRow}
    BY <2>1 DEF Inv, Types, Rows
  <2> QED
    BY <2>1, <2>2 DEF Label, Entry, Status
<1> HIDE DEF entry
<1>7. /\ Tail(work.todo) \in Seq(Records) /\ Len(Tail(work.todo)) = b - 1
      /\ \A i \in 1..b - 1 : Tail(work.todo)[i] = work.todo[i + 1]
      /\ k = work.todo[1]
  BY <1>1, <1>4, <1>5
<1>8. /\ Append(work.items, entry) \in Seq(Entry)
      /\ Len(Append(work.items, entry)) = a + 1
      /\ \A i \in 1..a : Append(work.items, entry)[i] = work.items[i]
      /\ Append(work.items, entry)[a + 1] = entry
  BY <1>4, <1>5, <1>6
<1> HIDE DEF k
<1>9. PageLength' = PageLength /\ PageLength = a + b
  <2>1. PageLength = a + b
    BY <1>5 DEF PageLength
  <2>2. PageLength' = a + 1 + (b - 1)
    BY <1>3, <1>7, <1>8 DEF PageLength
  <2> QED
    BY <2>1, <2>2
<1>10. ASSUME NEW q \in 1..PageLength
       PROVE  InPage(q)' = InPage(q)
  <2>1. q \in Nat /\ q <= a + b /\ q >= 1
    BY <1>9, <1>10
  <2>6. b > 0
    BY <1>5
  <2>2. InPage(q)' = IF q <= a + 1 THEN Append(work.items, entry)[q].record
                                   ELSE Tail(work.todo)[q - (a + 1)]
    BY <1>3, <1>8 DEF InPage
  <2>3. CASE q <= a
    BY <1>5, <1>8, <2>1, <2>2, <2>3 DEF InPage
  <2>4. CASE q = a + 1
    <3>1. q - a = 1 /\ ~(q <= a)
      BY <2>4
    <3>2. InPage(q)' = k
      BY <1>6, <1>8, <2>2, <2>4
    <3>3. InPage(q) = work.todo[1]
      BY <1>5, <3>1 DEF InPage
    <3> QED
      BY <1>7, <3>2, <3>3
  <2>5. CASE q > a + 1
    <3>1. q - (a + 1) \in 1..b - 1 /\ q - (a + 1) + 1 = q - a /\ ~(q <= a + 1) /\ ~(q <= a)
      BY <2>1, <2>5
    <3> QED
      BY <1>5, <1>7, <2>2, <3>1 DEF InPage
  <2> QED
    BY <2>1, <2>3, <2>4, <2>5
<1>11. Listing'
  BY <1>1, <1>2, <1>3, <1>7, <1>8 DEF ListInv, Listing, ListSteps
<1>12. Undated'
  BY <1>1 DEF ListInv, Undated
<1>13. /\ Offset(work.page)' = Offset(work.page) /\ (Of(work.listed))' = Of(work.listed)
       /\ \A q \in 1..PageLength : \A r \in 1..q - 1 : r \in 1..PageLength
  <2>1. \A q \in 1..a + b : \A r \in 1..q - 1 : r \in 1..a + b
    OBVIOUS
  <2> QED
    BY <1>3, <1>9, <2>1 DEF Of, Offset
<1>14. Gapless'
  <2> SUFFICES ASSUME "records" \in start.asked, steady
               PROVE  Gapless'
    BY <1>1 DEF Gapless
  <2>1. /\ Closed(Of(work.listed))
        /\ \A q \in 1..PageLength, i \in DOMAIN start.date :
               InPage(q) \in DOMAIN start.date /\ Precedes(start.date, i, InPage(q)) =>
                   i \in Of(work.listed) \/ \E r \in 1..q - 1 : InPage(r) = i
        /\ \A j \in DOMAIN start.date :
               Place(date, j) <= Offset(work.page) + Size =>
                   j \in Of(work.listed) \/ \E q \in 1..PageLength : InPage(q) = j
    BY <1>1 DEF ListInv, Gapless, ListSteps
  <2>2. /\ \A q \in 1..PageLength', i \in DOMAIN start.date :
               InPage(q)' \in DOMAIN start.date /\ Precedes(start.date, i, InPage(q)') =>
                   i \in Of(work.listed) \/ \E r \in 1..q - 1 : InPage(r)' = i
        /\ \A j \in DOMAIN start.date :
               Place(date, j) <= Offset(work.page) + Size =>
                   j \in Of(work.listed) \/ \E q \in 1..PageLength' : InPage(q)' = j
    BY <1>9, <1>10, <1>13, <2>1
  <2> QED
    BY <1>1, <1>2, <1>13, <2>1, <2>2 DEF Gapless, Closed, ListSteps
<1>15. Quiet'
  <2> SUFFICES ASSUME "records" \in start.asked, start.commits = commits
               PROVE  Quiet'
    BY <1>1 DEF Quiet
  <2>1. /\ Offset(work.page) <= Len(date) /\ Prefix(work.listed, Offset(work.page))
        /\ work.pages = PagesOf(Len(date))
        /\ PageLength = Smaller(Offset(work.page) + Size, Len(date)) - Offset(work.page)
        /\ \A q \in 1..PageLength : InPage(q) = NewestFirst(date)[Offset(work.page) + q]
    BY <1>1 DEF ListInv, Quiet, ListSteps
  <2>2. \A q \in 1..PageLength' : InPage(q)' = NewestFirst(date)[Offset(work.page) + q]
    BY <1>9, <1>10, <2>1
  <2> QED
    BY <1>1, <1>2, <1>3, <1>9, <1>13, <2>1, <2>2 DEF Quiet, ListSteps, Prefix
<1> QED
  BY <1>11, <1>12, <1>14, <1>15 DEF ListInv

(* What is taken of a page: all of it, or as much as the limit leaves.     *)
LEMMA TakenIs ==
    ASSUME NEW listed \in Seq(Entry), NEW items \in Seq(Entry), Len(listed) < MaxExport
    PROVE  /\ Taken(listed, items) \in Seq(Entry)
           /\ Len(Taken(listed, items)) = Smaller(MaxExport, Len(listed) + Len(items))
           /\ \A i \in 1..Len(listed) : Taken(listed, items)[i] = listed[i]
           /\ \A q \in 1..Len(items) :
                  Len(listed) + q <= Len(Taken(listed, items)) =>
                      Taken(listed, items)[Len(listed) + q] = items[q]
<1>1. PICK a \in Nat, b \in Nat : a = Len(listed) /\ b = Len(items)
  OBVIOUS
<1>2. PICK max \in Nat : max = MaxExport /\ a < max
  BY <1>1, SizeIsPositive
<1>3. PICK m \in Nat : m = Smaller(max, a + b) /\ m <= a + b /\ a <= m
  BY <1>2 DEF Smaller
<1> DEFINE both == listed \o items
<1>4. /\ both \in Seq(Entry) /\ Len(both) = a + b
      /\ \A i \in 1..a : both[i] = listed[i]
      /\ \A q \in 1..b : both[a + q] = items[q]
  <2>1. both \in Seq(Entry) /\ Len(both) = a + b
    BY <1>1
  <2>2. \A i \in 1..a : both[i] = listed[i]
    BY <1>1
  <2>3. \A q \in 1..b : both[a + q] = items[q]
    <3> TAKE q \in 1..b
    <3>1. a + q \in 1..a + b /\ ~(a + q <= a) /\ a + q - a = q
      OBVIOUS
    <3> QED
      BY <1>1, <3>1
  <2> QED
    BY <2>1, <2>2, <2>3
<1> HIDE DEF both
<1> DEFINE t == [i \in 1..m |-> both[i]]
<1>5. t \in [1..m -> Entry] /\ \A i \in 1..m : t[i] = both[i]
  <2>1. \A i \in 1..m : i \in 1..a + b
    BY <1>3
  <2>2. \A i \in 1..a + b : both[i] \in Entry
    BY <1>4
  <2> QED
    BY <2>1, <2>2
<1>6. SubSeq(both, 1, m) = t
  <2>1. SubSeq(both, 1, m) = [i \in 1..(1 + m - 1) |-> both[i + 1 - 1]]
    BY <1>3, <1>4
  <2>2. 1 + m - 1 = m /\ \A i \in 1..m : i + 1 - 1 = i
    OBVIOUS
  <2> QED
    BY <2>1, <2>2
<1> HIDE DEF t
<1>7. t \in Seq(Entry) /\ Len(t) = m
  BY <1>5
<1>8. Taken(listed, items) = t
  BY <1>1, <1>2, <1>3, <1>6 DEF Taken, both
<1>9. \A i \in 1..a : i \in 1..m
  BY <1>3
<1>10. \A q \in 1..b : a + q <= m => a + q \in 1..m
  BY <1>3
<1> QED
  BY <1>1, <1>2, <1>3, <1>4, <1>5, <1>7, <1>8, <1>9, <1>10

(* The end of a page, whether another follows or not.                      *)
LEMMA PageTaken ==
    ASSUME Inv, Scheduled, Counted, ListInv, EndPage
    PROVE  LET taken == Taken(work.listed, work.items)
           IN  /\ pc = "item" /\ taken \in Seq(Entry) /\ Len(taken) <= MaxExport
               /\ steady => Closed(Of(taken))
               /\ steady /\ Len(taken) < MaxExport =>
                      \A k \in DOMAIN start.date :
                          Place(date, k) <= Offset(work.page) + Size => k \in Of(taken)
               /\ start.commits = commits =>
                      /\ Offset(work.page) <= Len(date)
                      /\ work.pages = PagesOf(Len(date))
                      /\ Len(work.items) =
                             Smaller(Offset(work.page) + Size, Len(date)) - Offset(work.page)
                      /\ Prefix(taken, Smaller(MaxExport,
                                   Smaller(Offset(work.page) + Size, Len(date))))
<1> DEFINE taken == Taken(work.listed, work.items)
           off == Offset(work.page)
<1>1. pc = "item" /\ work.todo = <<>>
  BY DEF EndPage
<1>2. /\ work.listed \in Seq(Entry) /\ work.items \in Seq(Entry)
      /\ Len(work.listed) < MaxExport /\ MaxExport \in Nat /\ off \in Nat
      /\ "records" \in start.asked
  BY <1>1, AtListing, SizeIsPositive DEF ListInv, Listing, ListSteps
<1>3. PICK a \in Nat, b \in Nat : /\ a = Len(work.listed) /\ DOMAIN work.listed = 1..a
                                  /\ b = Len(work.items) /\ DOMAIN work.items = 1..b
  BY <1>2
<1>4. PICK m \in Nat : /\ m = Smaller(MaxExport, a + b) /\ a <= m /\ m <= a + b
                       /\ m <= MaxExport /\ (m < MaxExport => m = a + b)
  <2>1. PICK max \in Nat : max = MaxExport /\ a < max
    BY <1>2, <1>3
  <2> QED
    BY <2>1 DEF Smaller
<1>5. /\ taken \in Seq(Entry) /\ Len(taken) = m
      /\ \A i \in 1..a : taken[i] = work.listed[i]
      /\ \A q \in 1..b : a + q <= m => taken[a + q] = work.items[q]
  BY <1>2, <1>3, <1>4, TakenIs
<1> HIDE DEF taken, off
<1>6. DOMAIN taken = 1..m
  BY <1>5
<1>7. PageLength = b /\ \A q \in 1..b : InPage(q) = work.items[q].record
  BY <1>1, <1>3 DEF PageLength, InPage
<1>8. Of(work.listed) \subseteq Of(taken)
  <2>1. \A i \in 1..a : i \in 1..m
    BY <1>4
  <2> QED
    BY <1>3, <1>5, <1>6, <2>1 DEF Of
<1>9. ASSUME NEW q \in 1..b, a + q <= m
      PROVE  InPage(q) \in Of(taken)
  <2>1. a + q \in 1..m
    BY <1>9
  <2>2. taken[a + q] = work.items[q]
    BY <1>5, <1>9
  <2> QED
    BY <1>6, <1>7, <2>1, <2>2 DEF Of
<1>10. ASSUME steady, NEW i \in DOMAIN start.date, NEW j \in DOMAIN start.date,
              Precedes(start.date, i, j), j \in Of(taken)
       PROVE  i \in Of(taken)
  <2>1. /\ Closed(Of(work.listed))
        /\ \A q \in 1..PageLength, x \in DOMAIN start.date :
               InPage(q) \in DOMAIN start.date /\ Precedes(start.date, x, InPage(q)) =>
                   x \in Of(work.listed) \/ \E r \in 1..q - 1 : InPage(r) = x
    BY <1>1, <1>2, <1>10 DEF ListInv, Gapless, ListSteps
  <2>2. PICK p \in 1..m : taken[p].record = j
    BY <1>6, <1>10 DEF Of
  <2>3. CASE p <= a
    <3>1. p \in 1..a /\ j \in Of(work.listed)
      BY <1>3, <1>5, <2>2, <2>3 DEF Of
    <3> QED
      BY <1>8, <1>10, <2>1, <3>1 DEF Closed
  <2>4. CASE p > a
    <3>1. PICK q \in 1..b : p = a + q /\ a + q <= m
      <4>1. p - a \in 1..b /\ p = a + (p - a) /\ a + (p - a) <= m
        BY <1>4, <2>4
      <4> QED
        BY <4>1
    <3>2. InPage(q) = j
      BY <1>5, <1>7, <2>2, <3>1
    <3>3. i \in Of(work.listed) \/ \E r \in 1..q - 1 : InPage(r) = i
      BY <1>7, <1>10, <2>1, <3>2
    <3>4. ASSUME NEW r \in 1..q - 1
          PROVE  r \in 1..b /\ a + r <= m
      BY <3>1
    <3> QED
      BY <1>8, <1>9, <3>3, <3>4
  <2> QED
    BY <2>3, <2>4
<1>11. ASSUME steady, m < MaxExport, NEW k \in DOMAIN start.date,
              Place(date, k) <= off + Size
       PROVE  k \in Of(taken)
  <2>1. k \in Of(work.listed) \/ \E q \in 1..PageLength : InPage(q) = k
    BY <1>1, <1>2, <1>11 DEF ListInv, Gapless, off
  <2>2. \A q \in 1..b : a + q <= m
    BY <1>4, <1>11
  <2> QED
    BY <1>7, <1>8, <1>9, <2>1, <2>2
<1>12. ASSUME start.commits = commits
       PROVE  /\ off <= Len(date) /\ work.pages = PagesOf(Len(date))
              /\ b = Smaller(off + Size, Len(date)) - off
              /\ Prefix(taken, Smaller(MaxExport, Smaller(off + Size, Len(date))))
  <2>1. /\ off <= Len(date) /\ Prefix(work.listed, off)
        /\ work.pages = PagesOf(Len(date))
        /\ PageLength = Smaller(off + Size, Len(date)) - off
        /\ \A q \in 1..PageLength : InPage(q) = NewestFirst(date)[off + q]
    BY <1>1, <1>2, <1>12 DEF ListInv, Quiet, ListSteps, off
  <2>2. /\ a = off /\ \A i \in 1..a : work.listed[i].record = NewestFirst(date)[i]
    BY <1>3, <2>1 DEF Prefix
  <2>3. a + b = Smaller(off + Size, Len(date))
    <3>1. PICK n \in Nat, size \in Nat \ {0} : n = Len(date) /\ size = Size
      BY DatesAreNumbers, SizeIsPositive
    <3> QED
      BY <1>7, <2>1, <2>2, <3>1 DEF Smaller
  <2>4. ASSUME NEW p \in 1..m
        PROVE  taken[p].record = NewestFirst(date)[p]
    <3>1. CASE p <= a
      <4>1. p \in 1..a
        BY <3>1
      <4> QED
        BY <1>5, <2>2, <4>1
    <3>2. CASE p > a
      <4>1. p - a \in 1..b /\ p = a + (p - a) /\ a + (p - a) <= m
        BY <1>4, <3>2
      <4>2. taken[a + (p - a)] = work.items[p - a]
        BY <1>5, <4>1
      <4>3. InPage(p - a) = NewestFirst(date)[off + (p - a)]
        BY <1>7, <2>1, <4>1
      <4> QED
        BY <1>7, <2>2, <4>1, <4>2, <4>3
    <3> QED
      BY <3>1, <3>2
  <2>5. m = Smaller(MaxExport, Smaller(off + Size, Len(date)))
    BY <1>4, <2>3
  <2>6. Prefix(taken, m)
    BY <1>5, <2>4 DEF Prefix
  <2> QED
    BY <1>7, <2>1, <2>5, <2>6
<1> QED
  BY <1>1, <1>3, <1>4, <1>5, <1>10, <1>11, <1>12 DEF Closed, taken, off

LEMMA NextPageLists ==
    ASSUME Inv, Scheduled, Counted, ListInv, EndPage, More
    PROVE  ListInv'
<1> DEFINE taken == Taken(work.listed, work.items)
           off == Offset(work.page)
<1>1. /\ pc = "item" /\ pc' = "page_count" /\ Built' = Built
      /\ work' = [work EXCEPT !.listed = taken, !.page = @ + 1, !.items = <<>>]
      /\ UNCHANGED <<date, commits, start, steady, shown>>
      /\ Len(taken) < MaxExport /\ work.items # <<>> /\ work.page < work.pages
  BY DEF EndPage, More, MorePages, Look, db, history, Built
<1>2. /\ DOMAIN work = DOMAIN NoWork /\ work.page \in Nat \ {0} /\ work.pages \in Nat
      /\ "records" \notin Built /\ "records" \in start.asked
  BY <1>1, AtListing DEF ListSteps
<1>3. /\ work'.page = work.page + 1 /\ work'.listed = taken /\ work'.pages = work.pages
      /\ work'.page \in Nat \ {0} /\ taken \in Seq(Entry)
  BY <1>1, <1>2, PageTaken DEF NoWork
<1>4. /\ steady => Closed(Of(taken))
      /\ steady => \A k \in DOMAIN start.date :
                       Place(date, k) <= off + Size => k \in Of(taken)
      /\ start.commits = commits =>
             /\ off <= Len(date) /\ work.pages = PagesOf(Len(date))
             /\ Prefix(taken, Smaller(MaxExport, Smaller(off + Size, Len(date))))
  BY <1>1, PageTaken
<1>5. off \in Nat /\ off + Size = Offset(work.page + 1)
  BY <1>2, Offsets
<1> HIDE DEF taken, off
<1>6. Offset(work.page)' = off + Size
  BY <1>3, <1>5 DEF Offset
<1>7. Listing'
  BY <1>1, <1>2, <1>3 DEF ListInv, Listing, ListSteps
<1>8. Undated'
  BY <1>1 DEF ListInv, Undated
<1>9. Gapless'
  BY <1>1, <1>2, <1>3, <1>4, <1>6 DEF Gapless, Closed, Of, ListSteps
<1>10. Quiet'
  <2> SUFFICES ASSUME start.commits = commits
               PROVE  Quiet'
    BY <1>1 DEF Quiet
  <2>1. PICK n \in Nat, size \in Nat \ {0} : n = Len(date) /\ size = Size
    BY DatesAreNumbers, SizeIsPositive
  <2>2. off + Size < n
    BY <1>1, <1>2, <1>4, <1>5, <2>1, Pages
  <2>3. Smaller(off + Size, n) = off + Size
    BY <2>2 DEF Smaller
  <2>4. Len(taken) = Smaller(MaxExport, off + Size) /\ Prefix(taken, Len(taken))
    BY <1>4, <2>1, <2>3 DEF Prefix
  <2>5. Len(taken) = off + Size
    BY <1>1, <2>4, SizeIsPositive DEF Smaller
  <2> QED
    BY <1>1, <1>2, <1>3, <1>6, <2>1, <2>2, <2>4, <2>5
       DEF Quiet, Prefix, ListSteps
<1> QED
  BY <1>7, <1>8, <1>9, <1>10 DEF ListInv

LEMMA LastPageLists ==
    ASSUME Inv, Scheduled, Counted, ListInv, EndPage, ~More
    PROVE  ListInv'
<1> DEFINE taken == Taken(work.listed, work.items)
           off == Offset(work.page)
<1>1. /\ pc = "item" /\ EndSection([shown EXCEPT !.listed = taken])
      /\ ~(Len(taken) < MaxExport /\ work.items # <<>> /\ work.page < work.pages)
  BY DEF EndPage, More, MorePages
<1>2. "records" \in Sections /\ pc \in StepsOf["records"]
  BY <1>1 DEF Sections, FirstStep, StepsOf
<1>3. /\ Built' = Built \cup {"records"} /\ plan' = plan \ {"records"}
      /\ pc' = "done" \/ \E t \in plan' : pc' = FirstStep[t]
      /\ UNCHANGED <<date, commits, start, steady>>
      /\ shown' = [shown EXCEPT !.listed = taken]
  BY <1>1, <1>2, SectionEnds DEF db, history
<1>4. pc' \notin ListSteps /\ pc # "idle"
  <2>1. plan \subseteq Sections
    BY <1>2, AtSection DEF Inv, Frame, Sections, FirstStep
  <2> QED
    BY <1>1, <1>3, <2>1 DEF ListSteps, Sections, FirstStep
<1>5. /\ shown'.listed = taken /\ work.page \in Nat \ {0} /\ work.pages \in Nat
      /\ "records" \in start.asked
  BY <1>1, <1>3, AtListing DEF ListSteps, Nothing
<1>6. /\ taken \in Seq(Entry) /\ Len(taken) <= MaxExport
      /\ steady => Closed(Of(taken))
      /\ start.commits = commits =>
             /\ off <= Len(date) /\ work.pages = PagesOf(Len(date))
             /\ Len(work.items) = Smaller(off + Size, Len(date)) - off
             /\ Prefix(taken, Smaller(MaxExport, Smaller(off + Size, Len(date))))
      /\ work.items \in Seq(Entry)
  BY <1>1, PageTaken DEF ListInv, Listing
<1>7. off \in Nat /\ off + Size = Offset(work.page + 1)
  BY <1>5, Offsets
<1> HIDE DEF taken, off
<1>8. Listing'
  BY <1>3, <1>4, <1>5, <1>6 DEF Listing, ListSteps
<1>9. Undated'
  BY <1>3, <1>4 DEF ListInv, Undated
<1>10. Gapless'
  BY <1>3, <1>4, <1>5, <1>6 DEF Gapless, Closed, Of, ListSteps
<1>11. Quiet'
  <2> SUFFICES ASSUME start.commits = commits
               PROVE  Quiet'
    BY <1>3 DEF Quiet
  <2>1. PICK n \in Nat, size \in Nat \ {0}, max \in Nat :
            n = Len(date) /\ size = Size /\ max = MaxExport
    BY DatesAreNumbers, SizeIsPositive
  <2>2. PICK m \in Nat : m = Smaller(off + size, n) /\ off <= m /\ m <= n
    BY <1>6, <1>7, <2>1 DEF Smaller
  <2>3. Len(taken) = Smaller(max, m) /\ Prefix(taken, Len(taken))
    BY <1>6, <2>1, <2>2 DEF Prefix
  <2>4. CASE Len(taken) >= max
    <3>1. max <= m
      BY <2>3, <2>4 DEF Smaller
    <3>2. Smaller(max, m) = max /\ Smaller(max, n) = max
      BY <2>2, <3>1 DEF Smaller
    <3> QED
      BY <1>3, <1>4, <1>5, <2>1, <2>3, <3>2 DEF Quiet, Prefix, ListSteps
  <2>5. CASE work.items = <<>>
    <3>1. m = off
      <4>1. Len(work.items) = 0
        BY <2>5
      <4>2. Len(work.items) = m - off
        BY <1>6, <2>1, <2>2
      <4> QED
        BY <1>7, <4>1, <4>2
    <3>2. m = n
      BY <1>6, <1>7, <2>1, <2>2, <3>1 DEF Smaller
    <3> QED
      BY <1>3, <1>4, <1>5, <2>1, <2>3, <3>2 DEF Quiet, Prefix, ListSteps
  <2>6. CASE work.page >= work.pages
    <3>1. off + size >= n
      BY <1>5, <1>6, <1>7, <2>1, <2>6, Pages
    <3>2. m = n
      BY <1>7, <2>2, <3>1 DEF Smaller
    <3> QED
      BY <1>3, <1>4, <1>5, <2>1, <2>3, <3>2 DEF Quiet, Prefix, ListSteps
  <2>7. Len(taken) \in Int
    BY <1>6
  <2> QED
    BY <1>1, <1>5, <2>1, <2>4, <2>5, <2>6, <2>7
<1> QED
  BY <1>8, <1>9, <1>10, <1>11 DEF ListInv

(* The other sections leave the listing alone.                             *)
LEMMA OtherSectionsList ==
    ASSUME Inv, Scheduled, Counted, ListInv,
           NEW s \in Sections \ {"records"}, Steps(s) \/ Ends(s)
    PROVE  ListInv'
<1>0. DOMAIN shown = DOMAIN Nothing
  BY DEF Inv, Types
<1>1. CASE Steps(s)
  <2>1. Within(s)
    BY <1>1, WithinSteps
  <2>2. Built' = Built /\ pc \notin {"idle"}
    BY <2>1, WithinKeeps, AtSection DEF Within
  <2>3. pc' \notin ListSteps /\ pc' # "idle"
    BY <2>1 DEF Within, StepsOf, ListSteps, Sections, FirstStep, DetailSteps, TriageSteps
  <2>4. UNCHANGED <<date, commits>> /\ shown'.listed = shown.listed
    BY <1>0, <1>1 DEF Steps, ReadRow, CommitRow, RefreshRow, CountRecords,
       CountStates, ProbeQueue, ReadStates, ReadRecords, ReadQueueItem,
       ReadManifestRecords, ReadManifest, CountEventTotal, Look, Show, db,
       Nothing
  <2> QED
    BY <2>1, <2>2, <2>3, <2>4, ListElsewhere DEF Within
<1>2. CASE Ends(s)
  <2>1. PICK answer : EndSection(answer) /\ answer.listed = shown.listed
    <3>1. CASE ReadHistory
      <4>1. EndSection([shown EXCEPT !.explained = NewestEvents(work.record)])
        BY <3>1 DEF ReadHistory
      <4> QED
        BY <1>0, <4>1 DEF Nothing
    <3>2. CASE CountManifests
      <4>1. EndSection([shown EXCEPT !.manifests = Cardinality(manifest)])
        BY <3>2 DEF CountManifests
      <4> QED
        BY <1>0, <4>1 DEF Nothing
    <3>3. CASE CountEvents
      <4>1. EndSection([shown EXCEPT !.events = Len(events)])
        BY <3>3 DEF CountEvents
      <4> QED
        BY <1>0, <4>1 DEF Nothing
    <3>4. CASE ProbeQueue /\ date = <<>>
      BY <3>4 DEF ProbeQueue
    <3>5. CASE EndQueue
      <4>1. PICK queue : EndSection([shown EXCEPT !.queue = queue])
        BY <3>5 DEF EndQueue
      <4> QED
        BY <1>0, <4>1 DEF Nothing
    <3>6. CASE EndAttachments
      <4>1. PICK n, m : EndSection([shown EXCEPT !.reviewed = n, !.manifested = m])
        BY <3>6 DEF EndAttachments
      <4>2. [shown EXCEPT !.reviewed = n, !.manifested = m].listed = shown.listed
        BY <1>0 DEF Nothing
      <4> QED
        BY <4>1, <4>2
    <3>7. CASE ReadEventRows
      <4>1. PICK rows : EndSection([shown EXCEPT !.exported = rows])
        BY <3>7 DEF ReadEventRows
      <4> QED
        BY <1>0, <4>1 DEF Nothing
    <3> QED
      BY <1>2, <3>1, <3>2, <3>3, <3>4, <3>5, <3>6, <3>7 DEF Ends
  <2>2. pc \in StepsOf[s]
    BY <1>2, EndingSteps
  <2>3. /\ Built' = Built \cup {s} /\ UNCHANGED <<date, commits, start, steady>>
        /\ pc' = "done" \/ \E t \in plan' : pc' = FirstStep[t]
        /\ shown' = answer /\ plan' \subseteq plan
    BY <2>1, <2>2, SectionEnds DEF db, history
  <2>4. plan \subseteq Sections /\ pc \notin {"idle", "done"}
    BY <2>2, AtSection DEF Inv, Frame, Sections, FirstStep
  <2>5. pc' # "idle" /\ (pc' \notin ListSteps \/ pc' = "page_count")
    BY <2>3, <2>4 DEF ListSteps, Sections, FirstStep
  <2>6. work'.listed = <<>> /\ work'.page = 1 /\ work'.pages = 0
    BY <2>1 DEF EndSection, NoWork
  <2> QED
    BY <2>1, <2>3, <2>4, <2>5, <2>6, ListElsewhere
<1> QED
  BY <1>1, <1>2

(* A listing begins with nothing listed, at the first page.                *)
LEMMA ListBegins ==
    ASSUME Inv, Scheduled, Counted, ListInv, Begins
    PROVE  ListInv'
<1>1. PICK sections \in SUBSET Sections, k \in Nat :
              /\ sections # {} /\ Built' = {}
              /\ pc' = FirstStep[First(sections)] /\ First(sections) \in sections
              /\ work' = [NoWork EXCEPT !.record = k]
              /\ start' = [asked |-> sections, date |-> date, commits |-> commits]
              /\ UNCHANGED <<date, commits, shown>>
  BY RequestBegins
<1>2. pc' \notin ListSteps \/ pc' = "page_count"
  BY <1>1 DEF Sections, FirstStep, ListSteps
<1>3. /\ work'.listed = <<>> /\ work'.page = 1 /\ start'.date = date
      /\ work'.pages = 0
  BY <1>1 DEF NoWork
<1>4. /\ Offset(1) = 0 /\ 0 < MaxExport /\ Len(date) \in Nat /\ date \in Seq(Nat)
      /\ DOMAIN date = 1..Len(date)
  BY Offsets, SizeIsPositive, DatesAreNumbers
<1>5. Of(<<>>) = {} /\ <<>> \in Seq(Entry) /\ Len(<<>>) = 0 /\ 1 \in Nat \ {0} /\ 0 \in Nat
  BY DEF Of
<1>6. Listing'
  <2>1. Len(work'.listed) < MaxExport /\ work'.listed \in Seq(Entry)
    BY <1>3, <1>4, <1>5
  <2> QED
    BY <1>1, <1>2, <1>3, <1>5, <2>1 DEF Listing, ListSteps
<1>7. Undated'
  BY <1>1, <1>3, <1>4 DEF Undated
<1>8. Gapless'
  <2>1. \A j \in DOMAIN date : ~(Place(date, j) <= 0)
    <3> TAKE j \in DOMAIN date
    <3>1. Place(date, j) \in DOMAIN date
      BY <1>4, PlacesAreOrdered
    <3> QED
      BY <1>4, <3>1
  <2>2. Of(work.listed)' = {} /\ Offset(work.page)' = 0
    BY <1>3, <1>4, <1>5 DEF Of, Offset
  <2> QED
    BY <1>1, <1>2, <1>3, <2>1, <2>2 DEF Gapless, Closed, ListSteps
<1>9. Quiet'
  <2>1. Prefix(work.listed, Offset(work.page))' /\ Offset(work.page)' = 0
    BY <1>3, <1>4, <1>5 DEF Prefix, Offset
  <2> QED
    BY <1>1, <1>2, <1>4, <2>1 DEF Quiet, ListSteps
<1> QED
  BY <1>6, <1>7, <1>8, <1>9 DEF ListInv

LEMMA ListNext ==
    ASSUME Inv, Scheduled, Counted, ListInv, [Next]_vars
    PROVE  ListInv'
<1>1. CASE UNCHANGED vars
  <2>1. UNCHANGED <<date, commits, pc, plan, work, shown, start, steady>>
    BY <1>1 DEF vars, db, request, history
  <2>2. Built' = Built /\ PageLength' = PageLength /\ \A q : InPage(q)' = InPage(q)
    BY <2>1 DEF Built, PageLength, InPage
  <2>3. Listing' /\ Undated'
    BY <2>1, <2>2 DEF ListInv, Listing, Undated
  <2>4. Gapless'
    BY <2>1, <2>2 DEF ListInv, Gapless, Closed, Of, Offset
  <2>5. Quiet'
    BY <2>1, <2>2 DEF ListInv, Quiet, Prefix, Offset
  <2> QED
    BY <2>3, <2>4, <2>5 DEF ListInv
<1>2. CASE FailPage \/ Deliver
  <2>1. pc' = "idle" /\ start'.asked = {} /\ Built' = {}
    BY <1>2 DEF FailPage, Deliver, NoStart, Built
  <2> QED
    BY <2>1 DEF ListInv, Listing, Undated, Gapless, Quiet, ListSteps
<1>3. CASE Steps("records")
  BY <1>3, CountPageLists, ReadPageLists, ReadItemLists, NextPageLists
     DEF Steps
<1>4. CASE Ends("records")
  BY <1>4, LastPageLists DEF Ends
<1>5. ASSUME NEW s \in Sections \ {"records"}, Steps(s) \/ Ends(s)
      PROVE  ListInv'
  BY <1>5, OtherSectionsList
<1> QED
  BY <1>1, <1>2, <1>3, <1>4, <1>5, NextCases, ListCommits, ListBegins

-------------------------------------------------------------------------------
(* All of it together holds at the beginning, and each step keeps it.      *)
Holds ==
    /\ Inv /\ Scheduled /\ Counted
    /\ WrittenDown /\ PageInHand
    /\ Growing /\ Walking
    /\ ListInv

LEMMA HoldsAtFirst ==
    ASSUME Init
    PROVE  Holds
<1>1. Inv
  BY InitHolds
<1>2. /\ pc = "idle" /\ plan = {} /\ start = NoStart /\ events = <<>> /\ commits = 0
      /\ manifest \subseteq DOMAIN date /\ shown = Nothing /\ work = NoWork
      /\ row = [k \in Records |-> NoRow]
  BY DEF Init
<1>3. Built = {}
  BY <1>2 DEF Built, NoStart
<1>4. Scheduled
  BY <1>2, <1>3 DEF Scheduled, NoStart
<1>5. Counted
  <2>1. IsFiniteSet({}) /\ <<>> \in Seq(Event)
    BY FS_EmptySet
  <2>2. shown.states \in [Status -> Nat] /\ IsFiniteSet(shown.queue)
    BY <1>2, <2>1 DEF Nothing
  <2> QED
    BY <1>2, <2>1, <2>2 DEF Counted, WalkType, NoStart, Nothing
<1>6. WrittenDown
  BY <1>2 DEF WrittenDown
<1>7. PageInHand
  BY <1>2 DEF PageInHand, DetailSteps
<1>8. Growing
  BY <1>2, <1>3 DEF Growing, NoStart, Nothing
<1>9. Walking
  BY <1>2 DEF Walking
<1>10. ListInv
  BY <1>2, <1>3 DEF ListInv, Listing, Undated, Gapless, Quiet, ListSteps, NoStart
<1> QED
  BY <1>1, <1>4, <1>5, <1>6, <1>7, <1>8, <1>9, <1>10 DEF Holds

LEMMA HoldsAlways == Spec => []Holds
<1>1. Holds /\ [Next]_vars => Holds'
  BY StepKeeps, ScheduledNext, CountedNext, WrittenDownNext, PageInHandNext,
     GrowingNext, ListNext DEF Holds
<1> QED
  BY <1>1, HoldsAtFirst, PTL DEF Spec

(* The status a page shows is "new", or some event on the page led to it,  *)
(* not necessarily the newest: later transitions may have been committed   *)
(* between its SELECTs, but fewer than the page has events.                *)
THEOREM PageIsExplained ==
    Spec => [](commits - start.commits < HistoryPage => DetailExplained)
<1>1. Holds => (commits - start.commits < HistoryPage => DetailExplained)
  BY DEF Holds, PageInHand, InTime, DetailExplained, Answered
<1> QED
  BY <1>1, HoldsAlways, PTL

(* A later section of a packet never knows less than an earlier one, for   *)
(* whatever is asked for and whatever is committed in between.             *)
THEOREM LaterSectionsKnow == Spec => []LaterSectionsKnowMore
<1>1. Holds => LaterSectionsKnowMore
  <2> SUFFICES ASSUME Holds, pc = "done"
               PROVE  LaterSectionsKnowMore
    BY DEF LaterSectionsKnowMore, Both, Answered
  <2>1. Built = start.asked
    BY DEF Holds, Scheduled, Built
  <2> QED
    BY <2>1 DEF Holds, Growing, Reviewed, LaterSectionsKnowMore, Both, Answered
<1> QED
  BY <1>1, HoldsAlways, PTL

(* Records that arrive never make a hole in the listing, however many      *)
(* there are and however small its pages.                                  *)
THEOREM ListingIsClosed == Spec => []ListingHasNoHoles
<1>1. Holds => ListingHasNoHoles
  <2> SUFFICES ASSUME Holds, Answered("records"), steady
               PROVE  Closed(Listed)
    BY DEF ListingHasNoHoles, Closed
  <2>1. "records" \in Built /\ "records" \in start.asked
    BY DEF Holds, Scheduled, Built, Answered
  <2> QED
    BY <2>1 DEF Holds, ListInv, Gapless, Of, Listed
<1> QED
  BY <1>1, HoldsAlways, PTL

(* With nobody committing the listing is exact, whatever the pages.        *)
THEOREM QuietListing == Spec => []QuietListingIsExact
<1>1. Holds => QuietListingIsExact
  <2> DEFINE listed == [i \in DOMAIN shown.listed |-> shown.listed[i].record]
             s == NewestFirst(date)
  <2> SUFFICES ASSUME Holds, Answered("records"), start.commits = commits
               PROVE  listed = SubSeq(s, 1, Smaller(MaxExport, Len(date)))
    BY DEF QuietListingIsExact
  <2>1. "records" \in Built /\ "records" \in start.asked
    BY DEF Holds, Scheduled, Built, Answered
  <2>2. PICK n \in Nat, max \in Nat : n = Len(date) /\ max = MaxExport
    BY DatesAreNumbers, SizeIsPositive DEF Holds
  <2>3. date \in Seq(Nat) /\ DOMAIN date = 1..n
    BY <2>2, DatesAreNumbers DEF Holds
  <2>4. s \in [1..n -> 1..n]
    BY <2>3, NewestFirstSorts
  <2>5. PICK m \in Nat : m = Smaller(MaxExport, Len(date)) /\ m <= n
    BY <2>2 DEF Smaller
  <2>6. /\ shown.listed \in Seq(Entry) /\ Len(shown.listed) = m
        /\ \A i \in 1..m : shown.listed[i].record = s[i]
    BY <2>1, <2>5 DEF Holds, ListInv, Listing, Quiet, Prefix
  <2> HIDE DEF s
  <2>7. DOMAIN shown.listed = 1..m
    BY <2>6
  <2>8. listed = [i \in 1..m |-> s[i]]
    BY <2>6, <2>7
  <2>9. SubSeq(s, 1, m) = [i \in 1..m |-> s[i]]
    <3>1. SubSeq(s, 1, m) = [i \in 1..(1 + m - 1) |-> s[i + 1 - 1]]
      BY <2>4, <2>5
    <3>2. 1 + m - 1 = m /\ \A i \in 1..m : i + 1 - 1 = i
      OBVIOUS
    <3> QED
      BY <3>1, <3>2
  <2> QED
    BY <2>5, <2>8, <2>9
<1> QED
  BY <1>1, HoldsAlways, PTL
===============================================================================
