----------------------------- MODULE ReviewViews -----------------------------
(***************************************************************************)
(* What an operator sees of the intake records: the page of a record, the  *)
(* triage queue, the dashboard and the export pack                         *)
(* (app/services/intake_review_workspace.py, operator_triage_queue.py,     *)
(* attachment_review.py, product_dashboard.py, operator_export_pack.py).   *)
(*                                                                         *)
(* Each is one request that puts its answer together from many SELECTs.    *)
(* No transaction holds them together: every SELECT sees what is committed *)
(* when it runs, and syncs and reviewers commit in between.  A step of a   *)
(* request is one SELECT whose result reaches the answer.                  *)
(*                                                                         *)
(* The views are enabled, their settings are the defaults and the tables   *)
(* are there.  Titles, masks, tools and content types are left out; so is  *)
(* the demo reset, the one thing that deletes records.                     *)
(***************************************************************************)
EXTENDS Integers, Sequences, FiniteSets

CONSTANTS
    Dates,        \* values of received_at; 0 when the source gives none
    RecentFrom,   \* dates from here on are within triage_queue_recent_hours
    OlderBefore,  \* dates before are past triage_queue_older_than_hours
    PageSize,     \* intake_review_workspace_max_page_size
    MaxExport,    \* export_pack_max_records
    HistoryPage,  \* events on the page of a record
    Requests,     \* the sets of sections that are asked for at once
    Targets,      \* bound: the statuses reviewers move records to
    Stored,       \* bound: numbers of records there may be at the beginning
    MaxRecords,   \* bound: records that syncs store
    MaxCommits,   \* bound: commits of syncs and reviewers
    NoRow         \* a record without a row in intake_review_states

Status == {"new", "in_review", "reviewed", "needs_follow_up", "ignored"}

Records == 1..MaxRecords

ASSUME ViewsAssumption ==
    /\ Dates \subseteq Nat
    /\ {RecentFrom, OlderBefore} \subseteq Nat
    /\ {PageSize, MaxExport, HistoryPage} \subseteq Nat \ {0}
    /\ {MaxRecords, MaxCommits} \subseteq Nat
    /\ Targets \subseteq Status
    /\ Stored \subseteq 0..MaxRecords
    /\ NoRow \notin Status

(* The first SELECT of every section.                                      *)
FirstStep ==
    [detail      |-> "row",
     intake      |-> "record_count",
     records     |-> "page_count",
     lifecycle   |-> "states",
     triage      |-> "queue_probe",
     attachments |-> "manifest_records",
     events      |-> "event_total"]

Sections == DOMAIN FirstStep

(* Mutant: a packet reads the events before everything else.               *)
EventsFirst ==
    [detail |-> 0, events |-> 1, intake |-> 2, records |-> 3, lifecycle |-> 4,
     triage |-> 5, attachments |-> 6]

(* The order of the sections, on the dashboard as in a packet.             *)
Position ==
    [detail |-> 0, intake |-> 1, records |-> 2, lifecycle |-> 3, triage |-> 4,
     attachments |-> 5, events |-> 6]

ASSUME RequestsAssumption ==
    \A sections \in Requests :
        /\ sections # {}
        /\ sections \subseteq Sections \ {"detail"}
        /\ "records" \in sections => "intake" \in sections

VARIABLES
    date,      \* received_at of the records, which are numbered as inserted
    row,       \* intake_review_states: the status of each record
    events,    \* intake_review_lifecycle_events
    manifest,  \* the records with rows in attachment_objects
    commits,   \* the number of commits so far
    pc,        \* the SELECT the request runs next
    plan,      \* the sections it has still to build
    work,      \* what it has read for the section it is building
    shown,     \* the answer as far as it is built
    start,     \* history: the database when the request began
    past,      \* history: every state of row since then
    steady     \* history: no record has been dated anew since then

db      == <<date, row, events, manifest, commits>>
request == <<pc, plan, work, shown>>
history == <<start, past, steady>>
vars    == <<db, request, history>>

Label(status) == IF status = NoRow THEN "new" ELSE status

Rows   == [Records -> Status \cup {NoRow}]
Event  == [record : Records, to : Status]
Item   == [record : Records, label : Status, date : Dates, manifest : BOOLEAN]

NoWork ==
    [record |-> 0, page |-> 1, pages |-> 0, todo |-> <<>>, items |-> <<>>,
     listed |-> <<>>, dates |-> <<>>,
     copy |-> [k \in Records |-> NoRow]]

Nothing ==
    [records |-> 0, manifests |-> 0, listed |-> <<>>,
     states |-> [s \in Status |-> 0], events |-> 0, queue |-> {},
     reviewed |-> 0, manifested |-> 0, eventTotal |-> 0, exported |-> <<>>,
     status |-> "new", explained |-> {}]

NoStart == [asked |-> {}, date |-> <<>>, commits |-> 0]

TypeOK ==
    /\ date \in Seq(Dates) /\ Len(date) <= MaxRecords
    /\ row \in Rows
    /\ events \in Seq(Event)
    /\ manifest \subseteq DOMAIN date
    /\ commits \in 0..MaxCommits
    /\ plan \subseteq Sections
    /\ work.copy \in Rows
    /\ work.todo \in Seq(DOMAIN date)
    /\ shown.listed \in Seq([record : DOMAIN date, label : Status])
    /\ shown.queue \subseteq Item
    /\ past \subseteq Rows
    /\ steady \in BOOLEAN

(* Syncs have stored some records, and nobody has looked at them.          *)
Init ==
    /\ \E n \in Stored : date \in [1..n -> Dates]
    /\ row = [k \in Records |-> NoRow]
    /\ events = <<>>
    /\ manifest \in SUBSET DOMAIN date
    /\ commits = 0
    /\ pc = "idle"
    /\ plan = {}
    /\ work = NoWork
    /\ shown = Nothing
    /\ start = NoStart
    /\ past = {}
    /\ steady = TRUE

-------------------------------------------------------------------------------
(* Commits of others.  A sync that stores several records in one commit is *)
(* several of these with no SELECT between them.                           *)

Commit ==
    /\ commits < MaxCommits
    /\ commits' = commits + 1
    /\ past' = IF "triage" \in start.asked THEN past \cup {row'} ELSE past
    /\ UNCHANGED <<request, start>>

Planned(k, attached) == IF attached THEN manifest \cup {k} ELSE manifest

StoreRecord(d, attached) ==
    /\ Len(date) < MaxRecords
    /\ date' = Append(date, d)
    /\ manifest' = Planned(Len(date) + 1, attached)
    /\ UNCHANGED <<row, events, steady>>
    /\ Commit

UpdateRecord(k, d, attached) ==
    /\ date' = [date EXCEPT ![k] = d]
    /\ manifest' = Planned(k, attached)
    /\ steady' = (steady /\ ("records" \in start.asked => d = date[k]))
    /\ UNCHANGED <<row, events>>
    /\ Commit

(* A transition: its row and its event in one commit.  Lifecycle says from *)
(* where; two that race may go from anywhere to anywhere.                  *)
Review(k, to) ==
    /\ row' = [row EXCEPT ![k] = to]
    /\ events' = Append(events, [record |-> k, to |-> to])
    /\ UNCHANGED <<date, manifest, steady>>
    /\ Commit

(* Somebody else opens the page of a record nobody has reviewed.           *)
OpenRow(k) ==
    /\ row[k] = NoRow
    /\ row' = [row EXCEPT ![k] = "new"]
    /\ UNCHANGED <<date, events, manifest, steady>>
    /\ Commit

-------------------------------------------------------------------------------
(* The frame of a request.                                                 *)

First(sections) ==
    CHOOSE s \in sections : \A t \in sections : Position[s] <= Position[t]

Begin(sections, k) ==
    /\ pc = "idle"
    /\ plan' = sections
    /\ pc' = FirstStep[First(sections)]
    /\ work' = [NoWork EXCEPT !.record = k]
    /\ start' = [asked |-> sections, date |-> date, commits |-> commits]
    /\ past' = IF "triage" \in sections THEN {row} ELSE {}
    /\ steady' = TRUE
    /\ UNCHANGED <<db, shown>>

Look(next, read) ==
    /\ pc' = next
    /\ work' = read
    /\ UNCHANGED <<db, plan, shown, history>>

Show(next, answer) ==
    /\ pc' = next
    /\ shown' = answer
    /\ UNCHANGED <<db, plan, work, history>>

EndSection(answer) ==
    /\ shown' = answer
    /\ work' = NoWork
    /\ plan' = plan \ {First(plan)}
    /\ pc' = IF plan' = {} THEN "done" ELSE FirstStep[First(plan')]
    /\ UNCHANGED <<db, history>>

Deliver ==
    /\ pc = "done"
    /\ pc' = "idle"
    /\ shown' = Nothing
    /\ start' = NoStart
    /\ past' = {}
    /\ steady' = TRUE
    /\ UNCHANGED <<db, plan, work>>

-------------------------------------------------------------------------------
(* The workspace summary.                                                  *)

CountRecords ==
    /\ pc = "record_count"
    /\ Show("manifest_count", [shown EXCEPT !.records = Len(date)])

CountManifests ==
    /\ pc = "manifest_count"
    /\ EndSection([shown EXCEPT !.manifests = Cardinality(manifest)])

(* The listing: page after page, ordered by received_at and id, newest     *)
(* first.                                                                  *)

Precedes(d, i, j) == d[i] > d[j] \/ (d[i] = d[j] /\ i > j)

NewestFirst(d) ==
    CHOOSE s \in [DOMAIN d -> DOMAIN d] :
        \A i, j \in DOMAIN s : i < j => Precedes(d, s[i], s[j])

Smaller(a, b) == IF a < b THEN a ELSE b

Size == Smaller(MaxExport, PageSize)

(* Mutant: the offset makes up for records that came after the count.      *)
MakesUp(page) ==
    (page - 1 + (Len(date) + Size - 1) \div Size - work.pages) * Size

Offset(page) == (page - 1) * Size

PageRows(page) ==
    SubSeq(NewestFirst(date), Offset(page) + 1,
           Smaller(Offset(page) + Size, Len(date)))

PagesOf(total) == (total + Size - 1) \div Size

CountPage ==
    /\ pc = "page_count"
    /\ Look("page_rows", [work EXCEPT !.pages = PagesOf(Len(date))])

ReadPage ==
    /\ pc = "page_rows"
    /\ Look("item", [work EXCEPT !.todo = PageRows(work.page), !.items = <<>>])

ReadItem ==
    /\ pc = "item"
    /\ work.todo # <<>>
    /\ LET k == Head(work.todo)
           item == [record |-> k, label |-> Label(row[k])]
       IN  Look("item", [work EXCEPT !.todo = Tail(@),
                                     !.items = Append(@, item)])

Taken(listed, items) ==
    SubSeq(listed \o items, 1, Smaller(MaxExport, Len(listed) + Len(items)))

(* Mutant: the last page is forgotten.                                     *)
BeforeLast(listed, items, page, pages) ==
    Len(listed) < MaxExport /\ items # <<>> /\ page + 1 < pages

MorePages(listed, items, page, pages) ==
    Len(listed) < MaxExport /\ items # <<>> /\ page < pages

EndPage ==
    LET listed == Taken(work.listed, work.items)
    IN  /\ pc = "item"
        /\ work.todo = <<>>
        /\ IF MorePages(listed, work.items, work.page, work.pages)
           THEN Look("page_count", [work EXCEPT !.listed = listed,
                                                !.page = @ + 1,
                                                !.items = <<>>])
           ELSE EndSection([shown EXCEPT !.listed = listed])

(* The lifecycle summary.                                                  *)

CountStates ==
    /\ pc = "states"
    /\ LET holds(s) == {k \in Records : row[k] = s}
       IN  Show("events", [shown EXCEPT !.states =
                              [s \in Status |-> Cardinality(holds(s))]])

CountEvents ==
    /\ pc = "events"
    /\ EndSection([shown EXCEPT !.events = Len(events)])

(* The triage queue: all states, all records, then the manifests record by *)
(* record.  The summary first builds a page, of which only counts whether  *)
(* it is empty.                                                            *)

ProbeQueue ==
    /\ pc = "queue_probe"
    /\ IF date = <<>> THEN EndSection(shown) ELSE Look("queue_states", work)

ReadStates ==
    /\ pc = "queue_states"
    /\ Look("queue_records", [work EXCEPT !.copy = row])

(* Mutant: the state of a record is read with its manifest.                *)
LabelNow(k) == Label(row[k])

QueueLabel(k) == Label(work.copy[k])

ReadRecords ==
    /\ pc = "queue_records"
    /\ Look("queue_item", [work EXCEPT !.todo = [k \in DOMAIN date |-> k],
                                       !.items = <<>>, !.dates = date])

ReadQueueItem ==
    /\ pc = "queue_item"
    /\ work.todo # <<>>
    /\ LET k == Head(work.todo)
           item == [record |-> k, label |-> QueueLabel(k),
                    date |-> work.dates[k], manifest |-> k \in manifest]
       IN  Look("queue_item", [work EXCEPT !.todo = Tail(@),
                                           !.items = Append(@, item)])

(* The queue is sorted by this score.  Whether a record's source is known  *)
(* (15 if not) and its tool (20 if not) is not modelled: "extra".          *)
(* Mutant: the signs of closed records are forgotten.                      *)
AllCount ==
    [new |-> 30, in_review |-> 20, reviewed |-> 20, needs_follow_up |-> 50,
     ignored |-> 30]

LifecycleWeight ==
    [new |-> 30, in_review |-> 20, reviewed |-> -20, needs_follow_up |-> 50,
     ignored |-> -30]

IsOverdue(i) ==
    /\ i.label \in {"new", "in_review", "needs_follow_up"}
    /\ i.date \in 1..OlderBefore - 1

Extra == {0, 15, 20, 15 + 20}

Score(i, extra) ==
    LifecycleWeight[i.label]
    + (IF i.date # 0 /\ i.date >= RecentFrom THEN 10 ELSE 0)
    + (IF IsOverdue(i) THEN 25 ELSE 0)
    + (IF i.manifest THEN 5 ELSE 10)
    + extra

EndQueue ==
    /\ pc = "queue_item"
    /\ work.todo = <<>>
    /\ EndSection([shown EXCEPT !.queue =
                      {work.items[i] : i \in DOMAIN work.items}])

(* The attachment summary.                                                 *)

ReadManifestRecords ==
    /\ pc = "manifest_records"
    /\ Look("manifest", [work EXCEPT !.todo = [k \in DOMAIN date |-> k]])

ReadManifest ==
    /\ pc = "manifest"
    /\ work.todo # <<>>
    /\ LET has == Head(work.todo) \in manifest
       IN  Look("manifest", [work EXCEPT !.todo = Tail(@),
                                         !.items = Append(@, has)])

EndAttachments ==
    /\ pc = "manifest"
    /\ work.todo = <<>>
    /\ LET with == {i \in DOMAIN work.items : work.items[i]}
       IN  EndSection([shown EXCEPT !.reviewed = Len(work.items),
                                    !.manifested = Cardinality(with)])

(* The event section.                                                      *)

CountEventTotal ==
    /\ pc = "event_total"
    /\ Show("event_rows", [shown EXCEPT !.eventTotal = Len(events)])

ReadEventRows ==
    /\ pc = "event_rows"
    /\ EndSection([shown EXCEPT !.exported =
           SubSeq(events, Len(events) + 1 - Smaller(MaxExport, Len(events)),
                  Len(events))])

(* The page of a record.  It opens the row, which writes one that is not   *)
(* there, reads it again after the commit, and reads the newest events.    *)

ReadRow ==
    /\ pc = "row"
    /\ Look("commit_row", [work EXCEPT !.copy = row])

Refused == work.copy[work.record] = NoRow /\ row[work.record] # NoRow

CommitRow ==
    /\ pc = "commit_row"
    /\ ~Refused
    /\ row' = [row EXCEPT ![work.record] = Label(@)]
    /\ pc' = "refresh_row"
    /\ UNCHANGED <<date, events, manifest, commits, plan, work, shown,
                   history>>

(* Two first looks at a record: the second INSERT fails, and the request.  *)
FailPage ==
    /\ pc = "commit_row"
    /\ Refused
    /\ pc' = "idle"
    /\ plan' = {}
    /\ work' = NoWork
    /\ start' = NoStart
    /\ past' = {}
    /\ steady' = TRUE
    /\ UNCHANGED <<db, shown>>

RefreshRow ==
    /\ pc = "refresh_row"
    /\ Show("history", [shown EXCEPT !.status = Label(row[work.record])])

(* Mutant: the page shows the oldest events but those of the first page.   *)
SecondPage(k) ==
    {events[i].to : i \in {j \in DOMAIN events :
        events[j].record = k /\ Cardinality({m \in j..Len(events) :
            events[m].record = k}) > HistoryPage}}

NewestEvents(k) ==
    {events[i].to : i \in {j \in DOMAIN events :
        events[j].record = k /\ Cardinality({m \in j..Len(events) :
            events[m].record = k}) <= HistoryPage}}

ReadHistory ==
    /\ pc = "history"
    /\ EndSection([shown EXCEPT !.explained = NewestEvents(work.record)])

-------------------------------------------------------------------------------

OtherCommit ==
    \/ \E d \in Dates, attached \in BOOLEAN :
          \/ StoreRecord(d, attached)
          \/ \E k \in DOMAIN date : UpdateRecord(k, d, attached)
    \/ \E k \in DOMAIN date : OpenRow(k) \/ \E to \in Targets : Review(k, to)

Next ==
    \/ OtherCommit
    \/ \E sections \in Requests : Begin(sections, 0)
    \/ \E k \in DOMAIN date : Begin({"detail"}, k)
    \/ CountRecords \/ CountManifests
    \/ CountPage \/ ReadPage \/ ReadItem \/ EndPage
    \/ CountStates \/ CountEvents
    \/ ProbeQueue \/ ReadStates \/ ReadRecords \/ ReadQueueItem \/ EndQueue
    \/ ReadManifestRecords \/ ReadManifest \/ EndAttachments
    \/ CountEventTotal \/ ReadEventRows
    \/ ReadRow \/ CommitRow \/ FailPage \/ RefreshRow \/ ReadHistory
    \/ Deliver

Spec == Init /\ [][Next]_vars

-------------------------------------------------------------------------------
Answered(section) == pc = "done" /\ section \in start.asked

(* The labels of a triage queue are all of one moment of the request, with *)
(* records that arrived later as new: nobody sees a record reviewed next   *)
(* to another one's status that was over by then.  (The listing, which     *)
(* reads the states record by record, does not promise this.)              *)
TriageIsSnapshot ==
    Answered("triage") =>
        \E then \in past :
            \A i \in shown.queue : i.label = Label(then[i.record])

(* What is closed never stands before what waits: neither before a record  *)
(* that needs follow-up nor before an overdue one, whatever else they      *)
(* score for.                                                              *)
WaitingFirst ==
    \A i, j \in shown.queue, x, y \in Extra :
        /\ i.label = "needs_follow_up" \/ i.date \in 1..OlderBefore - 1
        /\ i.label \in {"new", "in_review", "needs_follow_up"}
        /\ j.label \in {"reviewed", "ignored"}
        => Score(i, x) > Score(j, y)

(* Records that arrive while an export lists them page by page push others *)
(* to a later page, or end the listing early because its number of pages   *)
(* was counted before.  They never make a hole: whoever comes before a     *)
(* listed record is listed, among the records of the beginning and as long *)
(* as none of them is dated anew.                                          *)
Listed == {shown.listed[i].record : i \in DOMAIN shown.listed}

ListingHasNoHoles ==
    Answered("records") /\ steady =>
        \A i, j \in DOMAIN start.date :
            Precedes(start.date, i, j) /\ j \in Listed => i \in Listed

(* With nobody committing, the listing is the newest records, each once,   *)
(* up to the limit of the export.                                          *)
QuietListingIsExact ==
    Answered("records") /\ start.commits = commits =>
        [i \in DOMAIN shown.listed |-> shown.listed[i].record]
            = SubSeq(NewestFirst(date), 1, Smaller(MaxExport, Len(date)))

(* The status the page of a record shows is "new" or is where some event   *)
(* on the page led, the newest or an earlier one: the row is read before   *)
(* the events, and a transition commits both.  (It could be neither, were  *)
(* HistoryPage transitions committed between the two SELECTs; the bound on *)
(* commits is below.)                                                      *)
DetailExplained ==
    Answered("detail") =>
        shown.status = "new" \/ shown.status \in shown.explained

Both(first, second) ==
    pc = "done" /\ {first, second} \subseteq start.asked

(* The sections of a packet are not of one moment, but they are in order:  *)
(* a later one never knows fewer records, manifests or transitions.        *)
LaterSectionsKnowMore ==
    /\ Both("intake", "triage") => shown.records <= Cardinality(shown.queue)
    /\ Both("triage", "attachments") =>
           Cardinality(shown.queue) <= shown.reviewed
    /\ Both("intake", "attachments") => shown.manifests <= shown.manifested
    /\ Both("lifecycle", "events") => shown.events <= shown.eventTotal
    /\ Answered("lifecycle") =>
           shown.states["in_review"] + shown.states["reviewed"]
           + shown.states["needs_follow_up"] + shown.states["ignored"]
               <= shown.events

(* An export lists every record of its beginning, if its limit allows.     *)
ListingIsComplete ==
    Answered("records") /\ steady /\ Len(shown.listed) < MaxExport =>
        DOMAIN start.date \subseteq Listed

(* docs/intake-review-workspace.md: "All workspace routes are GET-only     *)
(* [...] performs no local database mutation".                             *)
ViewsWriteNothing ==
    [][pc \notin {"idle", "done"} /\ commits' = commits => UNCHANGED row]_vars
===============================================================================
