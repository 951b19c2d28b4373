------------------------------- MODULE Lifecycle -------------------------------
(***************************************************************************)
(* The review lifecycle of one intake record:                              *)
(* app/services/intake_lifecycle.py over the tables intake_review_states   *)
(* (one row per record, by a unique constraint) and                        *)
(* intake_review_lifecycle_events.  Records do not touch one another.      *)
(*                                                                         *)
(* Every request has its own session.  It reads the row without a lock,    *)
(* decides on what it read, and writes in one commit.  Showing a record    *)
(* writes too: it creates the row, or repairs a row that an older release  *)
(* left with a label of its own vocabulary.                                *)
(*                                                                         *)
(* The lifecycle is enabled and its tables are there.  Actor, summary and  *)
(* timestamps are left out: no branch reads them.  A summary that is       *)
(* refused for its text is one of the ways Abandon ends a request.         *)
(***************************************************************************)
EXTENDS Naturals, Sequences, OrmSession

CONSTANTS
    Reviewers,      \* concurrent requests for a transition
    Viewers,        \* concurrent requests that show the record
    DefaultStatus,  \* intake_lifecycle_default_status
    MaxEvents,      \* intake_lifecycle_max_events_per_record
    Stored,         \* rows and histories an older release may have left
    MaxHistory,     \* bound: no transition is asked for past this history
    NoRow           \* there is no row of this record

Status == {"new", "in_review", "reviewed", "needs_follow_up", "ignored"}

LegacyStatus == [blocked |-> "needs_follow_up", completed |-> "reviewed"]

Reason == {"follow_up_needed", "demo_placeholder_reason"}
NoReason == "none"

Requests == Reviewers \cup Viewers

(* A label outside both vocabularies: any other text of the column.        *)
StoredStatus == Status \cup DOMAIN LegacyStatus \cup {"unsupported"}
StoredReason == Reason \cup {NoReason, "j2_demo_fixture"}

Row   == [status : StoredStatus, reason : StoredReason, count : Nat]
Event == [from : StoredStatus, to : StoredStatus, reason : StoredReason]

NewRow == [status |-> DefaultStatus, reason |-> NoReason, count |-> 0]

ASSUME LifecycleAssumption ==
    /\ Reviewers \cap Viewers = {}
    /\ DefaultStatus \in Status
    /\ MaxEvents \in Nat \ {0}
    /\ MaxHistory \in Nat
    /\ NoRow \notin Row
    /\ Stored \subseteq [row : Row \cup {NoRow}, events : Seq(Event)]

VARIABLES
    state,     \* the row of intake_review_states
    events,    \* intake_review_lifecycle_events, in the order of the commits
    pc,        \* what each request has done
    want,      \* the transition a reviewer asks for
    copy,      \* the row as a request has read it
    overtaken, \* history: who read the row before another's transition
    contested  \* history: one of them made its transition all the same

historyVars == <<overtaken, contested>>
vars == <<state, events, pc, want, copy, historyVars>>

NoWish == [to |-> DefaultStatus, reason |-> NoReason]

TypeOK ==
    /\ state \in Row \cup {NoRow}
    /\ events \in Seq(Event)
    /\ pc \in [Requests -> {"idle", "read"}]
    /\ want \in [Reviewers -> [to : Status, reason : Reason \cup {NoReason}]]
    /\ copy \in [Requests -> Row \cup {NoRow}]
    /\ overtaken \in SUBSET Reviewers
    /\ contested \in BOOLEAN

Init ==
    /\ \E old \in Stored : state = old.row /\ events = old.events
    /\ pc = [r \in Requests |-> "idle"]
    /\ want = [r \in Reviewers |-> NoWish]
    /\ copy = [r \in Requests |-> NoRow]
    /\ overtaken = {}
    /\ contested = FALSE

-------------------------------------------------------------------------------
(* Labels of older releases, and labels nobody knows.                      *)

NormalStatus(s) ==
    CASE s \in Status              -> s
      [] s \in DOMAIN LegacyStatus -> LegacyStatus[s]
      [] OTHER                     -> "needs_follow_up"

(* Mutant: both old labels become one new label.                           *)
OneLabel(s) == IF s \in DOMAIN LegacyStatus THEN "needs_follow_up" ELSE s

RepairedStatus(s) == IF s \in DOMAIN LegacyStatus THEN LegacyStatus[s] ELSE s
RepairedReason(y) == IF y = "j2_demo_fixture" THEN "demo_placeholder_reason" ELSE y

(* Mutant: the repair of the events swaps two columns.                     *)
SwappedColumns(es) ==
    [k \in DOMAIN es |-> [from   |-> RepairedStatus(es[k].from),
                          to     |-> RepairedReason(es[k].reason),
                          reason |-> RepairedStatus(es[k].to)]]

RepairedEvents(es) ==
    [k \in DOMAIN es |-> [from   |-> RepairedStatus(es[k].from),
                          to     |-> RepairedStatus(es[k].to),
                          reason |-> RepairedReason(es[k].reason)]]

(* The object a session works on: a new row, or the one it read, repaired. *)
Opened(row) ==
    IF row = NoRow THEN NewRow
    ELSE [row EXCEPT !.status = NormalStatus(@), !.reason = RepairedReason(@)]

-------------------------------------------------------------------------------

AllowedTransitions ==
    [s \in Status |->
        CASE s = "new" -> {"in_review", "reviewed", "needs_follow_up", "ignored"}
          [] s = "in_review" -> {"reviewed", "needs_follow_up", "ignored"}
          [] s = "reviewed" -> {"in_review", "needs_follow_up"}
          [] s = "needs_follow_up" -> {"in_review", "reviewed", "ignored"}
          [] s = "ignored" -> {"in_review"}]

Read(r) ==
    /\ pc[r] = "idle"
    /\ pc' = [pc EXCEPT ![r] = "read"]
    /\ copy' = [copy EXCEPT ![r] = state]
    /\ UNCHANGED <<state, events, historyVars>>

ReadToReview(r) ==
    /\ Len(events) < MaxHistory
    /\ \E s \in Status, y \in Reason :
           want' = [want EXCEPT ![r] = [to |-> s, reason |-> y]]
    /\ Read(r)

ReadToView(r) ==
    /\ Read(r)
    /\ UNCHANGED want

EndRequest(r) ==
    /\ pc' = [pc EXCEPT ![r] = "idle"]
    /\ copy' = [copy EXCEPT ![r] = NoRow]
    /\ want' = [q \in Reviewers |-> IF q = r THEN NoWish ELSE want[q]]

(* Mutant: a viewer's first row replaces one that is there.                *)
NoConflict(r) == FALSE

(* An INSERT of a second row of the record violates the constraint.        *)
Conflict(r) == copy[r] = NoRow /\ state # NoRow

(* The row after a session that made its copy "new" commits.               *)
Written(r, new) == IF copy[r] = NoRow THEN new ELSE Flush(state, copy[r], new)

History(r) == IF copy[r] = NoRow THEN events ELSE RepairedEvents(events)

(* Mutant: the limit is checked one event too late.                        *)
OneEventMore(row, wish) ==
    /\ row.count <= MaxEvents
    /\ wish.to \in AllowedTransitions[row.status]

Acceptable(row, wish) ==
    /\ row.count < MaxEvents
    /\ wish.to \in AllowedTransitions[row.status]

Transition(r) ==
    LET old == Opened(copy[r])
        new == [status |-> want[r].to, reason |-> want[r].reason,
                count  |-> old.count + 1]
    IN  /\ pc[r] = "read"
        /\ ~Conflict(r)
        /\ Acceptable(old, want[r])
        /\ state' = Written(r, new)
        /\ events' = Append(History(r), [from   |-> old.status,
                                         to     |-> want[r].to,
                                         reason |-> want[r].reason])
        /\ EndRequest(r)
        /\ overtaken' = {q \in Reviewers \ {r} : pc[q] = "read"}
        /\ contested' = (contested \/ r \in overtaken)

Show(r) ==
    /\ pc[r] = "read"
    /\ ~Conflict(r)
    /\ state' = Written(r, Opened(copy[r]))
    /\ events' = History(r)
    /\ EndRequest(r)
    /\ UNCHANGED historyVars

(* Mutant: an INSERT that meets a row is made up for on that row, but the  *)
(* event went with the rollback.                                           *)
CountConflict(r) ==
    /\ pc[r] = "read"
    /\ Conflict(r)
    /\ state' = [state EXCEPT !.count = @ + 1]
    /\ EndRequest(r)
    /\ overtaken' = overtaken \ {r}
    /\ UNCHANGED <<events, contested>>

(* Everything that rolls the session back: the transition is refused, the  *)
(* INSERT meets a row, the database fails, the process dies.               *)
Abandon(r) ==
    /\ pc[r] = "read"
    /\ EndRequest(r)
    /\ overtaken' = overtaken \ {r}
    /\ UNCHANGED <<state, events, contested>>

(* Migration 0003: the known labels, in the database itself.               *)
Migrate ==
    /\ state' = IF state = NoRow THEN NoRow
                ELSE [state EXCEPT !.status = RepairedStatus(@),
                                   !.reason = RepairedReason(@)]
    /\ events' = RepairedEvents(events)
    /\ UNCHANGED <<pc, want, copy, historyVars>>

Next ==
    \/ \E r \in Reviewers : ReadToReview(r) \/ Transition(r)
    \/ \E v \in Viewers : ReadToView(v) \/ Show(v)
    \/ \E r \in Requests : Abandon(r)
    \/ Migrate

Spec == Init /\ [][Next]_vars

(* Nobody shows the record while its row has a label of an older release.  *)
NewLabel(row) == row # NoRow => RepairedStatus(row.status) = row.status

ShowsNewLabels ==
    \A v \in Viewers : pc[v] = "idle" /\ pc'[v] = "read" => NewLabel(state)

QuietSpec == Init /\ [][Next /\ ShowsNewLabels]_vars

-------------------------------------------------------------------------------
(* The current status of a record is where its last recorded transition    *)
(* went, whoever raced with whom: the later commit writes its status even  *)
(* over a row it has not seen, because no transition ends where it began,  *)
(* and a viewer's first row never replaces a reviewer's.                   *)
StatusIsLastEvent ==
    events # <<>> => state # NoRow /\ state.status = events[Len(events)].to

(* event_count, which the limit is checked against, is the length of the   *)
(* history as long as no reviewer commits a transition decided on a row    *)
(* that another's has replaced: of two who find no row, one is refused,    *)
(* and what viewers and refusals do is not counted.  After such a commit   *)
(* it falls behind, and never runs ahead: nobody is refused too early.     *)
CountWithinHistory ==
    state # NoRow => /\ state.count <= Len(events)
                     /\ ~contested => state.count = Len(events)

(* With any number of reviewers and viewers, and on rows of an older       *)
(* release that the migration repairs while reviewers work and before      *)
(* anybody looks, the record does what ReviewRecord promises, the less     *)
(* from when a reviewer commits over another's transition; what the row    *)
(* shows is the end of its history, however its labels are spelled.        *)
Seen(row) == IF row = NoRow THEN NewRow ELSE Opened(row)

Promise == INSTANCE ReviewRecord WITH
    Graph   <- {e \in Status \X Status : e[2] \in AllowedTransitions[e[1]]},
    Origins <- {[status |-> Seen(old.row).status, reason |-> Seen(old.row).reason,
                 walk   |-> RepairedEvents(old.events)] : old \in Stored},
    Why     <- Reason,
    Limit   <- MaxEvents,
    status  <- Seen(state).status,
    reason  <- Seen(state).reason,
    walk    <- RepairedEvents(events),
    blind   <- contested

ImplementsPromise == Promise!Spec

(* docs/intake-lifecycle-status-flow.md: "Every accepted transition:       *)
(* 1. validates the fixed transition graph".  Of two transitions that read *)
(* the same row, the second takes the record along an edge that is not in  *)
(* the graph.                                                              *)
StatusFollowsGraph ==
    [][state # NoRow /\ state'.status # state.status
           => state'.status \in AllowedTransitions[state.status]]_vars

(* "The bounded lifecycle event limit was reached.": two transitions that  *)
(* read the same count both pass the check.                                *)
HistoryBounded == Len(events) <= MaxEvents

(* docs/intake-lifecycle-status-flow.md: "Read paths also represent an     *)
(* un-migrated known value safely while the migration is pending".  The    *)
(* read path repairs the row, from a copy a transition has since replaced. *)
ViewsKeepStatus ==
    [][(\E v \in Viewers : pc[v] = "read" /\ pc'[v] = "idle") /\ state # NoRow
           => NormalStatus(state'.status) = NormalStatus(state.status)]_vars
===============================================================================
