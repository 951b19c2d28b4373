------------------------------ MODULE ProfileEdits ------------------------------
(***************************************************************************)
(* PollingWorker with the PATCH of a profile as the two steps it is        *)
(* (app/routers/sync_profiles.py, update_sync_profile): the session loads  *)
(* the profile, applies the fields of the request to its copy and looks at *)
(* that, and its commit writes the columns that have changed.  Each source *)
(* of a profile is a column of its own.                                    *)
(*                                                                         *)
(* It also has a source of coarser timestamps than the clock of the        *)
(* worker: an item may change within the very time a request began.        *)
(***************************************************************************)
EXTENDS PollingWorker

CONSTANTS
    Editors,     \* concurrent PATCH requests
    CoarseClock  \* whether an item may bear the time of the moment

VARIABLE edit    \* what each editor has loaded and made of it

NoEdit == [p |-> AnyProfile, copy |-> NoRow, new |-> NoRow]

EditInit == Init /\ edit = [e \in Editors |-> NoEdit]

(* The request sets some of the fields and leaves a source on.             *)
LoadAndSet(e, p) ==
    /\ edit[e] = NoEdit
    /\ spent.patch < MaxPatches
    /\ spent' = [spent EXCEPT !.patch = @ + 1]
    /\ \E on \in BOOLEAN, ts \in SUBSET Tools \ {{}} :
        edit' = [edit EXCEPT ![e] =
            [p |-> p, copy |-> profiles[p],
             new |-> [profiles[p] EXCEPT !.enabled = on, !.tools = ts]]]
    /\ UNCHANGED <<profiles, rec, stamp, now, workerVars, adhoc, since, abandoned>>

(* The sources after a session that loaded "old" commits "new".            *)
FlushTools(row, old, new) == (row \ (old \ new)) \cup (new \ old)

CommitEdit(e) ==
    LET x == edit[e] IN
    /\ x # NoEdit
    /\ profiles' = [profiles EXCEPT
           ![x.p] = [Flush(@, x.copy, x.new) EXCEPT
                         !.tools = FlushTools(profiles[x.p].tools, x.copy.tools, x.new.tools)]]
    /\ edit' = [edit EXCEPT ![e] = NoEdit]
    /\ UNCHANGED <<rec, stamp, now, workerVars, adhoc, historyVars>>

(* An item changes within the time that is now.                            *)
UpdateNow(i) ==
    /\ CoarseClock
    /\ stamp[i] # now
    /\ stamp' = [stamp EXCEPT ![i] = now]
    /\ UNCHANGED <<profiles, rec, now, workerVars, adhoc, historyVars, edit>>

Poll ==
    /\ \/ \E w \in Workers : StartDue(w) \/ Advance(w) \/ Crash(w)
       \/ \E i \in Items : Update(i)
       \/ Tick
    /\ UNCHANGED edit

EditNext ==
    \/ Poll
    \/ \E e \in Editors : CommitEdit(e) \/ \E p \in Profiles : LoadAndSet(e, p)
    \/ \E i \in Items : UpdateNow(i)

EditSpec == EditInit /\ [][EditNext]_<<vars, edit>>

-------------------------------------------------------------------------------
(* "At least one source must be enabled." (app/routers/sync_profiles.py).  *)
(* Two edits that each switch another source off both pass that check.     *)
SomeSourceOn == \A p \in Profiles : profiles[p].tools # {}

(* docs/polling-worker.md: the watermark is advanced so as to avoid        *)
(* "silent gaps after incomplete intake".  A profile has one watermark for *)
(* its sources: a source that is switched off, synced past and switched on *)
(* again has a gap.                                                        *)
NoGapWhereOn ==
    \A p \in Profiles : profiles[p].watermark # NoTime =>
        \A i \in Scope[p] :
            /\ ToolOf[i] \in profiles[p].tools
            /\ since[p] < stamp[i] /\ stamp[i] <= profiles[p].watermark
            => rec[i] = stamp[i]
===============================================================================
