------------------------------ MODULE Attachments ------------------------------
(***************************************************************************)
(* The attachments of one intake item: the manifest rows of                *)
(* app/services/attachment_storage.py (table attachment_objects, one row   *)
(* per attachment by a unique constraint) and the files the local storage  *)
(* provider writes.  Items do not share files: the storage key holds the   *)
(* connection, the project and the item, and within an item only the       *)
(* sanitised filename, so that two attachments may share a key.            *)
(*                                                                         *)
(* A sync plans all attachments of the item in one transaction, the plan   *)
(* route plans one under a name of the caller's; a download looks for the  *)
(* file, writes it, reads it back for the checksum and commits.  Database  *)
(* and file system share no transaction, and a process may die between     *)
(* any two steps.                                                          *)
(*                                                                         *)
(* The contents of a file are a function of its key and the label of the   *)
(* download; a checksum stands for the contents it was computed from.      *)
(* The local provider is configured and may write bytes.  Sizes, types,    *)
(* URLs, owners and failure texts are left out: no branch reads them.      *)
(***************************************************************************)
EXTENDS Naturals, OrmSession

CONSTANTS
    Attached,     \* the attachments of the item at the source
    Names,        \* sanitised filenames
    SourceName,   \* the filename of each attachment at the source
    Labels,       \* fixture labels a download may be asked with
    Planners,     \* concurrent syncs and plan requests
    Downloaders,  \* concurrent download requests
    Renames,      \* whether the plan route may be given another filename
    NoRow, NoFile

Torn == "torn"    \* a file whose write was cut short
NoSum == "none"

Contents == Labels \cup {Torn}

(* "skipped" is in the code's set of statuses, but nothing assigns it.     *)
DownloadStatus == {"planned", "downloaded", "failed"}

Row == [name : Names, status : DownloadStatus, sum : Contents \cup {NoSum}]

ASSUME AttachmentsAssumption ==
    /\ SourceName \in [Attached -> Names]
    /\ Renames \in BOOLEAN
    /\ NoRow \notin Row
    /\ NoFile \notin Contents
    /\ NoSum \notin Contents
    /\ Torn \notin Labels

VARIABLES
    rows,   \* attachment_objects
    files,  \* the storage root, by filename
    wish,   \* what a planner plans: a filename for each attachment in it
    found,  \* the rows a planner has found so far
    step,   \* where each download is
    task    \* what each download works on

vars == <<rows, files, wish, found, step, task>>

Nothing == [a \in {} |-> NoRow]

Idle == [a |-> NoRow, copy |-> NoRow, label |-> Torn, sum |-> NoSum]

Task == [a     : Attached \cup {NoRow},
         copy  : Row \cup {NoRow},
         label : Contents,
         sum   : Contents \cup {NoSum}]

TypeOK ==
    /\ rows \in [Attached -> Row \cup {NoRow}]
    /\ files \in [Names -> Contents \cup {NoFile}]
    /\ DOMAIN wish = Planners /\ DOMAIN found = Planners
    /\ \A p \in Planners :
           /\ DOMAIN found[p] \subseteq DOMAIN wish[p]
           /\ DOMAIN wish[p] \subseteq Attached
           /\ wish[p] \in [DOMAIN wish[p] -> Names]
           /\ found[p] \in [DOMAIN found[p] -> Row \cup {NoRow}]
    /\ step \in [Downloaders -> {"idle", "loaded", "absent", "open", "written", "summed"}]
    /\ task \in [Downloaders -> Task]

Init ==
    /\ rows = [a \in Attached |-> NoRow]
    /\ files = [n \in Names |-> NoFile]
    /\ wish = [p \in Planners |-> Nothing]
    /\ found = [p \in Planners |-> Nothing]
    /\ step = [d \in Downloaders |-> "idle"]
    /\ task = [d \in Downloaders |-> Idle]

-------------------------------------------------------------------------------
(* Planning *)

Begin(p, names) ==
    /\ wish[p] = Nothing
    /\ wish' = [wish EXCEPT ![p] = names]
    /\ UNCHANGED <<rows, files, found, step, task>>

StartSync(p) == Begin(p, SourceName)

StartPlan(p) ==
    \E a \in Attached, n \in Names :
        /\ n = SourceName[a] \/ Renames
        /\ Begin(p, [b \in {a} |-> n])

(* One lookup by the attachment's identity; the order is the source's and  *)
(* is left open.                                                           *)
Find(p) ==
    /\ \E a \in DOMAIN wish[p] \ DOMAIN found[p] :
           found' = [found EXCEPT ![p] =
                        [b \in DOMAIN found[p] \cup {a} |->
                            IF b = a THEN rows[a] ELSE found[p][b]]]
    /\ UNCHANGED <<rows, files, wish, step, task>>

(* Mutant: planning starts the attachment over.                            *)
StartedOver(copy, n) == [name |-> n, status |-> "planned", sum |-> NoSum]

(* The row create_attachment_manifest_record makes of what it has found.   *)
Planned(copy, n) ==
    IF copy = NoRow
    THEN [name |-> n, status |-> "planned", sum |-> NoSum]
    ELSE [copy EXCEPT !.name = n,
                      !.status = IF @ = "downloaded" THEN @ ELSE "planned"]

EndPlan(p) ==
    /\ wish' = [wish EXCEPT ![p] = Nothing]
    /\ found' = [found EXCEPT ![p] = Nothing]
    /\ UNCHANGED <<step, task>>

(* Every row of the plan is written, or none: an INSERT of an attachment   *)
(* that has a row by now ends the whole transaction.                       *)
CommitPlan(p) ==
    /\ wish[p] # Nothing
    /\ DOMAIN found[p] = DOMAIN wish[p]
    /\ \A a \in DOMAIN wish[p] : found[p][a] = NoRow => rows[a] = NoRow
    /\ rows' = [a \in Attached |->
                   IF a \notin DOMAIN wish[p] THEN rows[a]
                   ELSE IF found[p][a] = NoRow THEN Planned(NoRow, wish[p][a])
                   ELSE Flush(rows[a], found[p][a], Planned(found[p][a], wish[p][a]))]
    /\ UNCHANGED files
    /\ EndPlan(p)

(* The constraint, any other error, or the death of the process.           *)
AbandonPlan(p) ==
    /\ wish[p] # Nothing
    /\ UNCHANGED <<rows, files>>
    /\ EndPlan(p)

-------------------------------------------------------------------------------
(* Downloading *)

Load(d) ==
    /\ step[d] = "idle"
    /\ \E a \in Attached, l \in Labels :
           /\ rows[a] # NoRow
           /\ task' = [task EXCEPT ![d] = [a |-> a, copy |-> rows[a],
                                           label |-> l, sum |-> NoSum]]
    /\ step' = [step EXCEPT ![d] = "loaded"]
    /\ UNCHANGED <<rows, files, wish, found>>

File(d) == files[task[d].copy.name]

(* Mutant: a file that is there is replaced.                               *)
MayReplace(d) == TRUE

MayWrite(d) == File(d) = NoFile

LookForFile(d) ==
    /\ step[d] = "loaded"
    /\ MayWrite(d)
    /\ step' = [step EXCEPT ![d] = "absent"]
    /\ UNCHANGED <<rows, files, wish, found, task>>

Finish(d, new) ==
    /\ rows' = [rows EXCEPT ![task[d].a] = Flush(@, task[d].copy, new)]
    /\ step' = [step EXCEPT ![d] = "idle"]
    /\ task' = [task EXCEPT ![d] = Idle]
    /\ UNCHANGED <<files, wish, found>>

(* The file exists: the row is marked failed and the request refused.      *)
Refuse(d) ==
    /\ step[d] = "loaded"
    /\ ~MayWrite(d)
    /\ Finish(d, [task[d].copy EXCEPT !.status = "failed"])

OpenFile(d) ==
    /\ step[d] = "absent"
    /\ files' = [files EXCEPT ![task[d].copy.name] = Torn]
    /\ step' = [step EXCEPT ![d] = "open"]
    /\ UNCHANGED <<rows, wish, found, task>>

WriteFile(d) ==
    /\ step[d] = "open"
    /\ files' = [files EXCEPT ![task[d].copy.name] = task[d].label]
    /\ step' = [step EXCEPT ![d] = "written"]
    /\ UNCHANGED <<rows, wish, found, task>>

(* Mutant: the checksum is taken before the write.                         *)
ReadBefore(d) ==
    /\ step[d] = "absent"
    /\ task' = [task EXCEPT ![d].sum = File(d)]
    /\ step' = [step EXCEPT ![d] = "summed"]
    /\ UNCHANGED <<rows, files, wish, found>>

(* calculate_sha256 reads the file again.                                  *)
ReadBack(d) ==
    /\ step[d] = "written"
    /\ task' = [task EXCEPT ![d].sum = File(d)]
    /\ step' = [step EXCEPT ![d] = "summed"]
    /\ UNCHANGED <<rows, files, wish, found>>

CommitDownload(d) ==
    /\ step[d] = "summed"
    /\ Finish(d, [task[d].copy EXCEPT !.status = "downloaded", !.sum = task[d].sum])

(* The process dies, or the write fails with an error of the operating     *)
(* system, which no handler expects: the row stays as it is, and a file    *)
(* whose write has begun stays incomplete.                                 *)
CrashDownload(d) ==
    /\ step[d] # "idle"
    /\ step' = [step EXCEPT ![d] = "idle"]
    /\ task' = [task EXCEPT ![d] = Idle]
    /\ UNCHANGED <<rows, files, wish, found>>

Next ==
    \/ \E p \in Planners :
           StartSync(p) \/ StartPlan(p) \/ Find(p) \/ CommitPlan(p) \/ AbandonPlan(p)
    \/ \E d \in Downloaders :
           \/ Load(d) \/ LookForFile(d) \/ Refuse(d) \/ OpenFile(d)
           \/ WriteFile(d) \/ ReadBack(d) \/ CommitDownload(d) \/ CrashDownload(d)

Spec == Init /\ [][Next]_vars

(* What nothing in the code sees to: that no two downloads under way are   *)
(* for one filename, be it of one attachment or of two.  Downloads of      *)
(* different names run side by side, and those of one name follow another. *)
Apart ==
    \A d, e \in Downloaders :
        step[d] # "idle" /\ step[e] # "idle" /\ d # e
            => task[d].copy.name # task[e].copy.name

ApartSpec == Init /\ [][Next /\ Apart']_vars

-------------------------------------------------------------------------------
Downloaded(a) == rows[a] # NoRow /\ rows[a].status = "downloaded"

(* What the manifest calls downloaded is in the storage, complete, and has *)
(* the checksum of the row: while downloads of one filename keep Apart and *)
(* filenames do not change, through overlapping syncs, crashes, repeated   *)
(* downloads and two attachments of one name.  Two downloads of one name   *)
(* that both find no file break it, and so does the plan route giving an   *)
(* attachment another name (docs/attachment-storage.md: "`downloaded`: the *)
(* explicit fixture operation wrote deterministic fake bytes and a         *)
(* checksum"): the row moves on to a key nobody has written.               *)
DownloadedIsThere ==
    \A a \in Attached :
        Downloaded(a) => /\ rows[a].sum # NoSum
                         /\ files[rows[a].name] = rows[a].sum

(* Two attachments whose sanitised names agree are not both called         *)
(* downloaded on the strength of one file, as long as their downloads keep *)
(* Apart: the second finds the file of the first and is refused, also      *)
(* after a crash or an overlapping sync.  The check and the write are two  *)
(* steps, and downloads that overlap both find no file.                    *)
OneFileEach ==
    \A a, b \in Attached :
        Downloaded(a) /\ Downloaded(b) /\ a # b => rows[a].name # rows[b].name

(* A sync or a plan never takes an attachment back from downloaded to      *)
(* planned, however old the row is it has found; only a second download,   *)
(* which is refused, marks it failed.  Without Apart one of two downloads  *)
(* of an attachment may be refused before the other commits, and a sync    *)
(* that finds it failed in between plans it anew.                          *)
PlanningKeepsDownloads ==
    [][\A a \in Attached : Downloaded(a) => rows'[a].status # "planned"]_vars

(* docs/attachment-storage.md: "`planned`: metadata and storage            *)
(* destination exist; no bytes were written."  Once no download of it is   *)
(* under way, an attachment that shares its name with no other is planned  *)
(* only if there is no file.                                               *)
PlannedHasNoBytes ==
    \A a \in Attached :
        rows[a] # NoRow /\ rows[a].status = "planned"
            => \/ files[rows[a].name] = NoFile
               \/ \E d \in Downloaders : task[d].a = a
               \/ \E b \in Attached \ {a} : SourceName[b] = SourceName[a]

(* docs/attachment-storage.md: "Files are not overwritten unless           *)
(* `PROCORE_INTAKE_ATTACHMENT_ALLOW_OVERWRITE=true`."                      *)
FilesStay ==
    [][\A n \in Names : files[n] # NoFile /\ files[n] # Torn
           => files'[n] = files[n]]_vars
===============================================================================
