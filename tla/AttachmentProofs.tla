---------------------------- MODULE AttachmentProofs ----------------------------
(***************************************************************************)
(* Proofs about Attachments.  While downloads of one filename keep apart   *)
(* and filenames stay, the manifest and the storage agree whatever the     *)
(* syncs and the downloads of other names do.  The argument is that a      *)
(* file, once it is there, keeps a download of its name from starting, so  *)
(* that a download under way is the only writer of its file and no row     *)
(* can count on that file yet.                                             *)
(***************************************************************************)
EXTENDS Attachments, TLAPS

(* The plan route gives no attachment another filename.                    *)
NamesFixed == ~Renames

LEMMA FlushType ==
    ASSUME NEW row \in Row, NEW old \in Row, NEW new \in Row
    PROVE  /\ Flush(row, old, new) \in Row
           /\ Flush(row, old, new).name =
                  IF new.name # old.name THEN new.name ELSE row.name
           /\ Flush(row, old, new).status =
                  IF new.status # old.status THEN new.status ELSE row.status
           /\ Flush(row, old, new).sum =
                  IF new.sum # old.sum THEN new.sum ELSE row.sum
BY DEF Flush, Row

LEMMA PlannedType ==
    ASSUME NEW old \in Row \cup {NoRow}, NEW n \in Names
    PROVE  /\ Planned(old, n) \in Row
           /\ Planned(old, n).name = n
           /\ old = NoRow => /\ Planned(old, n).status = "planned"
                             /\ Planned(old, n).sum = NoSum
           /\ old # NoRow => /\ Planned(old, n).sum = old.sum
                             /\ old.status = "downloaded"
                                    => Planned(old, n).status = "downloaded"
                             /\ old.status # "downloaded"
                                    => Planned(old, n).status = "planned"
BY AttachmentsAssumption DEF Planned, Row, DownloadStatus, Contents

-------------------------------------------------------------------------------
(* Types, and what has been loaded or found is still there. *)

Working(d) ==
    /\ task[d].a \in Attached
    /\ task[d].copy \in Row
    /\ task[d].label \in Labels
    /\ rows[task[d].a] # NoRow
    /\ step[d] \in {"open", "written", "summed"} => File(d) # NoFile

TypeInv ==
    /\ TypeOK
    /\ \A d \in Downloaders : step[d] # "idle" => Working(d)
    /\ \A d \in Downloaders : step[d] = "summed" => task[d].sum \in Contents
    /\ \A p \in Planners : \A a \in DOMAIN found[p] :
           found[p][a] # NoRow => rows[a] # NoRow

LEMMA TypeInvInit == Init => TypeInv
<1>1. Nothing = [a \in {} |-> NoRow] /\ DOMAIN Nothing = {}
  BY DEF Nothing
<1>2. /\ Nothing \in [DOMAIN Nothing -> Names]
      /\ Nothing \in [DOMAIN Nothing -> Row \cup {NoRow}]
  BY <1>1
<1>3. Idle \in Task
  BY DEF Idle, Task, Contents
<1> QED
  BY <1>1, <1>2, <1>3 DEF Init, TypeInv, TypeOK

LEMMA BeginParts ==
    ASSUME TypeInv, NEW p \in Planners, StartSync(p) \/ StartPlan(p)
    PROVE  /\ UNCHANGED <<rows, files, found, step, task>>
           /\ DOMAIN wish' = Planners
           /\ DOMAIN wish'[p] \subseteq Attached
           /\ wish'[p] \in [DOMAIN wish'[p] -> Names]
           /\ DOMAIN found[p] = {}
           /\ NamesFixed => \A a \in DOMAIN wish'[p] : wish'[p][a] = SourceName[a]
           /\ \A q \in Planners \ {p} : wish'[q] = wish[q]
<1>1. DOMAIN found[p] \subseteq DOMAIN wish[p]
  BY DEF TypeInv, TypeOK
<1>2. DOMAIN Nothing = {}
  BY DEF Nothing
<1>3. ASSUME NEW names, Begin(p, names)
      PROVE  /\ UNCHANGED <<rows, files, found, step, task>>
             /\ DOMAIN wish' = Planners
             /\ wish'[p] = names
             /\ DOMAIN found[p] = {}
             /\ \A q \in Planners \ {p} : wish'[q] = wish[q]
  BY <1>1, <1>2, <1>3 DEF Begin, TypeInv, TypeOK
<1>4. CASE StartSync(p)
  <2>1. SourceName \in [Attached -> Names] /\ DOMAIN SourceName = Attached
    BY AttachmentsAssumption
  <2> QED
    BY <1>3, <1>4, <2>1 DEF StartSync
<1>5. CASE StartPlan(p)
  <2>1. PICK a \in Attached, n \in Names :
            (n = SourceName[a] \/ Renames) /\ Begin(p, [b \in {a} |-> n])
    BY <1>5 DEF StartPlan
  <2>2. wish'[p] = [b \in {a} |-> n]
    BY <1>3, <2>1
  <2> QED
    BY <1>3, <2>1, <2>2 DEF NamesFixed
<1> QED
  BY <1>4, <1>5

LEMMA FindParts ==
    ASSUME TypeInv, NEW p \in Planners, Find(p)
    PROVE  /\ UNCHANGED <<rows, files, wish, step, task>>
           /\ DOMAIN found' = Planners
           /\ DOMAIN found'[p] \subseteq DOMAIN wish[p]
           /\ \A q \in Planners \ {p} : found'[q] = found[q]
           /\ found'[p] \in [DOMAIN found'[p] -> Row \cup {NoRow}]
           /\ \A a \in DOMAIN found'[p] :
                  \/ a \in DOMAIN found[p] /\ found'[p][a] = found[p][a]
                  \/ a \in Attached /\ found'[p][a] = rows[a]
<1>1. PICK a \in DOMAIN wish[p] \ DOMAIN found[p] :
          found' = [found EXCEPT ![p] =
                        [b \in DOMAIN found[p] \cup {a} |->
                            IF b = a THEN rows[a] ELSE found[p][b]]]
  BY DEF Find
<1>2. /\ UNCHANGED <<rows, files, wish, step, task>>
      /\ DOMAIN found = Planners
      /\ DOMAIN found[p] \subseteq DOMAIN wish[p] /\ DOMAIN wish[p] \subseteq Attached
      /\ found[p] \in [DOMAIN found[p] -> Row \cup {NoRow}]
      /\ rows \in [Attached -> Row \cup {NoRow}]
  BY DEF Find, TypeInv, TypeOK
<1>3. found'[p] = [b \in DOMAIN found[p] \cup {a} |->
                       IF b = a THEN rows[a] ELSE found[p][b]]
  BY <1>1, <1>2
<1>4. \A q \in Planners \ {p} : found'[q] = found[q]
  BY <1>1, <1>2
<1>5. DOMAIN found' = Planners
  BY <1>1, <1>2
<1> QED
  BY <1>1, <1>2, <1>3, <1>4, <1>5

LEMMA EndPlanParts ==
    ASSUME TypeInv, NEW p \in Planners, EndPlan(p)
    PROVE  /\ step' = step /\ task' = task
           /\ DOMAIN wish' = Planners /\ DOMAIN found' = Planners
           /\ DOMAIN wish'[p] = {} /\ DOMAIN found'[p] = {}
           /\ wish'[p] \in [DOMAIN wish'[p] -> Names]
           /\ found'[p] \in [DOMAIN found'[p] -> Row \cup {NoRow}]
           /\ \A q \in Planners \ {p} : wish'[q] = wish[q] /\ found'[q] = found[q]
<1>1. wish'[p] = Nothing /\ found'[p] = Nothing
  BY DEF EndPlan, TypeInv, TypeOK
<1>2. DOMAIN Nothing = {} /\ Nothing = [a \in {} |-> NoRow]
  BY DEF Nothing
<1> QED
  BY <1>1, <1>2 DEF EndPlan, TypeInv, TypeOK

(* What a plan does to a row.                                              *)
LEMMA CommitPlanParts ==
    ASSUME TypeInv, NEW p \in Planners, CommitPlan(p)
    PROVE  /\ EndPlan(p) /\ files' = files
           /\ rows' \in [Attached -> Row \cup {NoRow}]
           /\ \A a \in Attached : rows[a] # NoRow => rows'[a] # NoRow
           /\ \A a \in Attached :
                  \/ rows'[a] = rows[a]
                  \/ /\ a \in DOMAIN wish[p] /\ rows[a] = NoRow
                     /\ rows'[a] = Planned(NoRow, wish[p][a])
                  \/ /\ a \in DOMAIN wish[p] /\ a \in DOMAIN found[p]
                     /\ rows[a] \in Row /\ found[p][a] \in Row
                     /\ rows'[a] = Flush(rows[a], found[p][a],
                                         Planned(found[p][a], wish[p][a]))
<1>1. /\ DOMAIN found[p] = DOMAIN wish[p] /\ DOMAIN wish[p] \subseteq Attached
      /\ wish[p] \in [DOMAIN wish[p] -> Names]
      /\ found[p] \in [DOMAIN found[p] -> Row \cup {NoRow}]
      /\ rows \in [Attached -> Row \cup {NoRow}]
      /\ \A a \in DOMAIN found[p] : found[p][a] # NoRow => rows[a] # NoRow
  BY DEF CommitPlan, TypeInv, TypeOK
<1>2. /\ \A a \in DOMAIN wish[p] : found[p][a] = NoRow => rows[a] = NoRow
      /\ EndPlan(p) /\ files' = files
      /\ rows' = [a \in Attached |->
                   IF a \notin DOMAIN wish[p] THEN rows[a]
                   ELSE IF found[p][a] = NoRow THEN Planned(NoRow, wish[p][a])
                   ELSE Flush(rows[a], found[p][a], Planned(found[p][a], wish[p][a]))]
  BY DEF CommitPlan
<1>3. ASSUME NEW a \in Attached
      PROVE  \/ rows'[a] = rows[a]
             \/ /\ a \in DOMAIN wish[p] /\ rows[a] = NoRow
                /\ rows'[a] = Planned(NoRow, wish[p][a])
                /\ rows'[a] \in Row
             \/ /\ a \in DOMAIN wish[p] /\ a \in DOMAIN found[p]
                /\ rows[a] \in Row /\ found[p][a] \in Row
                /\ rows'[a] = Flush(rows[a], found[p][a],
                                    Planned(found[p][a], wish[p][a]))
                /\ rows'[a] \in Row
  <2>1. CASE a \notin DOMAIN wish[p]
    BY <1>2, <2>1
  <2>2. CASE a \in DOMAIN wish[p] /\ found[p][a] = NoRow
    <3>1. Planned(NoRow, wish[p][a]) \in Row
      BY <1>1, <2>2, PlannedType
    <3> QED
      BY <1>1, <1>2, <2>2, <3>1
  <2>3. CASE a \in DOMAIN wish[p] /\ found[p][a] # NoRow
    <3>1. found[p][a] \in Row /\ rows[a] \in Row /\ wish[p][a] \in Names
      BY <1>1, <2>3
    <3>2. Planned(found[p][a], wish[p][a]) \in Row
      BY <3>1, PlannedType
    <3>3. Flush(rows[a], found[p][a], Planned(found[p][a], wish[p][a])) \in Row
      BY <3>1, <3>2, FlushType
    <3> QED
      BY <1>1, <1>2, <2>3, <3>1, <3>3
  <2> QED
    BY <2>1, <2>2, <2>3
<1>4. rows' \in [Attached -> Row \cup {NoRow}]
  <2>1. \A a \in Attached : rows'[a] \in Row \cup {NoRow}
    BY <1>1, <1>3
  <2>2. rows' = [a \in Attached |-> rows'[a]]
    BY <1>2
  <2> QED
    BY <2>1, <2>2
<1> QED
  BY <1>2, <1>3, <1>4, AttachmentsAssumption

LEMMA FinishParts ==
    ASSUME TypeInv, NEW d \in Downloaders, step[d] # "idle", NEW new \in Row,
           Finish(d, new)
    PROVE  /\ UNCHANGED <<files, wish, found>>
           /\ rows' \in [Attached -> Row \cup {NoRow}]
           /\ rows[task[d].a] \in Row
           /\ rows'[task[d].a] = Flush(rows[task[d].a], task[d].copy, new)
           /\ rows'[task[d].a] \in Row
           /\ \A a \in Attached \ {task[d].a} : rows'[a] = rows[a]
           /\ step' \in [Downloaders ->
                             {"idle", "loaded", "absent", "open", "written", "summed"}]
           /\ task' \in [Downloaders -> Task]
           /\ step'[d] = "idle"
           /\ \A e \in Downloaders \ {d} : step'[e] = step[e] /\ task'[e] = task[e]
<1>1. Idle \in Task
  BY DEF Idle, Task, Contents
<1>2. task[d].a \in Attached /\ task[d].copy \in Row /\ rows[task[d].a] \in Row
  BY DEF TypeInv, Working, TypeOK
<1>3. Flush(rows[task[d].a], task[d].copy, new) \in Row
  BY <1>2, FlushType
<1> QED
  BY <1>1, <1>2, <1>3 DEF Finish, TypeInv, TypeOK

(* The steps of a download that leave the rows alone.                      *)
Quiet(d) == Load(d) \/ LookForFile(d) \/ OpenFile(d) \/ WriteFile(d)
            \/ ReadBack(d) \/ CrashDownload(d)

LEMMA QuietParts ==
    ASSUME TypeInv, NEW d \in Downloaders, Quiet(d)
    PROVE  /\ UNCHANGED <<rows, wish, found>>
           /\ files' \in [Names -> Contents \cup {NoFile}]
           /\ \A n \in Names : files[n] # NoFile => files'[n] # NoFile
           /\ step' \in [Downloaders ->
                             {"idle", "loaded", "absent", "open", "written", "summed"}]
           /\ task' \in [Downloaders -> Task]
           /\ \A e \in Downloaders \ {d} : step'[e] = step[e] /\ task'[e] = task[e]
           /\ step'[d] # "idle" => Working(d)'
           /\ step'[d] = "summed" => task'[d].sum \in Contents
<1>1. CASE Load(d)
  <2>1. PICK a \in Attached, l \in Labels :
            /\ rows[a] # NoRow
            /\ task' = [task EXCEPT ![d] = [a |-> a, copy |-> rows[a],
                                            label |-> l, sum |-> NoSum]]
    BY <1>1 DEF Load
  <2>2. rows[a] \in Row
    BY <2>1 DEF TypeInv, TypeOK
  <2>3. [a |-> a, copy |-> rows[a], label |-> l, sum |-> NoSum] \in Task
    BY <2>2 DEF Task, Contents
  <2>4. /\ task'[d] = [a |-> a, copy |-> rows[a], label |-> l, sum |-> NoSum]
        /\ step'[d] = "loaded"
    BY <1>1, <2>1 DEF Load, TypeInv, TypeOK
  <2>5. Working(d)'
    BY <1>1, <2>1, <2>2, <2>4 DEF Working, Load
  <2> QED
    BY <1>1, <2>1, <2>3, <2>4, <2>5 DEF Load, TypeInv, TypeOK
<1>2. CASE LookForFile(d)
  BY <1>2 DEF LookForFile, TypeInv, TypeOK, Working
<1>3. CASE OpenFile(d)
  <2>1. task[d].copy.name \in Names /\ Torn \in Contents /\ Torn # NoFile
    BY <1>3, AttachmentsAssumption DEF OpenFile, TypeInv, Working, Row, Contents
  <2> QED
    BY <1>3, <2>1 DEF OpenFile, TypeInv, TypeOK, Working, File
<1>4. CASE WriteFile(d)
  <2>1. /\ task[d].copy.name \in Names
        /\ task[d].label \in Contents /\ task[d].label # NoFile
    BY <1>4, AttachmentsAssumption DEF WriteFile, TypeInv, Working, Row, Contents
  <2> QED
    BY <1>4, <2>1 DEF WriteFile, TypeInv, TypeOK, Working, File
<1>5. CASE ReadBack(d)
  <2>1. task[d].copy.name \in Names /\ File(d) # NoFile /\ task[d] \in Task
    BY <1>5 DEF ReadBack, TypeInv, TypeOK, Working, Row
  <2>2. File(d) \in Contents
    BY <2>1 DEF File, TypeInv, TypeOK
  <2>3. /\ task'[d] = [task[d] EXCEPT !.sum = File(d)]
        /\ step'[d] = "summed"
        /\ UNCHANGED <<rows, files, wish, found>>
    BY <1>5 DEF ReadBack, TypeInv, TypeOK
  <2>4. /\ task'[d] \in Task /\ task'[d].sum = File(d)
        /\ task'[d].a = task[d].a /\ task'[d].copy = task[d].copy
        /\ task'[d].label = task[d].label
    BY <2>1, <2>2, <2>3 DEF Task
  <2>5. step[d] = "written"
    BY <1>5 DEF ReadBack
  <2>6. Working(d)'
    BY <2>1, <2>3, <2>4, <2>5 DEF Working, TypeInv, File
  <2> QED
    BY <1>5, <2>2, <2>3, <2>4, <2>6 DEF ReadBack, TypeInv, TypeOK
<1>6. CASE CrashDownload(d)
  <2>1. Idle \in Task
    BY DEF Idle, Task, Contents
  <2> QED
    BY <1>6, <2>1 DEF CrashDownload, TypeInv, TypeOK
<1> QED
  BY <1>1, <1>2, <1>3, <1>4, <1>5, <1>6 DEF Quiet

(* Either end of a download, as the row it leaves.                         *)
Refused(d) == [task[d].copy EXCEPT !.status = "failed"]
Done(d) == [task[d].copy EXCEPT !.status = "downloaded", !.sum = task[d].sum]

LEMMA EndParts ==
    ASSUME TypeInv, NEW d \in Downloaders
    PROVE  /\ Refuse(d) => /\ step[d] = "loaded" /\ ~MayWrite(d)
                           /\ Refused(d) \in Row /\ Finish(d, Refused(d))
           /\ CommitDownload(d) => /\ step[d] = "summed"
                                   /\ Done(d) \in Row /\ Finish(d, Done(d))
<1>1. step[d] # "idle" => Refused(d) \in Row
  BY DEF TypeInv, Working, Refused, Row, DownloadStatus
<1>2. step[d] = "summed" => Done(d) \in Row
  BY DEF TypeInv, Working, Done, Row, DownloadStatus
<1> QED
  BY <1>1, <1>2 DEF Refuse, CommitDownload, Refused, Done

LEMMA TypeInvNext == TypeInv /\ [Next]_vars => TypeInv'
<1> SUFFICES ASSUME TypeInv, [Next]_vars PROVE TypeInv'
  OBVIOUS
<1>1. ASSUME NEW p \in Planners, StartSync(p) \/ StartPlan(p) PROVE TypeInv'
  <2>1. \A q \in Planners :
           /\ DOMAIN found'[q] \subseteq DOMAIN wish'[q]
           /\ DOMAIN wish'[q] \subseteq Attached
           /\ wish'[q] \in [DOMAIN wish'[q] -> Names]
           /\ found'[q] \in [DOMAIN found'[q] -> Row \cup {NoRow}]
    <3> TAKE q \in Planners
    <3>1. CASE q = p
      BY <1>1, <3>1, BeginParts DEF TypeInv, TypeOK
    <3>2. CASE q # p
      BY <1>1, <3>2, BeginParts DEF TypeInv, TypeOK
    <3> QED
      BY <3>1, <3>2
  <2> QED
    BY <1>1, <2>1, BeginParts DEF TypeInv, TypeOK, Working, File
<1>2. ASSUME NEW p \in Planners, Find(p) PROVE TypeInv'
  <2>1. \A q \in Planners :
           /\ DOMAIN found'[q] \subseteq DOMAIN wish'[q]
           /\ DOMAIN wish'[q] \subseteq Attached
           /\ wish'[q] \in [DOMAIN wish'[q] -> Names]
           /\ found'[q] \in [DOMAIN found'[q] -> Row \cup {NoRow}]
           /\ \A a \in DOMAIN found'[q] : found'[q][a] # NoRow => rows'[a] # NoRow
    <3> TAKE q \in Planners
    <3>1. CASE q = p
      BY <1>2, <3>1, FindParts DEF TypeInv, TypeOK
    <3>2. CASE q # p
      BY <1>2, <3>2, FindParts DEF TypeInv, TypeOK
    <3> QED
      BY <3>1, <3>2
  <2> QED
    BY <1>2, <2>1, FindParts DEF TypeInv, TypeOK, Working, File
<1>3. ASSUME NEW p \in Planners, EndPlan(p), files' = files,
             rows' \in [Attached -> Row \cup {NoRow}],
             \A a \in Attached : rows[a] # NoRow => rows'[a] # NoRow
      PROVE TypeInv'
  <2>1. \A q \in Planners :
           /\ DOMAIN found'[q] \subseteq DOMAIN wish'[q]
           /\ DOMAIN wish'[q] \subseteq Attached
           /\ wish'[q] \in [DOMAIN wish'[q] -> Names]
           /\ found'[q] \in [DOMAIN found'[q] -> Row \cup {NoRow}]
           /\ \A a \in DOMAIN found'[q] : found'[q][a] # NoRow => rows'[a] # NoRow
    <3> TAKE q \in Planners
    <3>1. CASE q = p
      BY <1>3, <3>1, EndPlanParts DEF TypeInv, TypeOK
    <3>2. CASE q # p
      BY <1>3, <3>2, EndPlanParts DEF TypeInv, TypeOK
    <3> QED
      BY <3>1, <3>2
  <2>2. step' = step /\ task' = task /\ DOMAIN wish' = Planners /\ DOMAIN found' = Planners
    BY <1>3, EndPlanParts
  <2> QED
    BY <1>3, <2>1, <2>2 DEF TypeInv, TypeOK, Working, File
<1>4. ASSUME NEW p \in Planners, CommitPlan(p) PROVE TypeInv'
  BY <1>3, <1>4, CommitPlanParts
<1>5. ASSUME NEW p \in Planners, AbandonPlan(p) PROVE TypeInv'
  BY <1>3, <1>5 DEF AbandonPlan, TypeInv, TypeOK
<1>6. ASSUME NEW d \in Downloaders, Quiet(d) PROVE TypeInv'
  <2>1. \A e \in Downloaders :
            /\ step'[e] # "idle" => Working(e)'
            /\ step'[e] = "summed" => task'[e].sum \in Contents
    <3> TAKE e \in Downloaders
    <3>1. CASE e = d
      BY <1>6, <3>1, QuietParts
    <3>2. CASE e # d
      <4>1. step[e] # "idle" => task[e].copy.name \in Names
        BY DEF TypeInv, Working, Row
      <4> QED
        BY <1>6, <3>2, <4>1, QuietParts DEF TypeInv, Working, File
    <3> QED
      BY <3>1, <3>2
  <2> QED
    BY <1>6, <2>1, QuietParts DEF TypeInv, TypeOK
<1>7. ASSUME NEW d \in Downloaders, NEW new \in Row, step[d] # "idle", Finish(d, new)
      PROVE TypeInv'
  <2>1. \A a \in Attached : rows[a] # NoRow => rows'[a] # NoRow
    BY <1>7, FinishParts, AttachmentsAssumption
  <2> QED
    BY <1>7, <2>1, FinishParts DEF TypeInv, TypeOK, Working, File
<1>8. ASSUME NEW d \in Downloaders, Refuse(d) \/ CommitDownload(d) PROVE TypeInv'
  BY <1>7, <1>8, EndParts
<1>9. CASE UNCHANGED vars
  BY <1>9 DEF vars, TypeInv, TypeOK, Working, File
<1> QED
  BY <1>1, <1>2, <1>4, <1>5, <1>6, <1>8, <1>9 DEF Next, Quiet

(* Every state is well typed, whoever downloads and renames.               *)
THEOREM WellTyped == Spec => []TypeOK
<1>1. TypeInv => TypeOK
  BY DEF TypeInv
<1> QED
  BY <1>1, TypeInvInit, TypeInvNext, PTL DEF Spec

-------------------------------------------------------------------------------
(* The manifest and the storage, while downloads of one name keep apart. *)

Writing(d) == step[d] \in {"absent", "open", "written", "summed"}

(* A file that is there and that no download is writing.                   *)
Taken(n) ==
    /\ files[n] # NoFile
    /\ \A d \in Downloaders : Writing(d) => task[d].copy.name # n

NamesInv ==
    /\ \A a \in Attached : rows[a] # NoRow => rows[a].name = SourceName[a]
    /\ \A p \in Planners : \A a \in DOMAIN wish[p] : wish[p][a] = SourceName[a]
    /\ \A d \in Downloaders :
           step[d] # "idle" => task[d].copy.name = SourceName[task[d].a]

(* A checksum, once in a row, is that of the file.                         *)
SumsInv ==
    /\ \A a \in Attached :
           rows[a] # NoRow =>
               /\ rows[a].status = "downloaded" => rows[a].sum # NoSum
               /\ rows[a].sum # NoSum => /\ rows[a].sum \in Labels
                                         /\ files[SourceName[a]] = rows[a].sum
    /\ \A a, b \in Attached :
           /\ rows[a] # NoRow /\ rows[a].sum # NoSum
           /\ rows[b] # NoRow /\ rows[b].sum # NoSum
           /\ a # b
           => SourceName[a] # SourceName[b]

(* What a download has loaded, and what it knows of its file.              *)
Knows(d) ==
    /\ task[d].copy.status = "downloaded" => task[d].copy.sum # NoSum
    /\ task[d].copy.sum # NoSum => Taken(task[d].copy.name)
    /\ step[d] = "absent" => File(d) = NoFile
    /\ step[d] = "open" => File(d) = Torn
    /\ step[d] \in {"written", "summed"} => File(d) = task[d].label
    /\ step[d] = "summed" => task[d].sum = task[d].label
    /\ Writing(d) => \A b \in Attached :
           rows[b] # NoRow /\ SourceName[b] = task[d].copy.name
               => rows[b].sum = NoSum

DownloadInv == \A d \in Downloaders : step[d] # "idle" => Knows(d)

(* A download fails only where a file is in its way, and from then on no   *)
(* other download of that name begins.                                     *)
FailedInv ==
    /\ \A a \in Attached :
           rows[a] # NoRow /\ rows[a].status = "failed" => Taken(SourceName[a])
    /\ \A p \in Planners : \A a \in DOMAIN found[p] :
           found[p][a] # NoRow /\ found[p][a].status = "failed"
               => Taken(SourceName[a]) /\ ~Downloaded(a)

AgreeInv == NamesInv /\ SumsInv /\ DownloadInv /\ FailedInv

LEMMA AgreeImplies == TypeInv /\ AgreeInv => DownloadedIsThere /\ OneFileEach
BY DEF AgreeInv, NamesInv, SumsInv, DownloadedIsThere, OneFileEach, Downloaded, TypeInv, TypeOK

LEMMA AgreeInit == Init => AgreeInv
<1>1. DOMAIN Nothing = {}
  BY DEF Nothing
<1> QED
  BY <1>1 DEF Init, AgreeInv, NamesInv, SumsInv, DownloadInv, FailedInv, Downloaded

LEMMA AgreeBegin ==
    ASSUME NamesFixed, TypeInv, AgreeInv,
           NEW p \in Planners, StartSync(p) \/ StartPlan(p)
    PROVE  AgreeInv'
<1>1. \A q \in Planners : \A a \in DOMAIN wish'[q] : wish'[q][a] = SourceName[a]
  BY BeginParts DEF AgreeInv, NamesInv
<1>2. NamesInv'
  BY <1>1, BeginParts DEF AgreeInv, NamesInv
<1> QED
  BY <1>2, BeginParts
  DEF AgreeInv, SumsInv, DownloadInv, Knows, FailedInv, Taken, Writing, File, Downloaded

LEMMA AgreeFind ==
    ASSUME TypeInv, AgreeInv, NEW p \in Planners, Find(p)
    PROVE  AgreeInv'
<1>1. UNCHANGED <<rows, files, wish, step, task>>
  BY FindParts
<1>2. ASSUME NEW q \in Planners, NEW a \in DOMAIN found'[q],
             found'[q][a] # NoRow, found'[q][a].status = "failed"
      PROVE  Taken(SourceName[a]) /\ ~Downloaded(a)
  <2>1. CASE q # p
    BY <1>2, <2>1, FindParts DEF AgreeInv, FailedInv
  <2>2. CASE q = p /\ a \in DOMAIN found[p] /\ found'[p][a] = found[p][a]
    BY <1>2, <2>2 DEF AgreeInv, FailedInv
  <2>3. CASE q = p /\ a \in Attached /\ found'[p][a] = rows[a]
    BY <1>2, <2>3 DEF AgreeInv, FailedInv, Downloaded
  <2> QED
    BY <2>1, <2>2, <2>3, FindParts
<1> QED
  BY <1>1, <1>2
  DEF AgreeInv, NamesInv, SumsInv, DownloadInv, Knows, FailedInv, Taken, Writing, File, Downloaded

(* What a commit of a plan leaves of a row: its checksum, and its status   *)
(* unless that becomes planned, which happens to no downloaded row.        *)
LEMMA PlanEffect ==
    ASSUME TypeInv, AgreeInv, NEW p \in Planners, CommitPlan(p), NEW a \in Attached
    PROVE  /\ rows'[a] # NoRow => rows'[a].name = SourceName[a]
           /\ rows'[a] # NoRow /\ rows[a] = NoRow
                  => rows'[a].status = "planned" /\ rows'[a].sum = NoSum
           /\ rows[a] # NoRow
                  => /\ rows'[a] # NoRow
                     /\ rows'[a].sum = rows[a].sum
                     /\ \/ rows'[a].status = rows[a].status
                        \/ rows'[a].status = "planned" /\ ~Downloaded(a)
<1>1. CASE rows'[a] = rows[a]
  BY <1>1 DEF AgreeInv, NamesInv
<1>2. CASE /\ a \in DOMAIN wish[p] /\ rows[a] = NoRow
           /\ rows'[a] = Planned(NoRow, wish[p][a])
  <2>1. wish[p][a] \in Names /\ wish[p][a] = SourceName[a]
    BY <1>2 DEF TypeInv, TypeOK, AgreeInv, NamesInv
  <2> QED
    BY <1>2, <2>1, PlannedType
<1>3. CASE /\ a \in DOMAIN wish[p] /\ a \in DOMAIN found[p]
           /\ rows[a] \in Row /\ found[p][a] \in Row
           /\ rows'[a] = Flush(rows[a], found[p][a], Planned(found[p][a], wish[p][a]))
  <2>1. wish[p][a] \in Names /\ wish[p][a] = SourceName[a]
    BY <1>3 DEF TypeInv, TypeOK, AgreeInv, NamesInv
  <2>2. found[p][a] # NoRow /\ rows[a] # NoRow
    BY <1>3, AttachmentsAssumption
  <2> DEFINE new == Planned(found[p][a], wish[p][a])
  <2>3. /\ new \in Row /\ new.name = SourceName[a] /\ new.sum = found[p][a].sum
        /\ found[p][a].status = "downloaded" => new.status = "downloaded"
        /\ found[p][a].status # "downloaded" => new.status = "planned"
    BY <1>3, <2>1, <2>2, PlannedType
  <2>4. rows[a].name = SourceName[a]
    BY <2>2 DEF AgreeInv, NamesInv
  <2>5. /\ rows'[a] \in Row
        /\ rows'[a].name = IF new.name # found[p][a].name THEN new.name ELSE rows[a].name
        /\ rows'[a].status =
               IF new.status # found[p][a].status THEN new.status ELSE rows[a].status
        /\ rows'[a].sum = IF new.sum # found[p][a].sum THEN new.sum ELSE rows[a].sum
    BY <1>3, <2>3, FlushType
  <2>6. found[p][a].status \in {"planned", "downloaded", "failed"}
    BY <1>3 DEF Row, DownloadStatus
  <2>7. found[p][a].status = "failed" => ~Downloaded(a)
    BY <1>3, <2>2 DEF AgreeInv, FailedInv
  <2> QED
    BY <2>2, <2>3, <2>4, <2>5, <2>6, <2>7, AttachmentsAssumption
<1> QED
  BY <1>1, <1>2, <1>3, CommitPlanParts

LEMMA AgreePlanned ==
    ASSUME TypeInv, AgreeInv, NEW p \in Planners, CommitPlan(p) \/ AbandonPlan(p)
    PROVE  AgreeInv'
<1>1. EndPlan(p) /\ files' = files
  BY CommitPlanParts DEF AbandonPlan
<1>2. /\ step' = step /\ task' = task
      /\ DOMAIN wish'[p] = {} /\ DOMAIN found'[p] = {}
      /\ \A q \in Planners \ {p} : wish'[q] = wish[q] /\ found'[q] = found[q]
  BY <1>1, EndPlanParts
<1>3. ASSUME NEW a \in Attached
      PROVE  /\ rows'[a] # NoRow => rows'[a].name = SourceName[a]
             /\ rows'[a] # NoRow /\ rows[a] = NoRow
                    => rows'[a].status = "planned" /\ rows'[a].sum = NoSum
             /\ rows[a] # NoRow
                    => /\ rows'[a] # NoRow
                       /\ rows'[a].sum = rows[a].sum
                       /\ \/ rows'[a].status = rows[a].status
                          \/ rows'[a].status = "planned" /\ ~Downloaded(a)
  <2>1. CASE CommitPlan(p)
    BY <2>1, PlanEffect
  <2>2. CASE AbandonPlan(p)
    BY <2>2 DEF AbandonPlan, AgreeInv, NamesInv
  <2> QED
    BY <2>1, <2>2
<1>4. NamesInv'
  BY <1>2, <1>3 DEF AgreeInv, NamesInv
<1>5. SumsInv'
  <2>1. \A a \in Attached : rows'[a] # NoRow /\ rows'[a].sum # NoSum
            => rows[a] # NoRow /\ rows[a].sum = rows'[a].sum
    BY <1>3
  <2> QED
    BY <1>1, <1>3, <2>1 DEF AgreeInv, SumsInv
<1>6. \A n : Taken(n) => Taken(n)'
  BY <1>1, <1>2 DEF Taken, Writing
<1>7. DownloadInv'
  <2>1. \A b \in Attached : rows[b] # NoRow /\ rows[b].sum = NoSum => rows'[b].sum = NoSum
    BY <1>3
  <2> QED
    BY <1>1, <1>2, <1>3, <1>6, <2>1 DEF AgreeInv, DownloadInv, Knows, Writing, File
<1>8. \A a \in Attached : ~Downloaded(a) => ~Downloaded(a)'
  BY <1>3 DEF Downloaded
<1>9. FailedInv'
  <2>1. \A a \in Attached : rows'[a] # NoRow /\ rows'[a].status = "failed"
            => rows[a] # NoRow /\ rows[a].status = "failed"
    BY <1>3
  <2>2. ASSUME NEW q \in Planners, NEW a \in DOMAIN found'[q],
               found'[q][a] # NoRow, found'[q][a].status = "failed"
        PROVE  Taken(SourceName[a])' /\ ~Downloaded(a)'
    <3>1. q # p /\ found'[q] = found[q]
      BY <1>2, <2>2
    <3>2. a \in Attached
      BY <3>1 DEF TypeInv, TypeOK
    <3> QED
      BY <1>6, <1>8, <2>2, <3>1, <3>2 DEF AgreeInv, FailedInv
  <2>3. \A a \in Attached : rows'[a] # NoRow /\ rows'[a].status = "failed"
            => Taken(SourceName[a])'
    BY <1>6, <2>1 DEF AgreeInv, FailedInv
  <2> QED
    BY <2>2, <2>3 DEF FailedInv
<1> QED
  BY <1>4, <1>5, <1>7, <1>9 DEF AgreeInv

(* Another download under way is of another name.                          *)
LEMMA OtherName ==
    ASSUME Apart, NEW d \in Downloaders, step[d] # "idle"
    PROVE  \A e \in Downloaders \ {d} :
               step[e] # "idle" => task[e].copy.name # task[d].copy.name
BY DEF Apart

(* What a step of one download must leave alone for the others to know     *)
(* what they knew, and for a file to stay taken.                           *)
LEMMA OthersKnow ==
    ASSUME NEW e \in Downloaders,
           Knows(e), step'[e] = step[e], task'[e] = task[e],
           files'[task[e].copy.name] = files[task[e].copy.name],
           \A n \in Names : Taken(n) => Taken(n)',
           task[e].copy.name \in Names,
           \A b \in Attached : rows'[b] # NoRow /\ SourceName[b] = task[e].copy.name
               => \/ rows'[b].sum = NoSum
                  \/ rows[b] # NoRow /\ rows[b].sum = rows'[b].sum
    PROVE  Knows(e)'
BY DEF Knows, Writing, File

LEMMA StaysTaken ==
    ASSUME NEW d \in Downloaders, NEW n, Taken(n),
           \A e \in Downloaders \ {d} : step'[e] = step[e] /\ task'[e] = task[e],
           files'[n] # NoFile,
           Writing(d)' => task'[d].copy.name # n
    PROVE  Taken(n)'
BY DEF Taken, Writing

LEMMA AgreeQuiet ==
    ASSUME Apart, Apart', TypeInv, AgreeInv, NEW d \in Downloaders, Quiet(d)
    PROVE  AgreeInv'
<1>1. /\ UNCHANGED <<rows, wish, found>>
      /\ \A n \in Names : files[n] # NoFile => files'[n] # NoFile
      /\ files \in [Names -> Contents \cup {NoFile}]
      /\ task \in [Downloaders -> Task]
      /\ DOMAIN step = Downloaders
      /\ \A e \in Downloaders \ {d} : step'[e] = step[e] /\ task'[e] = task[e]
  BY QuietParts DEF TypeInv, TypeOK
<1>2. \A e \in Downloaders :
          step[e] # "idle" => /\ task[e].copy \in Row /\ task[e].copy.name \in Names
                              /\ task[e].label \in Labels
  BY DEF TypeInv, Working, Row
<1>3. Torn \notin Labels /\ Torn # NoFile /\ \A l \in Labels : l # NoFile /\ l # NoSum
  BY AttachmentsAssumption DEF Contents
<1> DEFINE Same(n) == files'[n] = files[n]
           Free(n) == \A e \in Downloaders \ {d} :
                          step[e] # "idle" => task[e].copy.name # n
           Goal == /\ NamesInv' /\ SumsInv'
                   /\ step'[d] # "idle" => Knows(d)'
                   /\ \A n \in Names : Taken(n) => Taken(n)'
                   /\ \A n \in Names : Same(n) \/ Free(n)
<1>4. Goal
  <2>1. CASE Load(d)
    <3>1. PICK a \in Attached, l \in Labels :
              /\ rows[a] # NoRow
              /\ task' = [task EXCEPT ![d] = [a |-> a, copy |-> rows[a],
                                              label |-> l, sum |-> NoSum]]
      BY <2>1 DEF Load
    <3>2. /\ task'[d] = [a |-> a, copy |-> rows[a], label |-> l, sum |-> NoSum]
          /\ step[d] = "idle" /\ step'[d] = "loaded" /\ files' = files
      BY <1>1, <2>1, <3>1 DEF Load
    <3>3. /\ rows[a].name = SourceName[a]
          /\ rows[a].status = "downloaded" => rows[a].sum # NoSum
          /\ rows[a].sum # NoSum => rows[a].sum \in Labels /\ files[SourceName[a]] = rows[a].sum
      BY <3>1 DEF AgreeInv, NamesInv, SumsInv
    <3>4. NamesInv' /\ SumsInv'
      BY <1>1, <3>2, <3>3 DEF AgreeInv, NamesInv, SumsInv
    <3>5. ~Writing(d)'
      BY <3>2 DEF Writing
    <3>6. \A e \in Downloaders \ {d} :
              step'[e] # "idle" => task'[e].copy.name # rows[a].name
      BY <3>2 DEF Apart
    <3>7. rows[a].sum # NoSum => Taken(rows[a].name)'
      <4>1. \A e \in Downloaders : Writing(e)' => task'[e].copy.name # rows[a].name
        BY <3>5, <3>6 DEF Writing
      <4> QED
        BY <1>1, <1>3, <3>2, <3>3, <4>1 DEF Taken
    <3>8. Knows(d)'
      BY <1>1, <3>2, <3>3, <3>5, <3>7 DEF Knows
    <3>9. ASSUME NEW n \in Names, Taken(n) PROVE Taken(n)'
      BY <1>1, <3>2, <3>5, <3>9, StaysTaken DEF Taken
    <3> QED
      BY <3>2, <3>4, <3>8, <3>9
  <2>2. CASE LookForFile(d)
    <3>1. /\ step[d] = "loaded" /\ step'[d] = "absent"
          /\ files' = files /\ task' = task
          /\ files[task[d].copy.name] = NoFile
      BY <1>1, <2>2 DEF LookForFile, MayWrite, File
    <3>2. NamesInv' /\ SumsInv'
      BY <1>1, <3>1 DEF AgreeInv, NamesInv, SumsInv
    <3>3. \A b \in Attached : rows[b] # NoRow /\ SourceName[b] = task[d].copy.name
              => rows[b].sum = NoSum
      BY <1>3, <3>1 DEF AgreeInv, SumsInv
    <3>4. ~Taken(task[d].copy.name) /\ Knows(d)
      BY <3>1 DEF Taken, AgreeInv, DownloadInv
    <3>5. Knows(d)'
      BY <1>1, <3>1, <3>3, <3>4 DEF Knows, Writing, File
    <3>6. ASSUME NEW n \in Names, Taken(n) PROVE Taken(n)'
      BY <1>1, <3>1, <3>4, <3>6, StaysTaken DEF Taken
    <3> QED
      BY <3>1, <3>2, <3>5, <3>6
  <2>3. ASSUME step[d] \in {"absent", "open"}, step'[d] \in {"open", "written"},
               task' = task, NEW c \in Contents,
               files' = [files EXCEPT ![task[d].copy.name] = c],
               step'[d] = "open" => c = Torn,
               step'[d] = "written" => c = task[d].label
        PROVE  Goal
    <3>1. Writing(d) /\ Writing(d)' /\ step[d] # "idle" /\ step'[d] # "idle"
      BY <2>3 DEF Writing
    <3>2. Knows(d) /\ ~Taken(task[d].copy.name)
      BY <3>1 DEF AgreeInv, DownloadInv, Taken
    <3>3. /\ task[d].copy.sum = NoSum
          /\ \A b \in Attached : rows[b] # NoRow /\ SourceName[b] = task[d].copy.name
                 => rows[b].sum = NoSum
      BY <3>1, <3>2 DEF Knows
    <3>4. /\ files'[task[d].copy.name] = c
          /\ \A n \in Names \ {task[d].copy.name} : files'[n] = files[n]
      BY <1>1, <1>2, <2>3, <3>1
    <3>5. NamesInv'
      BY <1>1, <2>3, <3>1 DEF AgreeInv, NamesInv
    <3>6. SumsInv'
      BY <1>1, <3>3, <3>4, AttachmentsAssumption DEF AgreeInv, SumsInv
    <3>7. Knows(d)'
      BY <1>1, <2>3, <3>1, <3>2, <3>3, <3>4 DEF Knows, File
    <3>8. ASSUME NEW n \in Names, Taken(n) PROVE Taken(n)'
      <4>1. n # task[d].copy.name
        BY <3>2, <3>8
      <4> QED
        BY <1>1, <2>3, <3>4, <3>8, <4>1, StaysTaken DEF Taken
    <3>9. Free(task[d].copy.name)
      BY <3>1, OtherName
    <3> QED
      BY <3>4, <3>5, <3>6, <3>7, <3>8, <3>9
  <2>4. CASE OpenFile(d)
    <3>1. Torn \in Contents
      BY DEF Contents
    <3> QED
      BY <1>1, <2>3, <2>4, <3>1 DEF OpenFile
  <2>5. CASE WriteFile(d)
    <3>1. step[d] = "open"
      BY <2>5 DEF WriteFile
    <3>2. task[d].label \in Contents
      BY <1>2, <3>1 DEF Contents
    <3> QED
      BY <1>1, <2>3, <2>5, <3>2 DEF WriteFile
  <2>6. CASE ReadBack(d)
    <3>1. step[d] = "written" /\ step'[d] = "summed" /\ files' = files
      BY <1>1, <2>6 DEF ReadBack
    <3>2. /\ task'[d].sum = File(d) /\ task'[d].copy = task[d].copy
          /\ task'[d].a = task[d].a /\ task'[d].label = task[d].label
      <4>1. task'[d] = [task[d] EXCEPT !.sum = File(d)]
        BY <1>1, <2>6 DEF ReadBack
      <4> QED
        BY <1>1, <4>1 DEF Task
    <3>3. Writing(d) /\ Writing(d)' /\ Knows(d) /\ File(d) = task[d].label
      BY <3>1 DEF Writing, AgreeInv, DownloadInv, Knows
    <3>4. NamesInv' /\ SumsInv'
      BY <1>1, <3>1, <3>2 DEF AgreeInv, NamesInv, SumsInv
    <3>5. ASSUME NEW n \in Names, Taken(n) PROVE Taken(n)'
      BY <1>1, <3>1, <3>2, <3>3, <3>5, StaysTaken DEF Taken
    <3>6. task[d].copy.name \in Names
      BY <1>2, <3>1
    <3>7. Knows(d)'
      BY <1>1, <3>1, <3>2, <3>3, <3>5, <3>6 DEF Knows, File
    <3> QED
      BY <3>1, <3>4, <3>5, <3>7
  <2>7. CASE CrashDownload(d)
    <3>1. step'[d] = "idle" /\ files' = files /\ ~Writing(d)'
      BY <1>1, <2>7 DEF CrashDownload, Writing
    <3>2. NamesInv' /\ SumsInv'
      BY <1>1, <3>1 DEF AgreeInv, NamesInv, SumsInv
    <3>3. ASSUME NEW n \in Names, Taken(n) PROVE Taken(n)'
      BY <1>1, <3>1, <3>3, StaysTaken DEF Taken
    <3> QED
      BY <3>1, <3>2, <3>3
  <2> QED
    BY <2>1, <2>2, <2>4, <2>5, <2>6, <2>7 DEF Quiet
<1>5. DownloadInv'
  <2> SUFFICES ASSUME NEW e \in Downloaders, step'[e] # "idle" PROVE Knows(e)'
    BY DEF DownloadInv
  <2>1. CASE e = d
    BY <1>4, <2>1
  <2>2. CASE e # d
    <3>1. /\ step'[e] = step[e] /\ task'[e] = task[e] /\ step[e] # "idle"
          /\ task[e].copy.name \in Names /\ Knows(e)
      BY <1>1, <1>2, <2>2 DEF AgreeInv, DownloadInv
    <3>2. files'[task[e].copy.name] = files[task[e].copy.name]
      BY <1>4, <2>2, <3>1
    <3> QED
      BY <1>1, <1>4, <3>1, <3>2, OthersKnow
  <2> QED
    BY <2>1, <2>2
<1>6. FailedInv'
  <2>1. SourceName \in [Attached -> Names]
    BY AttachmentsAssumption
  <2>2. \A p \in Planners : DOMAIN found[p] \subseteq Attached
    BY DEF TypeInv, TypeOK
  <2> QED
    BY <1>1, <1>4, <2>1, <2>2 DEF AgreeInv, FailedInv, Downloaded
<1> QED
  BY <1>4, <1>5, <1>6 DEF AgreeInv

LEMMA AgreeRefuse ==
    ASSUME Apart, TypeInv, AgreeInv, NEW d \in Downloaders, Refuse(d)
    PROVE  AgreeInv' /\ \A a \in Attached : Downloaded(a) => rows'[a].status # "planned"
<1> DEFINE a == task[d].a
           old == task[d].copy
<1>1. step[d] = "loaded" /\ files[old.name] # NoFile /\ Refused(d) \in Row
      /\ Finish(d, Refused(d))
  BY EndParts DEF MayWrite, File
<1>2. /\ UNCHANGED <<files, wish, found>>
      /\ rows[a] \in Row
      /\ rows'[a] = Flush(rows[a], old, Refused(d)) /\ rows'[a] \in Row
      /\ \A b \in Attached \ {a} : rows'[b] = rows[b]
      /\ step'[d] = "idle"
      /\ \A e \in Downloaders \ {d} : step'[e] = step[e] /\ task'[e] = task[e]
      /\ \A e \in Downloaders \ {d} :
             step[e] # "idle" => task[e].copy.name # old.name
  BY <1>1, FinishParts, OtherName
<1>3. /\ old \in Row /\ a \in Attached
      /\ Refused(d).name = old.name /\ Refused(d).sum = old.sum
      /\ Refused(d).status = "failed"
  BY <1>1 DEF TypeInv, Working, Refused, Row
<1>4. /\ rows'[a].name = rows[a].name /\ rows'[a].sum = rows[a].sum
      /\ rows'[a].status = IF old.status # "failed" THEN "failed" ELSE rows[a].status
  BY <1>1, <1>2, <1>3, FlushType
<1>5. rows[a] # NoRow /\ rows'[a] # NoRow
  BY <1>2, AttachmentsAssumption
<1>6. old.name = SourceName[a]
  BY <1>1 DEF AgreeInv, NamesInv
<1>7. \A n : n = SourceName[a] \/ Taken(n) => Taken(n)'
  <2>1. \A e \in Downloaders : Writing(e)' => e # d /\ Writing(e) /\ step[e] # "idle"
    BY <1>2 DEF Writing
  <2> QED
    BY <1>1, <1>2, <1>6, <2>1 DEF Taken
<1>8. \A b \in Attached : /\ rows'[b] # NoRow => rows[b] # NoRow
                          /\ rows'[b] # NoRow => /\ rows'[b].name = rows[b].name
                                                 /\ rows'[b].sum = rows[b].sum
                                                 /\ \/ rows'[b].status = rows[b].status
                                                    \/ rows'[b].status = "failed" /\ b = a
  BY <1>2, <1>4, <1>5
<1>9. NamesInv' /\ SumsInv'
  BY <1>2, <1>8 DEF AgreeInv, NamesInv, SumsInv
<1>10. DownloadInv'
  <2> SUFFICES ASSUME NEW e \in Downloaders, step'[e] # "idle" PROVE Knows(e)'
    BY DEF DownloadInv
  <2>1. /\ step'[e] = step[e] /\ task'[e] = task[e] /\ Knows(e)
        /\ task[e].copy.name \in Names
    BY <1>2 DEF AgreeInv, DownloadInv, TypeInv, Working, Row
  <2> QED
    BY <1>2, <1>7, <1>8, <2>1, OthersKnow
<1>11. FailedInv'
  <2>1. \A b \in Attached : ~Downloaded(b) => ~Downloaded(b)'
    BY <1>8 DEF Downloaded
  <2>2. \A p \in Planners : DOMAIN found[p] \subseteq Attached
    BY DEF TypeInv, TypeOK
  <2>3. ASSUME NEW b \in Attached, rows'[b] # NoRow, rows'[b].status = "failed"
        PROVE  Taken(SourceName[b])'
    BY <1>7, <1>8, <2>3 DEF AgreeInv, FailedInv
  <2> QED
    BY <1>2, <1>7, <2>1, <2>2, <2>3 DEF AgreeInv, FailedInv
<1> QED
  BY <1>2, <1>4, <1>5, <1>9, <1>10, <1>11 DEF AgreeInv, Downloaded

LEMMA AgreeDone ==
    ASSUME Apart, TypeInv, AgreeInv, NEW d \in Downloaders, CommitDownload(d)
    PROVE  AgreeInv' /\ \A a \in Attached : Downloaded(a) => rows'[a].status # "planned"
<1> DEFINE a == task[d].a
           old == task[d].copy
<1>1. step[d] = "summed" /\ Done(d) \in Row /\ Finish(d, Done(d)) /\ Writing(d)
  BY EndParts DEF Writing
<1>2. /\ UNCHANGED <<files, wish, found>>
      /\ rows[a] \in Row
      /\ rows'[a] = Flush(rows[a], old, Done(d)) /\ rows'[a] \in Row
      /\ \A b \in Attached \ {a} : rows'[b] = rows[b]
      /\ step'[d] = "idle"
      /\ \A e \in Downloaders \ {d} : step'[e] = step[e] /\ task'[e] = task[e]
      /\ \A e \in Downloaders \ {d} :
             step[e] # "idle" => task[e].copy.name # old.name
  BY <1>1, FinishParts, OtherName
<1>3. /\ old \in Row /\ a \in Attached /\ task[d].label \in Labels
      /\ Done(d).name = old.name /\ Done(d).sum = task[d].sum
      /\ Done(d).status = "downloaded"
  BY <1>1 DEF TypeInv, Working, Done, Row
<1>4. /\ task[d].sum = task[d].label /\ files[old.name] = task[d].label
      /\ old.name = SourceName[a]
      /\ \A b \in Attached : rows[b] # NoRow /\ SourceName[b] = SourceName[a]
             => rows[b].sum = NoSum
  BY <1>1 DEF AgreeInv, DownloadInv, Knows, NamesInv, File
<1>5. old.sum = NoSum /\ old.status # "downloaded"
  BY <1>1 DEF AgreeInv, DownloadInv, Knows, Taken
<1>6. task[d].label # NoSum
  BY <1>3, AttachmentsAssumption DEF Contents
<1>7. /\ rows'[a].name = rows[a].name /\ rows'[a].sum = task[d].label
      /\ rows'[a].status = "downloaded"
  BY <1>2, <1>1, <1>3, <1>4, <1>5, <1>6, FlushType
<1>8. rows[a] # NoRow /\ rows'[a] # NoRow
  BY <1>2, AttachmentsAssumption
<1>9. \A n : Taken(n) => Taken(n)'
  BY <1>1, <1>2 DEF Taken, Writing
<1>10. ~Taken(SourceName[a])
  BY <1>1, <1>4 DEF Taken
<1>11. NamesInv'
  BY <1>2, <1>7, <1>8 DEF AgreeInv, NamesInv
<1>12. SumsInv'
  <2>1. ASSUME NEW b \in Attached, rows'[b] # NoRow, rows'[b].sum # NoSum
        PROVE  /\ rows'[b].sum \in Labels /\ files'[SourceName[b]] = rows'[b].sum
               /\ b # a => SourceName[b] # SourceName[a]
    <3>1. CASE b = a
      BY <1>2, <1>3, <1>4, <1>7, <3>1
    <3>2. CASE b # a
      BY <1>2, <1>4, <2>1, <3>2 DEF AgreeInv, SumsInv
    <3> QED
      BY <3>1, <3>2
  <2>2. ASSUME NEW b \in Attached, rows'[b] # NoRow, rows'[b].status = "downloaded"
        PROVE  rows'[b].sum # NoSum
    BY <1>2, <1>6, <1>7, <2>2 DEF AgreeInv, SumsInv
  <2>3. ASSUME NEW b \in Attached, rows'[b] # NoRow, rows'[b].sum # NoSum,
               NEW c \in Attached, rows'[c] # NoRow, rows'[c].sum # NoSum, b # c
        PROVE  SourceName[b] # SourceName[c]
    <3>1. CASE b = a \/ c = a
      BY <2>1, <2>3, <3>1
    <3>2. CASE b # a /\ c # a
      BY <1>2, <2>3, <3>2 DEF AgreeInv, SumsInv
    <3> QED
      BY <3>1, <3>2
  <2> QED
    BY <2>1, <2>2, <2>3 DEF SumsInv
<1>13. DownloadInv'
  <2> SUFFICES ASSUME NEW e \in Downloaders, step'[e] # "idle" PROVE Knows(e)'
    BY DEF DownloadInv
  <2>1. /\ step'[e] = step[e] /\ task'[e] = task[e] /\ Knows(e)
        /\ task[e].copy.name \in Names /\ task[e].copy.name # SourceName[a]
    BY <1>2, <1>4 DEF AgreeInv, DownloadInv, TypeInv, Working, Row
  <2>2. \A b \in Attached :
            rows'[b] # NoRow /\ SourceName[b] = task[e].copy.name
                => rows[b] # NoRow /\ rows[b].sum = rows'[b].sum
    BY <1>2, <2>1
  <2> QED
    BY <1>2, <1>9, <2>1, <2>2, OthersKnow
<1>14. FailedInv'
  <2>1. \A b \in Attached : rows'[b] # NoRow /\ rows'[b].status = "failed"
            => Taken(SourceName[b])'
    BY <1>2, <1>7, <1>9 DEF AgreeInv, FailedInv
  <2>2. ASSUME NEW p \in Planners, NEW b \in DOMAIN found[p],
               found[p][b] # NoRow, found[p][b].status = "failed"
        PROVE  Taken(SourceName[b])' /\ ~Downloaded(b)'
    <3>1. Taken(SourceName[b]) /\ ~Downloaded(b)
      BY <2>2 DEF AgreeInv, FailedInv
    <3>2. b # a /\ b \in Attached
      BY <1>10, <3>1 DEF TypeInv, TypeOK
    <3> QED
      BY <1>2, <1>9, <3>1, <3>2 DEF Downloaded
  <2> QED
    BY <1>2, <2>1, <2>2 DEF FailedInv
<1> QED
  BY <1>2, <1>7, <1>11, <1>12, <1>13, <1>14 DEF AgreeInv, Downloaded

LEMMA AgreeNext ==
    ASSUME NamesFixed, Apart, Apart', TypeInv, AgreeInv, [Next]_vars
    PROVE  AgreeInv'
<1>1. CASE \E p \in Planners : StartSync(p) \/ StartPlan(p)
  BY <1>1, AgreeBegin
<1>2. CASE \E p \in Planners : Find(p)
  BY <1>2, AgreeFind
<1>3. CASE \E p \in Planners : CommitPlan(p) \/ AbandonPlan(p)
  BY <1>3, AgreePlanned
<1>4. CASE \E d \in Downloaders : Quiet(d)
  BY <1>4, AgreeQuiet
<1>5. CASE \E d \in Downloaders : Refuse(d)
  BY <1>5, AgreeRefuse
<1>6. CASE \E d \in Downloaders : CommitDownload(d)
  BY <1>6, AgreeDone
<1>7. CASE UNCHANGED vars
  BY <1>7 DEF vars, AgreeInv, NamesInv, SumsInv, DownloadInv, Knows, FailedInv, Taken, Writing,
              File, Downloaded
<1> QED
  BY <1>1, <1>2, <1>3, <1>4, <1>5, <1>6, <1>7 DEF Next, Quiet

LEMMA ApartInit == Init => Apart
BY DEF Init, Apart

LEMMA ApartNext == Apart /\ [Next /\ Apart']_vars => Apart'
BY DEF Apart, vars

(* While downloads of one filename keep apart and filenames stay, every    *)
(* attachment the manifest calls downloaded is in the storage with the     *)
(* row's checksum.                                                         *)
THEOREM ManifestIsTrue ==
    ASSUME NamesFixed PROVE ApartSpec => []DownloadedIsThere
<1>1. Init => TypeInv /\ AgreeInv /\ Apart
  BY TypeInvInit, AgreeInit, ApartInit
<1>2. TypeInv /\ AgreeInv /\ Apart /\ [Next /\ Apart']_vars
          => (TypeInv /\ AgreeInv /\ Apart)'
  BY TypeInvNext, AgreeNext, ApartNext
<1>3. TypeInv /\ AgreeInv => DownloadedIsThere
  BY AgreeImplies
<1> QED
  BY <1>1, <1>2, <1>3, PTL DEF ApartSpec

(* Under the same conditions no two attachments are called downloaded for  *)
(* the sake of one file.                                                   *)
THEOREM FilesAreNotShared ==
    ASSUME NamesFixed PROVE ApartSpec => []OneFileEach
<1>1. Init => TypeInv /\ AgreeInv /\ Apart
  BY TypeInvInit, AgreeInit, ApartInit
<1>2. TypeInv /\ AgreeInv /\ Apart /\ [Next /\ Apart']_vars
          => (TypeInv /\ AgreeInv /\ Apart)'
  BY TypeInvNext, AgreeNext, ApartNext
<1>3. TypeInv /\ AgreeInv => OneFileEach
  BY AgreeImplies
<1> QED
  BY <1>1, <1>2, <1>3, PTL DEF ApartSpec

(* Under the same conditions no sync or plan, however old the row is it    *)
(* has found, takes a downloaded attachment back to planned.               *)
THEOREM DownloadsSurviveSyncs ==
    ASSUME NamesFixed PROVE ApartSpec => PlanningKeepsDownloads
<1>1. Init => TypeInv /\ AgreeInv /\ Apart
  BY TypeInvInit, AgreeInit, ApartInit
<1>2. TypeInv /\ AgreeInv /\ Apart /\ [Next /\ Apart']_vars
          => (TypeInv /\ AgreeInv /\ Apart)'
  BY TypeInvNext, AgreeNext, ApartNext
<1> DEFINE Kept == \A a \in Attached : Downloaded(a) => rows'[a].status # "planned"
<1>3. TypeInv /\ AgreeInv /\ Apart /\ [Next /\ Apart']_vars => [Kept]_vars
  <2> SUFFICES ASSUME TypeInv, AgreeInv, Apart, Next PROVE Kept
    OBVIOUS
  <2>1. CASE rows' = rows
    BY <2>1 DEF Downloaded
  <2>2. ASSUME NEW p \in Planners, CommitPlan(p) PROVE Kept
    BY <2>2, PlanEffect DEF Downloaded
  <2>3. ASSUME NEW d \in Downloaders, Refuse(d) \/ CommitDownload(d) PROVE Kept
    BY <2>3, AgreeRefuse, AgreeDone
  <2>4. \/ rows' = rows
        \/ \E p \in Planners : CommitPlan(p)
        \/ \E d \in Downloaders : Refuse(d) \/ CommitDownload(d)
    BY BeginParts, FindParts, QuietParts DEF Next, AbandonPlan, Quiet
  <2> QED
    BY <2>1, <2>2, <2>3, <2>4
<1> QED
  BY <1>1, <1>2, <1>3, PTL DEF ApartSpec, PlanningKeepsDownloads
===============================================================================
