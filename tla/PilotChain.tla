------------------------------ MODULE PilotChain ------------------------------
(* The way from evidence to a pilot approval packet: an operator keeps a     *)
(* manifest of evidence, a readiness profile and a packet as JSON files, and *)
(* runs three generators on them.  Each loads its file, builds its report    *)
(* and writes a directory of artifacts, file by file, the list of them last. *)
(* Days pass, processes die, and a generator may be started twice.           *)
EXTENDS EvidenceReview, PilotReadiness, PilotApproval, Sequences

CONSTANTS
    Generators,     \* processes that run a generate_*.py script
    ItemForms,      \* what the operator may enter for an item of evidence
    ProfileForms,   \* the readiness profiles he may write
    PacketForms,    \* the packets he may write, before the copied figures
    Parts,          \* the files of a directory before manifest.json
    MaxDay, MaxEdits, MaxCrashes,   \* bounds
    None

ASSUME ChainAssumption ==
    /\ ItemForms \subseteq Item
    /\ ProfileForms \subseteq Profile
    /\ PacketForms \subseteq Packet
    /\ Parts \in Nat \ {0}
    /\ {MaxDay, MaxEdits, MaxCrashes} \subseteq Nat

VARIABLES
    day,        \* the clock
    manifest,   \* the evidence review manifest, as on disk
    profile,    \* the readiness profile
    packet,     \* the approval packet, and the reports its figures are from
    gen,        \* the run of each generator
    made,       \* whether the directory of each kind exists
    part,       \* the files in it, each the report it was rendered from
    listed,     \* its manifest.json: the files as they were when it was written
    edits, crashes

vars == <<day, manifest, profile, packet, gen, made, part, listed, edits, crashes>>

Kinds == {"review", "readiness", "approval"}

NoRun == [kind |-> "none", at |-> "idle", input |-> None, report |-> None, next |-> 1]

Empty == [i \in 1..Parts |-> None]

Init ==
    /\ day = 0
    /\ \E items \in [Evidence -> ItemForms] :
          manifest = [items |-> items, unsafe |-> FALSE]
    /\ profile \in ProfileForms
    /\ packet = None
    /\ gen = [g \in Generators |-> NoRun]
    /\ made = [k \in Kinds |-> FALSE]
    /\ part = [k \in Kinds |-> Empty]
    /\ listed = [k \in Kinds |-> None]
    /\ edits = 0
    /\ crashes = 0

files  == <<made, part, listed>>
inputs == <<day, manifest, profile, packet, edits>>

-------------------------------------------------------------------------------
(* The operator and the calendar.                                            *)
Tick ==
    /\ day < MaxDay
    /\ day' = day + 1
    /\ UNCHANGED <<manifest, profile, packet, edits, gen, files, crashes>>

Edit ==
    /\ edits < MaxEdits
    /\ edits' = edits + 1
    /\ \/ /\ \E e \in Evidence, item \in ItemForms :
                manifest' = [manifest EXCEPT !.items[e] = item]
          /\ UNCHANGED profile
       \/ /\ profile' \in ProfileForms
          /\ UNCHANGED manifest
    /\ UNCHANGED <<day, packet, gen, files, crashes>>

(* He takes the figures of the packet from the reports that are there.       *)
Compose ==
    LET review    == part["review"][1]
        readiness == part["readiness"][1]
    IN  /\ review # None
        /\ readiness # None
        /\ \E form \in PacketForms :
              packet' = [figures |-> [form EXCEPT
                                        !.readiness = readiness.decision,
                                        !.expired   = review.expired,
                                        !.renewals  = review.renewals],
                         from    |-> [review |-> review, readiness |-> readiness]]
        /\ UNCHANGED <<day, manifest, profile, edits, gen, files, crashes>>

(* He clears a directory nobody is writing.                                  *)
Clear(k) ==
    /\ made[k]
    /\ \A g \in Generators : gen[g].kind # k
    /\ made' = [made EXCEPT ![k] = FALSE]
    /\ part' = [part EXCEPT ![k] = Empty]
    /\ listed' = [listed EXCEPT ![k] = None]
    /\ UNCHANGED <<inputs, gen, crashes>>

-------------------------------------------------------------------------------
(* A generator.  A blocked report ends the run before anything is written.   *)
Run(g, run) == gen' = [gen EXCEPT ![g] = run]

Generate(g, kind, input, report) ==
    /\ Run(g, IF report.blocked THEN NoRun
              ELSE [kind |-> kind, at |-> "built", input |-> input,
                    report |-> report, next |-> 1])
    /\ UNCHANGED <<inputs, files, crashes>>

(* Validation and gates of an evidence review each ask the clock.            *)
ValidateReview(g) ==
    /\ gen[g].at = "idle"
    /\ Run(g, [kind |-> "review", at |-> "validated", input |-> manifest,
               report |-> ReviewFindings(manifest, day), next |-> 1])
    /\ UNCHANGED <<inputs, files, crashes>>

BuildReview(g) ==
    /\ gen[g].at = "validated"
    /\ Generate(g, "review", None,
                ReviewReport(gen[g].input, gen[g].report, day))

BuildReadiness(g) ==
    /\ gen[g].at = "idle"
    /\ Generate(g, "readiness", profile, ReadinessReport(profile))

BuildApproval(g) ==
    /\ gen[g].at = "idle"
    /\ packet # None
    /\ Generate(g, "approval", packet, ApprovalReport(packet.figures))

(* Mutant: no generator insists on a directory of its own.                   *)
AnyDirectory(k) == TRUE

(* mkdir: the readiness generator writes over what is there, the others      *)
(* insist on a directory of their own.                                       *)
DirectoryFree(k) == k # "readiness" => ~made[k]

MakeDirectory(g) ==
    LET k == gen[g].kind IN
    /\ gen[g].at = "built"
    /\ IF DirectoryFree(k)
       THEN /\ made' = [made EXCEPT ![k] = TRUE]
            /\ Run(g, [gen[g] EXCEPT !.at = "writing"])
       ELSE Run(g, NoRun) /\ UNCHANGED made
    /\ UNCHANGED <<inputs, part, listed, crashes>>

WritePart(g) ==
    LET r == gen[g] IN
    /\ r.at = "writing"
    /\ r.next <= Parts
    /\ part' = [part EXCEPT ![r.kind][r.next] = r.report]
    /\ Run(g, [r EXCEPT !.next = @ + 1])
    /\ UNCHANGED <<inputs, made, listed, crashes>>

WriteManifest(g) ==
    LET r == gen[g] IN
    /\ r.at = "writing"
    /\ r.next > Parts
    /\ listed' = [listed EXCEPT ![r.kind] = part[r.kind]]
    /\ Run(g, NoRun)
    /\ UNCHANGED <<inputs, made, part, crashes>>

Crash(g) ==
    /\ crashes < MaxCrashes
    /\ gen[g].at # "idle"
    /\ crashes' = crashes + 1
    /\ Run(g, NoRun)
    /\ UNCHANGED <<inputs, files>>

Write(g) == MakeDirectory(g) \/ WritePart(g) \/ WriteManifest(g)

Next ==
    \/ Tick
    \/ Edit
    \/ Compose
    \/ \E k \in Kinds : Clear(k)
    \/ \E g \in Generators :
          \/ ValidateReview(g) \/ BuildReview(g)
          \/ BuildReadiness(g) \/ BuildApproval(g)
          \/ Write(g) \/ Crash(g)

Spec == Init /\ [][Next]_vars

-------------------------------------------------------------------------------
(* The reports of the three kinds, none of which is the absence of one.      *)
GateReport == [status : ReviewStatus, expiry : ExpiryStatus,
               renewal : BOOLEAN, blocks : BOOLEAN]

ReviewReports ==
    [blocked : BOOLEAN, gates : [Evidence -> GateReport], expired : Nat, renewals : Nat]

ReadinessReports ==
    [blocked : BOOLEAN, decision : {"GO", "NEEDS_REVIEW", "NO_GO", "BLOCKED"},
     gates : [Gates -> {"passed", "needs_review", "failed"}]]

ApprovalReports ==
    [blocked : BOOLEAN, evaluation : ApprovalStatus,
     passed : [pilot_readiness : BOOLEAN, evidence_review : BOOLEAN,
               conditions_and_signoff : BOOLEAN]]

ASSUME NoneAssumption ==
    None \notin ReviewReports \cup ReadinessReports \cup ApprovalReports

TypeOK ==
    /\ day \in 0..MaxDay
    /\ manifest.items \in [Evidence -> ItemForms]
    /\ profile \in ProfileForms
    /\ packet # None =>
          /\ packet.figures \in Packet
          /\ packet.from.review.gates \in [Evidence -> GateReport]
          /\ packet.from.readiness.decision \in {"GO", "NEEDS_REVIEW"}
    /\ \A g \in Generators :
          /\ gen[g].kind \in Kinds \cup {"none"}
          /\ gen[g].at \in {"idle", "validated", "built", "writing"}
          /\ gen[g].next \in 1..(Parts + 1)
    /\ made \in [Kinds -> BOOLEAN]
    /\ \A k \in Kinds :
          /\ DOMAIN part[k] = 1..Parts
          /\ \A i \in 1..Parts : part[k][i] # None => made[k] /\ ~part[k][i].blocked
          /\ listed[k] # None => made[k]

(* A directory of a review or of an approval packet that has its list is     *)
(* complete, and all its files tell of one report, whoever else has run and  *)
(* whoever has died.                                                         *)
ListMeansComplete ==
    \A k \in Kinds \ {"readiness"} : listed[k] # None =>
        \E r \in {part[k][1]} :
            r # None /\ part[k] = [i \in 1..Parts |-> r]

Reports(kind) ==
    {r \in {gen[g] : g \in Generators} : r.kind = kind /\ r.at \in {"built", "writing"}}

(* A pilot that plans webhooks and is told GO has every gate of its report   *)
(* passed, but for the one that shows the monitoring plan.                   *)
GoMeansGates ==
    \A r \in Reports("readiness") :
        r.report.decision = "GO" /\ r.input.webhooks /\ r.input.pilotLike =>
            \A g \in Gates \ {"known_limitations"} : r.report.gates[g] = "passed"

(* Behind an approval are a readiness report that said GO and a review in    *)
(* which nothing had expired or waited for renewal, however many steps, runs *)
(* and edits lie between those reports and the packet.                       *)
ApprovalRests ==
    \A r \in Reports("approval") :
        r.report.evaluation = "approved_placeholder" =>
            /\ r.input.from.readiness.decision = "GO"
            /\ \A e \in Evidence : LET g == r.input.from.review.gates[e] IN
                  /\ ~g.renewal
                  /\ g.expiry \notin {"expired", "renewal_required"}

(* docs/pilot-readiness-gate.md: "GO: every configured gate passed for this  *)
(* local profile."  The gate of the monitoring plan and, while no webhooks   *)
(* are planned, theirs may have failed.                                      *)
GoMeansEveryGate ==
    \A r \in Reports("readiness") :
        r.report.decision = "GO" =>
            \A g \in Gates : r.report.gates[g] # "failed"

(* docs/pilot-readiness-gate.md: "Required evidence that needs review, has   *)
(* expired, or requires renewal remains a gate blocker".                     *)
OutstandingBlocks ==
    \A r \in Reports("review"), e \in Required : LET g == r.report.gates[e] IN
        g.expiry \in {"needs_review", "expired", "renewal_required"} => g.blocks

(* docs/evidence-review-expiry.md: "An expired accepted item must set        *)
(* `renewal_required`."  It may expire between validation and gates.         *)
ExpiredIsFlagged ==
    \A r \in Reports("review"), e \in Evidence : LET g == r.report.gates[e] IN
        g.status = "accepted_placeholder" /\ g.expiry = "expired" => g.renewal
===============================================================================
