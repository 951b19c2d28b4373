--------------------------- MODULE PilotChainProofs ---------------------------
(***************************************************************************)
(* Proofs about PilotChain, for any evidence, forms, generators and limits *)
(* of days, edits and crashes: type correctness; that a directory with its *)
(* list is complete and of one report; that GO means passed gates; and     *)
(* that an approval rests on a GO and on evidence that stands.  The last   *)
(* two are about deployments that demand, or insist on, what they are      *)
(* about: settings of the code may waive it.                               *)
(***************************************************************************)
EXTENDS PilotChain, FiniteSetTheorems, TLAPS

(* The settings pilot_readiness_require_* are all on, as by default.       *)
EverythingDemanded == Demanded = Demands

(* pilot_approval_packet_require_go_decision is on.                        *)
GoInsisted == "go_decision" \in Insists

Manifests == [items : [Evidence -> ItemForms], unsafe : {FALSE}]

(* A review report whose counts are those of its gates.                    *)
Counted(r) ==
    /\ r \in ReviewReports
    /\ r.expired = ExpiredItems(r.gates)
    /\ r.renewals = RenewalItems(r.gates)

(* A readiness report that is blocked by its decision and nothing else.    *)
Decided(r) ==
    /\ r \in ReadinessReports
    /\ r.blocked <=> r.decision \in {"NO_GO", "BLOCKED"}

(* A packet whose figures are those of the reports it was composed from.   *)
Composed(k) ==
    /\ k.figures \in Packet
    /\ Decided(k.from.readiness) /\ ~k.from.readiness.blocked
    /\ Counted(k.from.review)
    /\ k.figures.readiness = k.from.readiness.decision
    /\ k.figures.expired = k.from.review.expired
    /\ k.figures.renewals = k.from.review.renewals

(* A report a generator of this kind may have built, from this input.      *)
Built(kind, input, report) ==
    \/ kind = "review" /\ Counted(report)
    \/ /\ kind = "readiness" /\ input \in ProfileForms
       /\ report = ReadinessReport(input)
    \/ /\ kind = "approval" /\ Composed(input)
       /\ report = ApprovalReport(input.figures)

(* What the run of a generator may be at.                                  *)
Validated(r) ==
    /\ r.kind = "review" /\ r.at = "validated" /\ r.next = 1
    /\ r.input \in Manifests

Rendering(r) ==
    /\ r.kind \in Kinds
    /\ r.at \in {"built", "writing"}
    /\ r.next \in 1..(Parts + 1)
    /\ r.at = "built" => r.next = 1
    /\ Built(r.kind, r.input, r.report) /\ ~r.report.blocked

Shaped(r) ==
    r = [kind |-> r.kind, at |-> r.at, input |-> r.input, report |-> r.report,
         next |-> r.next]

Sound(r) == Shaped(r) /\ (r = NoRun \/ Validated(r) \/ Rendering(r))

(* A report of this kind that may be on disk.                              *)
Kept(kind, report) ==
    \/ kind = "review" /\ Counted(report) /\ ~report.blocked
    \/ kind = "readiness" /\ Decided(report) /\ ~report.blocked
    \/ kind = "approval" /\ report \in ApprovalReports /\ ~report.blocked

Inputs ==
    /\ day \in 0..MaxDay
    /\ manifest \in Manifests
    /\ profile \in ProfileForms
    /\ packet # None => Composed(packet)

Runs ==
    /\ gen = [g \in Generators |-> gen[g]]
    /\ \A g \in Generators : Sound(gen[g])

Files ==
    /\ made \in [Kinds -> BOOLEAN]
    /\ part = [k \in Kinds |-> part[k]]
    /\ \A k \in Kinds :
          /\ part[k] = [i \in 1..Parts |-> part[k][i]]
          /\ \A i \in 1..Parts : part[k][i] # None => made[k] /\ Kept(k, part[k][i])
    /\ listed = [k \in Kinds |-> listed[k]]
    /\ \A k \in Kinds : listed[k] # None => made[k]

(* The directory somebody writes into is there.                            *)
Housed == \A g \in Generators : gen[g].at = "writing" => made[gen[g].kind]

TypeInv == Inputs /\ Runs /\ Files /\ Housed

(* Who writes into a directory of his own is alone with it, has written    *)
(* what he has passed, and has not listed it yet.                          *)
Writes(g, k) == gen[g].kind = k /\ gen[g].at = "writing"

Alone(k) ==
    /\ \A g, h \in Generators : Writes(g, k) /\ Writes(h, k) => g = h
    /\ \A g \in Generators :
          Writes(g, k) =>
              /\ listed[k] = None
              /\ \A i \in 1..Parts : i < gen[g].next => part[k][i] = gen[g].report
    /\ listed[k] # None =>
          \E r \in {part[k][1]} : r # None /\ part[k] = [i \in 1..Parts |-> r]

ChainInv == TypeInv /\ \A k \in Kinds \ {"readiness"} : Alone(k)

-------------------------------------------------------------------------------
(* Reports.                                                                *)

LEMMA ExpiryIsOne ==
    ASSUME NEW item \in Item, NEW d \in Nat
    PROVE  EffectiveExpiry(item, d) \in ExpiryStatus
BY DEF EffectiveExpiry, DatedExpiry, ExpiryStatus, Item

(* The counts of a report are numbers, and none of them is zero unless     *)
(* there is nothing to count.                                              *)
LEMMA CountsAreNumbers ==
    ASSUME NEW gates
    PROVE  ExpiredItems(gates) \in Nat /\ RenewalItems(gates) \in Nat
<1> DEFINE Expired == {e \in Evidence : gates[e].expiry = "expired"}
           Renewed == {e \in Evidence :
                           gates[e].renewal \/ gates[e].expiry = "renewal_required"}
<1>1. IsFiniteSet(Expired) /\ IsFiniteSet(Renewed)
  BY FS_Subset, EvidenceAssumption
<1> QED
  BY <1>1, FS_CardinalityType DEF ExpiredItems, RenewalItems

LEMMA NothingCounted ==
    ASSUME NEW gates, ExpiredItems(gates) = 0, RenewalItems(gates) = 0,
           NEW e \in Evidence
    PROVE  /\ ~gates[e].renewal
           /\ gates[e].expiry \notin {"expired", "renewal_required"}
<1> DEFINE Expired == {x \in Evidence : gates[x].expiry = "expired"}
           Renewed == {x \in Evidence :
                           gates[x].renewal \/ gates[x].expiry = "renewal_required"}
<1>1. IsFiniteSet(Expired) /\ IsFiniteSet(Renewed)
  BY FS_Subset, EvidenceAssumption
<1>2. Expired = {} /\ Renewed = {}
  BY <1>1, FS_EmptySet DEF ExpiredItems, RenewalItems
<1> QED
  BY <1>2

(* A review counts what its gates say.                                     *)
LEMMA ReviewIsCounted ==
    ASSUME NEW m \in Manifests, NEW findings, NEW d \in Nat
    PROVE  Counted(ReviewReport(m, findings, d))
<1> DEFINE gates == [e \in Evidence |-> ReviewGate(e, m.items[e], d)]
<1>1. ASSUME NEW e \in Evidence
      PROVE  ReviewGate(e, m.items[e], d) \in GateReport
  <2>1. m.items[e] \in Item
    BY ChainAssumption DEF Manifests
  <2>2. /\ m.items[e].status \in ReviewStatus /\ m.items[e].renewal \in BOOLEAN
        /\ EffectiveExpiry(m.items[e], d) \in ExpiryStatus
    BY <2>1, ExpiryIsOne DEF Item
  <2>3. BlocksGate(e, m.items[e], d) \in BOOLEAN
    BY DEF BlocksGate
  <2> QED
    BY <2>2, <2>3 DEF ReviewGate, GateReport
<1>2. gates \in [Evidence -> GateReport]
  BY <1>1
<1>3. ReviewReport(m, findings, d)
          = [blocked |-> findings # {}, gates |-> gates,
             expired |-> ExpiredItems(gates), renewals |-> RenewalItems(gates)]
  BY DEF ReviewReport
<1>4. ExpiredItems(gates) \in Nat /\ RenewalItems(gates) \in Nat
  BY CountsAreNumbers
<1> HIDE DEF gates
<1> QED
  BY <1>2, <1>3, <1>4 DEF Counted, ReviewReports

LEMMA ReadinessReportType ==
    ASSUME NEW p
    PROVE  Decided(ReadinessReport(p))
<1>1. \A g \in Gates : GateStatus(p, g) \in {"passed", "needs_review", "failed"}
  BY DEF GateStatus
<1>2. Decision(p) \in {"GO", "NEEDS_REVIEW", "NO_GO", "BLOCKED"}
  BY DEF Decision
<1> DEFINE blocked == Decision(p) \in {"NO_GO", "BLOCKED"}
           gates   == [g \in Gates |-> GateStatus(p, g)]
<1>3. ReadinessReport(p)
          = [blocked |-> blocked, decision |-> Decision(p), gates |-> gates]
  BY DEF ReadinessReport
<1>4. gates \in [Gates -> {"passed", "needs_review", "failed"}]
  BY <1>1
<1>5. blocked \in BOOLEAN /\ (blocked <=> Decision(p) \in {"NO_GO", "BLOCKED"})
  OBVIOUS
<1> HIDE DEF blocked, gates
<1> QED
  BY <1>2, <1>3, <1>4, <1>5 DEF Decided, ReadinessReports

LEMMA ApprovalReportType ==
    ASSUME NEW k \in Packet
    PROVE  ApprovalReport(k) \in ApprovalReports
<1>1. Evaluation(k) \in ApprovalStatus
  BY DEF Evaluation, ApprovalStatus
<1>2. (k.launch # {} /\ k.rollback # {} /\ k.signoffs) \in BOOLEAN
  BY DEF Packet
<1> DEFINE passed == [pilot_readiness |-> k.readiness \notin {"NO_GO", "BLOCKED"},
                      evidence_review |-> k.expired = 0 /\ k.renewals = 0,
                      conditions_and_signoff |->
                          k.launch # {} /\ k.rollback # {} /\ k.signoffs]
<1>3. passed \in [pilot_readiness : BOOLEAN, evidence_review : BOOLEAN,
                  conditions_and_signoff : BOOLEAN]
  BY <1>2
<1>4. ApprovalReport(k)
          = [blocked |-> Evaluation(k) = "blocked", evaluation |-> Evaluation(k),
             passed |-> passed]
  BY DEF ApprovalReport
<1> HIDE DEF passed
<1> QED
  BY <1>1, <1>3, <1>4 DEF ApprovalReports

(* What is built may be kept, and is a report.                             *)
LEMMA BuiltIsKept ==
    ASSUME NEW kind, NEW input, NEW report, Built(kind, input, report),
           ~report.blocked
    PROVE  Kept(kind, report) /\ report # None
<1>1. CASE kind = "review" /\ Counted(report)
  BY <1>1, NoneAssumption DEF Kept, Counted
<1>2. CASE kind = "readiness" /\ report = ReadinessReport(input)
  <2>1. Decided(report)
    BY <1>2, ReadinessReportType
  <2> QED
    BY <1>2, <2>1, NoneAssumption DEF Kept, Decided
<1>3. CASE kind = "approval" /\ Composed(input)
            /\ report = ApprovalReport(input.figures)
  <2>1. report \in ApprovalReports
    BY <1>3, ApprovalReportType DEF Composed
  <2> QED
    BY <1>3, <2>1, NoneAssumption DEF Kept
<1> QED
  BY <1>1, <1>2, <1>3 DEF Built

-------------------------------------------------------------------------------
(* Types.                                                                  *)

LEMMA NoRunIsSound == Sound(NoRun)
BY DEF Sound, Shaped, NoRun

(* A step that moves one run on, or ends it.                               *)
LEMMA RunKeepsRuns ==
    ASSUME Runs, NEW g \in Generators, NEW run, Sound(run), Run(g, run)
    PROVE  Runs' /\ gen'[g] = run /\ \A h \in Generators \ {g} : gen'[h] = gen[h]
BY DEF Runs, Run

LEMMA GenerateKeepsRuns ==
    ASSUME Runs, NEW g \in Generators, NEW kind \in Kinds, NEW input, NEW report,
           Built(kind, input, report), Generate(g, kind, input, report)
    PROVE  /\ Runs'
           /\ gen'[g].at # "writing"
           /\ \A h \in Generators \ {g} : gen'[h] = gen[h]
<1> DEFINE built == [kind |-> kind, at |-> "built", input |-> input,
                     report |-> report, next |-> 1]
<1>1. CASE report.blocked
  <2>1. Run(g, NoRun)
    BY <1>1 DEF Generate
  <2> QED
    BY <2>1, NoRunIsSound, RunKeepsRuns DEF NoRun
<1>2. CASE ~report.blocked
  <2>1. Run(g, built)
    BY <1>2 DEF Generate
  <2>2. Sound(built)
    BY <1>2, ChainAssumption DEF Sound, Shaped, Rendering
  <2>3. built.at # "writing"
    OBVIOUS
  <2> HIDE DEF built
  <2> QED
    BY <2>1, <2>2, <2>3, RunKeepsRuns
<1> QED
  BY <1>1, <1>2

(* The operator and the calendar keep the inputs sound.                    *)
LEMMA OperatorTypes ==
    ASSUME TypeInv, Tick \/ Edit \/ Compose
    PROVE  TypeInv' /\ UNCHANGED <<gen, files>>
<1>0. UNCHANGED <<gen, files>>
  BY DEF Tick, Edit, Compose
<1>1. Runs' /\ Files' /\ Housed'
  BY <1>0 DEF TypeInv, Runs, Files, Housed, files
<1>2. Inputs'
  <2>1. CASE Tick
    <3>1. day' \in 0..MaxDay
      BY <2>1, ChainAssumption DEF Tick, TypeInv, Inputs
    <3>2. UNCHANGED <<manifest, profile, packet>>
      BY <2>1 DEF Tick
    <3> QED
      BY <3>1, <3>2 DEF TypeInv, Inputs
  <2>2. CASE Edit
    <3>1. manifest' \in Manifests /\ profile' \in ProfileForms
      BY <2>2 DEF Edit, TypeInv, Inputs, Manifests
    <3>2. UNCHANGED <<day, packet>>
      BY <2>2 DEF Edit
    <3> QED
      BY <3>1, <3>2 DEF TypeInv, Inputs
  <2>3. CASE Compose
    <3> DEFINE review    == part["review"][1]
               readiness == part["readiness"][1]
    <3>1. /\ review # None /\ readiness # None
          /\ UNCHANGED <<day, manifest, profile>>
      BY <2>3 DEF Compose
    <3>2. 1 \in 1..Parts
      BY ChainAssumption
    <3>3. Kept("review", review) /\ Kept("readiness", readiness)
      BY <3>1, <3>2 DEF TypeInv, Files, Kinds
    <3>4. PICK form \in PacketForms :
              packet' = [figures |-> [form EXCEPT !.readiness = readiness.decision,
                                                  !.expired   = review.expired,
                                                  !.renewals  = review.renewals],
                         from    |-> [review |-> review, readiness |-> readiness]]
      BY <2>3 DEF Compose
    <3>5. /\ Counted(review) /\ review.expired \in Nat /\ review.renewals \in Nat
          /\ Decided(readiness) /\ ~readiness.blocked
          /\ readiness.decision \in {"GO", "NEEDS_REVIEW", "NO_GO", "BLOCKED"}
      BY <3>3 DEF Kept, Counted, Decided, ReviewReports, ReadinessReports
    <3> HIDE DEF review, readiness
    <3>6. form \in Packet
      BY ChainAssumption
    <3>7. Composed(packet')
      BY <3>4, <3>5, <3>6 DEF Composed, Packet
    <3>8. Composed(packet)'
      BY <3>7 DEF Composed, Counted, Decided, ExpiredItems, RenewalItems
    <3> QED
      BY <3>1, <3>8 DEF TypeInv, Inputs
  <2> QED
    BY <2>1, <2>2, <2>3
<1> QED
  BY <1>0, <1>1, <1>2 DEF TypeInv

(* Who has built his report, or writes it, renders it.                     *)
LEMMA WhoRenders ==
    ASSUME Runs, NEW g \in Generators, gen[g].at \in {"built", "writing"}
    PROVE  /\ Shaped(gen[g]) /\ Rendering(gen[g])
           /\ Kept(gen[g].kind, gen[g].report) /\ gen[g].report # None
<1>1. Shaped(gen[g]) /\ Rendering(gen[g])
  BY DEF Runs, Sound, Validated, NoRun
<1> QED
  BY <1>1, BuiltIsKept DEF Rendering

(* A directory that is cleared is nobody's.                                *)
LEMMA ClearTypes ==
    ASSUME TypeInv, NEW k \in Kinds, Clear(k)
    PROVE  TypeInv'
<1>1. Inputs' /\ Runs'
  BY DEF TypeInv, Clear, Inputs, Runs, inputs
<1>2. Files'
  BY DEF TypeInv, Files, Clear, Empty
<1>3. ASSUME NEW g \in Generators, gen'[g].at = "writing"
      PROVE  made'[gen'[g].kind]
  <2>1. gen[g].kind \in Kinds /\ made[gen[g].kind] /\ gen[g].kind # k
    BY <1>3, WhoRenders DEF Clear, TypeInv, Rendering, Housed
  <2> QED
    BY <2>1 DEF Clear, TypeInv, Files
<1> QED
  BY <1>1, <1>2, <1>3 DEF TypeInv, Housed

(* A generator that validates, builds or dies writes nothing, and leaves   *)
(* the others alone.                                                       *)
Aside(g) ==
    /\ UNCHANGED files
    /\ gen'[g].at # "writing"
    /\ \A h \in Generators \ {g} : gen'[h] = gen[h]

LEMMA AsideTypes ==
    ASSUME TypeInv, Runs', NEW g \in Generators, UNCHANGED inputs, Aside(g)
    PROVE  TypeInv'
<1>1. Inputs'
  BY DEF TypeInv, Inputs, inputs
<1>2. Files' /\ Housed'
  BY DEF TypeInv, Files, Housed, Aside, files
<1> QED
  BY <1>1, <1>2 DEF TypeInv

LEMMA ValidateTypes ==
    ASSUME TypeInv, NEW g \in Generators, ValidateReview(g)
    PROVE  TypeInv' /\ Aside(g)
<1> DEFINE run == [kind |-> "review", at |-> "validated", input |-> manifest,
                   report |-> ReviewFindings(manifest, day), next |-> 1]
<1>1. Run(g, run) /\ UNCHANGED <<inputs, files>>
  BY DEF ValidateReview
<1>2. Sound(run) /\ run.at # "writing"
  BY DEF Sound, Shaped, Validated, TypeInv, Inputs
<1> HIDE DEF run
<1>3. Runs' /\ Aside(g)
  BY <1>1, <1>2, RunKeepsRuns DEF TypeInv, Aside
<1> QED
  BY <1>1, <1>3, AsideTypes

LEMMA BuildTypes ==
    ASSUME TypeInv, NEW g \in Generators,
           BuildReview(g) \/ BuildReadiness(g) \/ BuildApproval(g)
    PROVE  TypeInv' /\ Aside(g)
<1>1. \E kind \in Kinds : \E input, report :
          Built(kind, input, report) /\ Generate(g, kind, input, report)
  <2>1. CASE BuildReview(g)
    <3>1. Validated(gen[g]) /\ day \in Nat
      BY <2>1 DEF BuildReview, TypeInv, Runs, Inputs, Sound, Rendering, NoRun
    <3>2. Counted(ReviewReport(gen[g].input, gen[g].report, day))
      BY <3>1, ReviewIsCounted DEF Validated
    <3> QED
      BY <2>1, <3>2 DEF BuildReview, Built, Kinds
  <2>2. CASE BuildReadiness(g)
    BY <2>2 DEF BuildReadiness, Built, Kinds, TypeInv, Inputs
  <2>3. CASE BuildApproval(g)
    BY <2>3 DEF BuildApproval, Built, Kinds, TypeInv, Inputs
  <2> QED
    BY <2>1, <2>2, <2>3
<1>0. PICK kind \in Kinds :
          \E input, report :
              Built(kind, input, report) /\ Generate(g, kind, input, report)
  BY <1>1
<1>2. PICK input, report :
          Built(kind, input, report) /\ Generate(g, kind, input, report)
  BY <1>0
<1>3. UNCHANGED <<inputs, files>>
  BY <1>2 DEF Generate
<1>4. Runs' /\ Aside(g)
  BY <1>2, <1>3, GenerateKeepsRuns DEF TypeInv, Aside
<1> QED
  BY <1>3, <1>4, AsideTypes

LEMMA CrashTypes ==
    ASSUME TypeInv, NEW g \in Generators, Crash(g)
    PROVE  TypeInv' /\ Aside(g)
<1>1. Run(g, NoRun) /\ UNCHANGED <<inputs, files>>
  BY DEF Crash
<1>2. Runs' /\ Aside(g)
  BY <1>1, NoRunIsSound, RunKeepsRuns DEF TypeInv, Aside, NoRun
<1> QED
  BY <1>1, <1>2, AsideTypes

LEMMA MakeDirectoryTypes ==
    ASSUME TypeInv, NEW g \in Generators, MakeDirectory(g)
    PROVE  TypeInv'
<1> DEFINE k   == gen[g].kind
           run == [gen[g] EXCEPT !.at = "writing"]
<1>1. Rendering(gen[g]) /\ Shaped(gen[g])
  BY WhoRenders DEF MakeDirectory, TypeInv
<1>2. Inputs'
  BY DEF MakeDirectory, TypeInv, Inputs, inputs
<1>3. CASE DirectoryFree(k)
  <2>1. Run(g, run) /\ made' = [made EXCEPT ![k] = TRUE] /\ UNCHANGED <<part, listed>>
    BY <1>3 DEF MakeDirectory
  <2>2. Sound(run) /\ run.kind = k
    BY <1>1 DEF Sound, Shaped, Rendering
  <2> HIDE DEF run
  <2>3. Runs' /\ gen'[g] = run /\ \A h \in Generators \ {g} : gen'[h] = gen[h]
    BY <2>1, <2>2, RunKeepsRuns DEF TypeInv
  <2>4. k \in Kinds
    BY <1>1 DEF Rendering
  <2>5. Files'
    BY <2>1, <2>4 DEF TypeInv, Files
  <2>6. Housed'
    BY <2>1, <2>2, <2>3, <2>4 DEF TypeInv, Files, Housed
  <2> QED
    BY <1>2, <2>3, <2>5, <2>6 DEF TypeInv
<1>4. CASE ~DirectoryFree(k)
  <2>1. Run(g, NoRun) /\ UNCHANGED <<inputs, files>>
    BY <1>4 DEF MakeDirectory, files
  <2>2. Runs' /\ Aside(g)
    BY <2>1, NoRunIsSound, RunKeepsRuns DEF TypeInv, Aside, NoRun
  <2> QED
    BY <2>1, <2>2, AsideTypes
<1> QED
  BY <1>3, <1>4

LEMMA WritePartTypes ==
    ASSUME TypeInv, NEW g \in Generators, WritePart(g)
    PROVE  TypeInv'
<1> DEFINE r   == gen[g]
           run == [r EXCEPT !.next = r.next + 1]
<1>1. /\ Rendering(r) /\ Shaped(r) /\ Kept(r.kind, r.report)
      /\ r.next \in 1..Parts /\ r.at = "writing" /\ made[r.kind]
  BY WhoRenders DEF WritePart, TypeInv, Rendering, Housed
<1>2. Inputs'
  BY DEF WritePart, TypeInv, Inputs, inputs
<1>3. Run(g, run) /\ UNCHANGED <<made, listed>>
      /\ part' = [part EXCEPT ![r.kind][r.next] = r.report]
  BY DEF WritePart
<1>4. Sound(run) /\ run.kind = r.kind
  BY <1>1, ChainAssumption DEF Sound, Shaped, Rendering
<1> HIDE DEF run
<1>5. Runs' /\ gen'[g] = run /\ \A h \in Generators \ {g} : gen'[h] = gen[h]
  BY <1>3, <1>4, RunKeepsRuns DEF TypeInv
<1>6. r.kind \in Kinds
  BY <1>1 DEF Rendering
<1>7. Housed'
  BY <1>1, <1>3, <1>4, <1>5 DEF TypeInv, Housed
<1> HIDE DEF r
<1>8. Files'
  BY <1>1, <1>3, <1>6 DEF TypeInv, Files
<1> QED
  BY <1>2, <1>5, <1>7, <1>8 DEF TypeInv

LEMMA WriteManifestTypes ==
    ASSUME TypeInv, NEW g \in Generators, WriteManifest(g)
    PROVE  TypeInv'
<1>1. gen[g].kind \in Kinds /\ made[gen[g].kind]
  BY WhoRenders DEF WriteManifest, TypeInv, Rendering, Housed
<1>2. Run(g, NoRun) /\ UNCHANGED <<inputs, made, part>>
      /\ listed' = [listed EXCEPT ![gen[g].kind] = part[gen[g].kind]]
  BY DEF WriteManifest
<1>3. Runs' /\ gen'[g] = NoRun /\ \A h \in Generators \ {g} : gen'[h] = gen[h]
  BY <1>2, NoRunIsSound, RunKeepsRuns DEF TypeInv
<1>4. Inputs'
  BY <1>2 DEF TypeInv, Inputs, inputs
<1>5. Files'
  BY <1>1, <1>2 DEF TypeInv, Files
<1>6. Housed'
  BY <1>2, <1>3 DEF TypeInv, Housed, NoRun
<1> QED
  BY <1>3, <1>4, <1>5, <1>6 DEF TypeInv

LEMMA InitTypes == Init => TypeInv
<1> SUFFICES ASSUME Init PROVE TypeInv
  OBVIOUS
<1>1. Inputs
  BY ChainAssumption DEF Init, Inputs, Manifests
<1>2. Runs
  BY NoRunIsSound DEF Init, Runs
<1>3. Files /\ Housed
  BY DEF Init, Files, Housed, Empty, NoRun
<1> QED
  BY <1>1, <1>2, <1>3 DEF TypeInv

LEMMA StepTypes == TypeInv /\ [Next]_vars => TypeInv'
<1> SUFFICES ASSUME TypeInv, [Next]_vars PROVE TypeInv'
  OBVIOUS
<1>1. CASE Tick \/ Edit \/ Compose
  BY <1>1, OperatorTypes
<1>2. ASSUME NEW k \in Kinds, Clear(k) PROVE TypeInv'
  BY <1>2, ClearTypes
<1>3. ASSUME NEW g \in Generators,
             ValidateReview(g) \/ BuildReview(g) \/ BuildReadiness(g) \/ BuildApproval(g)
      PROVE  TypeInv'
  BY <1>3, ValidateTypes, BuildTypes
<1>4. ASSUME NEW g \in Generators, Write(g) \/ Crash(g) PROVE TypeInv'
  BY <1>4, MakeDirectoryTypes, WritePartTypes, WriteManifestTypes, CrashTypes DEF Write
<1>5. CASE UNCHANGED vars
  BY <1>5 DEF vars, TypeInv, Inputs, Runs, Files, Housed
<1> QED
  BY <1>1, <1>2, <1>3, <1>4, <1>5 DEF Next

(* A packet that is composed, and what the invariant calls sound, have the *)
(* types the checked invariant names.                                      *)
LEMMA ComposedType ==
    ASSUME NEW k, Composed(k)
    PROVE  /\ k.figures \in Packet
           /\ k.from.review.gates \in [Evidence -> GateReport]
           /\ k.from.readiness.decision \in {"GO", "NEEDS_REVIEW"}
BY DEF Composed, Counted, Decided, ReviewReports, ReadinessReports

LEMMA RunType ==
    ASSUME Runs, NEW g \in Generators
    PROVE  /\ gen[g].kind \in Kinds \cup {"none"}
           /\ gen[g].at \in {"idle", "validated", "built", "writing"}
           /\ gen[g].next \in 1..(Parts + 1)
BY ChainAssumption DEF Runs, Sound, NoRun, Validated, Rendering, Kinds

LEMMA FilesType ==
    ASSUME Files, NEW k \in Kinds
    PROVE  /\ DOMAIN part[k] = 1..Parts
           /\ \A i \in 1..Parts : part[k][i] # None => made[k] /\ ~part[k][i].blocked
           /\ listed[k] # None => made[k]
BY DEF Files, Kept

(* TypeOK: the types of PilotChain, for any evidence, forms, generators    *)
(* and limits; nothing blocked reaches a directory or a packet, and no     *)
(* file or list is where there is no directory.                            *)
THEOREM ChainTypesHold == Spec => []TypeOK
<1>1. TypeInv => TypeOK
  <2> SUFFICES ASSUME TypeInv PROVE TypeOK
    OBVIOUS
  <2>1. day \in 0..MaxDay /\ manifest.items \in [Evidence -> ItemForms]
        /\ profile \in ProfileForms /\ made \in [Kinds -> BOOLEAN]
    BY DEF TypeInv, Inputs, Files, Manifests
  <2>2. packet # None => Composed(packet)
    BY DEF TypeInv, Inputs
  <2>3. Runs /\ Files
    BY DEF TypeInv
  <2> QED
    BY <2>1, <2>2, <2>3, ComposedType, RunType, FilesType DEF TypeOK
<1> QED
  BY <1>1, InitTypes, StepTypes, PTL DEF Spec

-------------------------------------------------------------------------------
(* A directory of one's own.                                               *)

LEMMA InitAlone == ASSUME Init, NEW k \in Kinds PROVE Alone(k)
BY DEF Init, Alone, Writes, NoRun

LEMMA UnchangedAlone ==
    ASSUME NEW k \in Kinds, Alone(k), UNCHANGED <<gen, files>>
    PROVE  Alone(k)'
BY DEF Alone, Writes, files

LEMMA AsideAlone ==
    ASSUME NEW k \in Kinds, Alone(k), NEW g \in Generators, Aside(g)
    PROVE  Alone(k)'
BY DEF Alone, Writes, Aside, files

LEMMA ClearAlone ==
    ASSUME TypeInv, NEW k \in Kinds, Alone(k), NEW c \in Kinds, Clear(c)
    PROVE  Alone(k)'
<1>1. CASE c = k
  <2>1. \A g \in Generators : ~Writes(g, k)'
    BY <1>1 DEF Clear, Writes
  <2>2. listed'[k] = None
    BY <1>1 DEF Clear, TypeInv, Files
  <2> QED
    BY <2>1, <2>2 DEF Alone
<1>2. CASE c # k
  <2>1. part'[k] = part[k] /\ listed'[k] = listed[k] /\ gen' = gen
    BY <1>2 DEF Clear, TypeInv, Files
  <2> QED
    BY <2>1 DEF Alone, Writes
<1> QED
  BY <1>1, <1>2

(* Who finds no directory is the first to write into it, and writes alone. *)
LEMMA MakeDirectoryAlone ==
    ASSUME TypeInv, NEW k \in Kinds \ {"readiness"}, Alone(k),
           NEW g \in Generators, MakeDirectory(g)
    PROVE  Alone(k)'
<1> DEFINE run == [gen[g] EXCEPT !.at = "writing"]
<1>1. Rendering(gen[g]) /\ Shaped(gen[g]) /\ gen[g].at = "built"
  BY WhoRenders DEF MakeDirectory, TypeInv
<1>2. UNCHANGED <<part, listed>>
  BY DEF MakeDirectory
<1>3. CASE DirectoryFree(gen[g].kind)
  <2>1. Run(g, run)
    BY <1>3 DEF MakeDirectory
  <2>2. Sound(run) /\ run.kind = gen[g].kind /\ run.next = 1
    BY <1>1 DEF Sound, Shaped, Rendering
  <2> HIDE DEF run
  <2>3. gen'[g] = run /\ \A h \in Generators \ {g} : gen'[h] = gen[h]
    BY <2>1, <2>2, RunKeepsRuns DEF TypeInv
  <2>4. CASE gen[g].kind = k
    <3>1. ~made[k]
      BY <1>3, <2>4 DEF DirectoryFree
    <3>2. \A h \in Generators : ~Writes(h, k)
      BY <3>1 DEF Writes, TypeInv, Housed
    <3>3. listed[k] = None
      BY <3>1 DEF TypeInv, Files
    <3>4. \A h \in Generators : Writes(h, k)' => h = g
      BY <2>3, <3>2 DEF Writes
    <3> QED
      BY <1>2, <2>2, <2>3, <3>3, <3>4 DEF Alone
  <2>5. CASE gen[g].kind # k
    <3>1. \A h \in Generators : Writes(h, k)' => Writes(h, k) /\ gen'[h] = gen[h]
      BY <2>2, <2>3, <2>5 DEF Writes
    <3> QED
      BY <1>2, <3>1 DEF Alone
  <2> QED
    BY <2>4, <2>5
<1>4. CASE ~DirectoryFree(gen[g].kind)
  <2>1. Run(g, NoRun) /\ UNCHANGED files
    BY <1>4 DEF MakeDirectory, files
  <2>2. Aside(g)
    BY <2>1, NoRunIsSound, RunKeepsRuns DEF TypeInv, Aside, NoRun
  <2> QED
    BY <2>2, AsideAlone
<1> QED
  BY <1>3, <1>4

LEMMA WritePartAlone ==
    ASSUME TypeInv, NEW k \in Kinds, Alone(k),
           NEW g \in Generators, WritePart(g)
    PROVE  Alone(k)'
<1> DEFINE r   == gen[g]
           run == [r EXCEPT !.next = r.next + 1]
<1>1. /\ Rendering(r) /\ Shaped(r)
      /\ r.next \in 1..Parts /\ r.at = "writing"
  BY WhoRenders DEF WritePart, TypeInv, Rendering
<1>2. /\ Run(g, run) /\ UNCHANGED listed
      /\ part' = [part EXCEPT ![r.kind][r.next] = r.report]
  BY DEF WritePart
<1>3. /\ Sound(run) /\ run.kind = r.kind /\ run.at = "writing"
      /\ run.report = r.report /\ run.next = r.next + 1
  BY <1>1, ChainAssumption DEF Sound, Shaped, Rendering
<1> HIDE DEF run
<1>4. gen'[g] = run /\ \A h \in Generators \ {g} : gen'[h] = gen[h]
  BY <1>2, <1>3, RunKeepsRuns DEF TypeInv
<1>5. CASE r.kind = k
  <2>1. Writes(g, k) /\ listed[k] = None
    BY <1>1, <1>5 DEF Writes, Alone
  <2>2. \A h \in Generators : Writes(h, k)' => h = g
    BY <1>4, <2>1 DEF Writes, Alone
  <2>3. ASSUME NEW i \in 1..Parts, i < r.next + 1
        PROVE  part'[k][i] = r.report
    <3>1. k \in DOMAIN part /\ i \in DOMAIN part[k]
      BY DEF TypeInv, Files
    <3>2. i # r.next => part[k][i] = r.report
      BY <1>1, <2>1, <2>3 DEF Alone
    <3> QED
      BY <1>2, <1>5, <3>1, <3>2
  <2> QED
    BY <1>2, <1>3, <1>4, <2>1, <2>2, <2>3 DEF Alone
<1>6. CASE r.kind # k
  <2>1. \A h \in Generators : Writes(h, k)' => Writes(h, k) /\ gen'[h] = gen[h]
    BY <1>3, <1>4, <1>6 DEF Writes
  <2>2. part'[k] = part[k]
    BY <1>2, <1>6 DEF TypeInv, Files
  <2>3. \A a, b \in Generators : Writes(a, k)' /\ Writes(b, k)' => a = b
    BY <2>1 DEF Alone
  <2>4. ASSUME NEW h \in Generators, Writes(h, k)'
        PROVE  /\ listed'[k] = None
               /\ \A i \in 1..Parts : i < gen'[h].next => part'[k][i] = gen'[h].report
    BY <1>2, <2>1, <2>2, <2>4 DEF Alone
  <2>5. listed'[k] # None =>
          \E x \in {part'[k][1]} : x # None /\ part'[k] = [i \in 1..Parts |-> x]
    BY <1>2, <2>2 DEF Alone
  <2> QED
    BY <2>3, <2>4, <2>5 DEF Alone
<1> QED
  BY <1>5, <1>6

(* The list is written when all parts are of the writer's report.          *)
LEMMA WriteManifestAlone ==
    ASSUME TypeInv, NEW k \in Kinds, Alone(k),
           NEW g \in Generators, WriteManifest(g)
    PROVE  Alone(k)'
<1> DEFINE r == gen[g]
<1>1. Rendering(r) /\ r.next > Parts /\ r.at = "writing" /\ r.report # None
  BY WhoRenders DEF WriteManifest, TypeInv
<1>2. Run(g, NoRun) /\ part' = part /\ listed' = [listed EXCEPT ![r.kind] = part[r.kind]]
  BY DEF WriteManifest
<1>3. gen'[g] = NoRun /\ \A h \in Generators \ {g} : gen'[h] = gen[h]
  BY <1>2, NoRunIsSound, RunKeepsRuns DEF TypeInv
<1>4. \A h \in Generators : Writes(h, k)' => Writes(h, k) /\ gen'[h] = gen[h] /\ h # g
  BY <1>3 DEF Writes, NoRun
<1>5. CASE r.kind = k
  <2>1. Writes(g, k)
    BY <1>1, <1>5 DEF Writes
  <2>2. \A h \in Generators : ~Writes(h, k)'
    BY <1>4, <2>1 DEF Alone
  <2>3. \A i \in 1..Parts : part[k][i] = r.report
    BY <1>1, <2>1, ChainAssumption DEF Alone, Rendering
  <2>4. part[k] = [i \in 1..Parts |-> r.report] /\ part[k][1] = r.report
    BY SMTT(30), <2>3, ChainAssumption DEF TypeInv, Files
  <2> QED
    BY <1>1, <1>2, <2>2, <2>4 DEF Alone
<1>6. CASE r.kind # k
  <2>1. listed'[k] = listed[k]
    BY <1>2, <1>6 DEF TypeInv, Files
  <2> QED
    BY <1>2, <1>4, <2>1 DEF Alone
<1> QED
  BY <1>5, <1>6

LEMMA StepAlone ==
    ASSUME TypeInv, [Next]_vars, NEW k \in Kinds \ {"readiness"}, Alone(k)
    PROVE  Alone(k)'
<1>1. CASE Tick \/ Edit \/ Compose
  BY <1>1, OperatorTypes, UnchangedAlone
<1>2. ASSUME NEW c \in Kinds, Clear(c) PROVE Alone(k)'
  BY <1>2, ClearAlone
<1>3. ASSUME NEW g \in Generators,
             \/ ValidateReview(g) \/ BuildReview(g)
             \/ BuildReadiness(g) \/ BuildApproval(g) \/ Crash(g)
      PROVE  Alone(k)'
  BY <1>3, ValidateTypes, BuildTypes, CrashTypes, AsideAlone
<1>4. ASSUME NEW g \in Generators, Write(g) PROVE Alone(k)'
  BY <1>4, MakeDirectoryAlone, WritePartAlone, WriteManifestAlone DEF Write
<1>5. CASE UNCHANGED vars
  BY <1>5, UnchangedAlone DEF vars, files
<1> QED
  BY <1>1, <1>2, <1>3, <1>4, <1>5 DEF Next

(* ListMeansComplete, for any number of generators and parts: a review or  *)
(* approval directory that has its list has all its files, and they are    *)
(* renderings of one report, whichever generators ran, raced or died.      *)
THEOREM ListsAreComplete == Spec => []ListMeansComplete
<1>1. Init => ChainInv
  BY InitTypes, InitAlone DEF ChainInv
<1>2. ChainInv /\ [Next]_vars => ChainInv'
  <2> SUFFICES ASSUME ChainInv, [Next]_vars PROVE ChainInv'
    OBVIOUS
  <2>1. TypeInv'
    BY StepTypes DEF ChainInv
  <2>2. \A k \in Kinds \ {"readiness"} : Alone(k)'
    BY StepAlone DEF ChainInv
  <2> QED
    BY <2>1, <2>2 DEF ChainInv
<1>3. ChainInv => ListMeansComplete
  BY DEF ChainInv, Alone, ListMeansComplete
<1> QED
  BY <1>1, <1>2, <1>3, PTL DEF Spec

-------------------------------------------------------------------------------
(* What the decisions rest on.                                             *)

(* With every demand made, a pilot that plans webhooks and blocks nothing  *)
(* has passed every field of every gate but the monitoring plan's.         *)
LEMMA NothingBlocksMeansPassed ==
    ASSUME EverythingDemanded, NEW p \in Profile, ~Blocking(p),
           p.webhooks, p.pilotLike,
           NEW g \in Gates \ {"known_limitations"}, NEW f \in GateFields[g]
    PROVE  p.status[f] = "passed"
<1>1. \A x \in Referenced : x \in RequiredFields(p) => p.status[x] = "passed"
  BY DEF Blocking, RefFinding
<1>2. RequiredFields(p) = Referenced
  BY DEF EverythingDemanded, RequiredFields, Referenced, DemandedBy, Demands, SmokeExcused
<1>3. ~PostureFinding(p)
  BY DEF Blocking
<1>4. /\ Passed(p, {"admin_auth"}) /\ Passed(p, {"secret_provider", "storage_review"})
      /\ Passed(p, {"database_migration", "migration_safety"})
      /\ Passed(p, {"support_diagnostics", "support_redaction"})
      /\ ~WebhookFinding(p)
      /\ \A a \in Approvals : p.status[a] = "passed"
  BY <1>3 DEF PostureFinding, EverythingDemanded, Demands
<1>5. Passed(p, Webhooks)
  BY <1>4 DEF WebhookFinding, EverythingDemanded, Demands
<1> QED
  BY <1>1, <1>2, <1>4, <1>5
     DEF Passed, Referenced, DemandedBy, Gates, GateFields, Webhooks, Approvals

(* GoMeansGates, with all pilot_readiness_require_* on: a report that says *)
(* GO to a pilot with webhooks has every gate passed but the one that      *)
(* shows the monitoring plan.                                              *)
THEOREM GoRestsOnGates ==
    ASSUME EverythingDemanded PROVE Spec => []GoMeansGates
<1>1. TypeInv => GoMeansGates
  <2> SUFFICES ASSUME TypeInv, NEW g \in Generators, gen[g].kind = "readiness",
                      gen[g].at \in {"built", "writing"},
                      gen[g].report.decision = "GO",
                      gen[g].input.webhooks, gen[g].input.pilotLike,
                      NEW x \in Gates \ {"known_limitations"}
               PROVE  gen[g].report.gates[x] = "passed"
    BY DEF GoMeansGates, Reports
  <2> DEFINE p == gen[g].input
  <2>1. p \in Profile /\ gen[g].report = ReadinessReport(p)
    BY WhoRenders, ChainAssumption DEF TypeInv, Rendering, Built
  <2>2. Decision(p) = "GO" /\ gen[g].report.gates[x] = GateStatus(p, x)
    BY <2>1 DEF ReadinessReport
  <2>3. ~Blocking(p)
    BY <2>2 DEF Decision
  <2>4. \A f \in GateFields[x] : p.status[f] = "passed"
    BY <2>1, <2>3, NothingBlocksMeansPassed
  <2>5. GateStatus(p, x) = "passed"
    BY <2>4 DEF GateStatus
  <2> QED
    BY <2>2, <2>5
<1> QED
  BY <1>1, InitTypes, StepTypes, PTL DEF Spec

(* ApprovalRests, with pilot_approval_packet_require_go_decision on: the   *)
(* packet of an approval was composed from a readiness report that said GO *)
(* and from a review in which nothing had expired or waited for renewal.   *)
THEOREM ApprovalsRest ==
    ASSUME GoInsisted PROVE Spec => []ApprovalRests
<1>1. TypeInv => ApprovalRests
  <2> SUFFICES ASSUME TypeInv, NEW g \in Generators, gen[g].kind = "approval",
                      gen[g].at \in {"built", "writing"},
                      gen[g].report.evaluation = "approved_placeholder"
               PROVE  /\ gen[g].input.from.readiness.decision = "GO"
                      /\ \A e \in Evidence :
                            /\ ~gen[g].input.from.review.gates[e].renewal
                            /\ gen[g].input.from.review.gates[e].expiry
                                  \notin {"expired", "renewal_required"}
    BY DEF ApprovalRests, Reports
  <2> DEFINE k == gen[g].input
  <2>1. Composed(k) /\ gen[g].report = ApprovalReport(k.figures)
    BY WhoRenders DEF TypeInv, Rendering, Built
  <2>2. Evaluation(k.figures) = "approved_placeholder"
    BY <2>1 DEF ApprovalReport
  <2>3. ~OpenPosture(k.figures)
    BY <2>2 DEF Evaluation
  <2>4. /\ k.figures.readiness = "GO"
        /\ k.figures.expired = 0 /\ k.figures.renewals = 0
    BY <2>1, <2>3 DEF OpenPosture, GoInsisted, Composed, Packet
  <2>5. /\ k.from.readiness.decision = "GO"
        /\ ExpiredItems(k.from.review.gates) = 0
        /\ RenewalItems(k.from.review.gates) = 0
    BY <2>1, <2>4 DEF Composed, Counted
  <2> QED
    BY <2>5, NothingCounted
<1> QED
  BY <1>1, InitTypes, StepTypes, PTL DEF Spec
===============================================================================
