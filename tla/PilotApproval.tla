----------------------------- MODULE PilotApproval -----------------------------
(* The evaluation of a pilot approval packet (services/pilot_approval.py).   *)
(* Pure operators on a packet; its counts and its readiness decision are     *)
(* what an operator has copied from the two other reports.                   *)
EXTENDS Naturals, FiniteSets

CONSTANT Insists    \* the pilot_approval_packet_require_* settings that are on

InsistsOn == {"go_decision", "no_expired_evidence", "limitations_section",
              "rollback_conditions", "signoff_placeholders"}

ASSUME InsistsAssumption == Insists \subseteq InsistsOn

ApprovalStatus ==
    {"draft_placeholder", "ready_for_private_review", "needs_review", "blocked",
     "approved_placeholder", "rejected_placeholder", "not_applicable"}

Settled == {"ready_for_private_review", "approved_placeholder", "not_applicable"}

(* The lists of a packet as sets; of an item of them only the status counts, *)
(* and of a launch condition whether it is required.                         *)
Packet ==
    [wish        : ApprovalStatus,      \* approval_decision
     readiness   : {"GO", "NO_GO", "NEEDS_REVIEW", "BLOCKED"},
     expired     : Nat,
     renewals    : Nat,
     launch      : SUBSET [required : BOOLEAN, status : ApprovalStatus],
     rollback    : SUBSET ApprovalStatus,
     limitations : SUBSET ApprovalStatus,
     risks       : SUBSET ApprovalStatus,
     signoffs    : BOOLEAN,
     unsafe      : BOOLEAN]     \* any finding with one of the SAFETY_CODES

(* The warnings of the validation.                                           *)
ApprovalWarning(k) ==
    \/ k.launch = {}
    \/ "rollback_conditions" \in Insists /\ k.rollback = {}
    \/ "limitations_section" \in Insists /\ k.limitations = {}
    \/ k.limitations # {} /\ k.risks = {}
    \/ "signoff_placeholders" \in Insists /\ ~k.signoffs
    \/ /\ k.wish = "approved_placeholder"
       /\ \/ k.readiness \in {"NO_GO", "BLOCKED"}
          \/ "no_expired_evidence" \in Insists /\ k.expired > 0
          \/ k.renewals > 0 /\ (k.limitations = {} \/ k.risks = {})

Settles(k) == k.rollback \cup k.limitations \cup k.risks \subseteq Settled

(* Mutant: the warning about renewals, which a risk acceptance settles, is   *)
(* taken to be enough.                                                       *)
RenewalsAccepted(k) ==
    \/ ApprovalWarning(k)
    \/ \E c \in k.launch : c.required /\ c.status \notin Settled
    \/ ~Settles(k)
    \/ k.expired > 0
    \/ "go_decision" \in Insists /\ k.readiness # "GO"

OpenPosture(k) ==
    \/ ApprovalWarning(k)
    \/ \E c \in k.launch : c.required /\ c.status \notin Settled
    \/ ~Settles(k)
    \/ k.expired > 0
    \/ k.renewals > 0
    \/ "go_decision" \in Insists /\ k.readiness # "GO"

Evaluation(k) ==
    IF k.unsafe THEN "blocked"
    ELSE IF k.wish = "rejected_placeholder" THEN "rejected_placeholder"
    ELSE IF OpenPosture(k) THEN "needs_review"
    ELSE IF k.wish = "approved_placeholder" THEN "approved_placeholder"
    ELSE "ready_for_private_review"

ApprovalReport(k) ==
    [blocked    |-> Evaluation(k) = "blocked",
     evaluation |-> Evaluation(k),
     passed     |-> [pilot_readiness |-> k.readiness \notin {"NO_GO", "BLOCKED"},
                     evidence_review |-> k.expired = 0 /\ k.renewals = 0,
                     conditions_and_signoff |->
                         k.launch # {} /\ k.rollback # {} /\ k.signoffs]]
===============================================================================
