---------------------------- MODULE EvidenceReview ----------------------------
(* The review of private evidence (services/evidence_review.py): the expiry  *)
(* of an item, the validation of a manifest, and the report on it.  Pure     *)
(* operators; the day is an argument, because the code asks the clock anew   *)
(* each time it wants an expiry.                                             *)
EXTENDS Integers, FiniteSets

CONSTANTS
    Evidence,       \* the evidence ids of the manifest
    Required,       \* those with required_for_gate
    WarnWithin,     \* evidence_review_warn_within_days
    MaxWindow       \* evidence_review_max_expiry_days

ASSUME EvidenceAssumption ==
    /\ IsFiniteSet(Evidence)
    /\ Required \subseteq Evidence
    /\ WarnWithin \in Nat
    /\ MaxWindow \in Nat

ReviewStatus ==
    {"not_started", "needs_review", "reviewed_placeholder",
     "accepted_placeholder", "rejected_placeholder", "blocked", "not_applicable"}

ExpiryStatus ==
    {"current", "needs_review", "expires_soon", "expired", "renewal_required",
     "blocked", "not_applicable"}

(* What a date field holds: a day, a placeholder, or nothing.                *)
Blank == -1
Placeholder == -2
Dates == Nat \cup {Blank, Placeholder}

Item == [status : ReviewStatus, expiry : ExpiryStatus, renewal : BOOLEAN,
         reviewed : Dates, expires : Dates]

Dated(item) == item.reviewed \in Nat /\ item.expires \in Nat

DatedExpiry(item, day) ==
    IF item.expires <= day THEN "expired"
    ELSE IF item.expires - day <= WarnWithin THEN "expires_soon"
    ELSE "current"

EffectiveExpiry(item, day) ==
    IF item.status = "not_applicable" THEN "not_applicable"
    ELSE IF item.renewal THEN "renewal_required"
    ELSE IF Dated(item) THEN DatedExpiry(item, day)
    ELSE item.expiry

ItemFindings(item, day) ==
    {code \in {"expiry_order", "expiry_window", "accepted_review_time",
               "accepted_expiry_time", "expired_accepted"} :
        LET accepted == item.status = "accepted_placeholder" IN
        CASE code = "expiry_order" ->
                Dated(item) /\ item.expires < item.reviewed
          [] code = "expiry_window" ->
                Dated(item) /\ item.expires - item.reviewed > MaxWindow
          [] code = "accepted_review_time" -> accepted /\ item.reviewed = Blank
          [] code = "accepted_expiry_time" -> accepted /\ item.expires = Blank
          [] code = "expired_accepted" ->
                accepted /\ EffectiveExpiry(item, day) = "expired" /\ ~item.renewal}

(* "unsafe" stands for the findings about the manifest as a whole: review    *)
(* disabled, too many items, a production profile, an identity that is no    *)
(* placeholder, and whatever the scan of its strings has found.              *)
ReviewFindings(manifest, day) ==
    (IF manifest.unsafe THEN {"unsafe"} ELSE {})
        \cup UNION {ItemFindings(manifest.items[e], day) : e \in Evidence}

BlocksGate(e, item, day) ==
    /\ e \in Required
    /\ \/ item.status \in {"not_started", "needs_review",
                           "rejected_placeholder", "blocked"}
       \/ EffectiveExpiry(item, day) \in {"expired", "renewal_required", "blocked"}

ReviewGate(e, item, day) ==
    [status  |-> item.status,
     expiry  |-> EffectiveExpiry(item, day),
     renewal |-> item.renewal,
     blocks  |-> BlocksGate(e, item, day)]

(* The counts of the summary a pilot approval packet takes over.             *)
ExpiredItems(gates) == Cardinality({e \in Evidence : gates[e].expiry = "expired"})

RenewalItems(gates) ==
    Cardinality({e \in Evidence :
        gates[e].renewal \/ gates[e].expiry = "renewal_required"})

(* The report after a validation whose findings are already there.           *)
ReviewReport(manifest, findings, day) ==
    LET gates == [e \in Evidence |-> ReviewGate(e, manifest.items[e], day)] IN
    [blocked  |-> findings # {},
     gates    |-> gates,
     expired  |-> ExpiredItems(gates),
     renewals |-> RenewalItems(gates)]
===============================================================================
