----------------------------- MODULE MCPilotChain -----------------------------
(* Small instances of PilotChain; the .cfg files choose among them.          *)
EXTENDS PilotChain, TLC

Accepted == [status |-> "accepted_placeholder", expiry |-> "needs_review",
             renewal |-> FALSE, reviewed |-> 0, expires |-> 1]

(* Good for a day, waiting for renewal, put off, and not dated.           *)
Items ==
    {Accepted,
     [Accepted EXCEPT !.renewal = TRUE],
     [Accepted EXCEPT !.status = "not_applicable"],
     [Accepted EXCEPT !.reviewed = Placeholder, !.expires = Placeholder]}

AllPassed ==
    [status |-> [f \in Fields |-> "passed"], ref |-> [f \in Fields |-> "placeholder"],
     pilotLike |-> TRUE, localOnly |-> FALSE, tokenAdmin |-> TRUE, stubs |-> {},
     localDb |-> FALSE, webhooks |-> TRUE, limited |-> FALSE, unsafe |-> FALSE]

(* Everything passed; no smoke test; no monitoring plan; a local dry run.    *)
Profiles ==
    {AllPassed,
     [AllPassed EXCEPT !.status["sandbox_smoke"] = "not_applicable", !.localOnly = TRUE],
     [AllPassed EXCEPT !.status["monitoring_plan"] = "missing"],
     [AllPassed EXCEPT !.status["webhook_signature"] = "failed"],
     [AllPassed EXCEPT !.limited = TRUE]}

Asked ==
    [wish |-> "approved_placeholder", readiness |-> "NEEDS_REVIEW",
     expired |-> 0, renewals |-> 0,
     launch |-> {[required |-> TRUE, status |-> "ready_for_private_review"]},
     rollback |-> {"ready_for_private_review"},
     limitations |-> {"ready_for_private_review"}, risks |-> {"approved_placeholder"},
     signoffs |-> TRUE, unsafe |-> FALSE]

Packets == {Asked}

RunSymmetry == Permutations(Generators)

FewItems == {Accepted, [Accepted EXCEPT !.renewal = TRUE]}

FewProfiles == {AllPassed, [AllPassed EXCEPT !.status["webhook_signature"] = "failed"]}
===============================================================================
