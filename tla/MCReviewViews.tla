---------------------------- MODULE MCReviewViews ----------------------------
(* Small instances of ReviewViews; the .cfg files choose among them. *)
EXTENDS ReviewViews

(* The two that read record by record on their own, and everything but the *)
(* listing together, as on the dashboard and in a packet.                  *)
AnyView ==
    {{"intake", "records"}, {"triage"},
     {"intake", "lifecycle", "triage", "attachments", "events"}}
==============================================================================
