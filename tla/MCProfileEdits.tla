----------------------------- MODULE MCProfileEdits -----------------------------
(* Small instances of ProfileEdits; the .cfg files choose among them. *)
EXTENDS MCPollingWorker, ProfileEdits
===============================================================================
