------------------------------- MODULE MCDemoData -------------------------------
(* Small instances of DemoData; the .cfg files choose among them. *)
EXTENDS DemoData, TLC
CONSTANTS d1, d2
AsListed == (d1 :> 1) @@ (d2 :> 2)
OneNewOneReviewed == (d1 :> "new") @@ (d2 :> "reviewed")
===============================================================================
