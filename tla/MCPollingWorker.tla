--------------------------- MODULE MCPollingWorker ---------------------------
(* Small instances of PollingWorker; the .cfg files choose among them. *)
EXTENDS PollingWorker, TLC

CONSTANTS p1, p2, i1, i2, rfis, submittals

OneProfile   == p1 :> {i1, i2}
OneItem      == p1 :> {i1}
BothHaveItem == [p \in {p1, p2} |-> {i1}]
FirstHasItem == (p1 :> {i1}) @@ (p2 :> {})

EachItsTool == (i1 :> rfis) @@ (i2 :> submittals)
OneRfi      == i1 :> rfis

Plain  == {DueRequest}
Forced == {[force |-> TRUE, mock |-> TRUE]}

WorkerSymmetry == Permutations(Workers)

(* The two items trade places together with their tools.                   *)
Swapped == (i1 :> i2) @@ (i2 :> i1) @@ (rfis :> submittals) @@ (submittals :> rfis)

ItemSymmetry == WorkerSymmetry \cup {Swapped}
===============================================================================
