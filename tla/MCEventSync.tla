------------------------------ MODULE MCEventSync ------------------------------
(* Small instances of EventSync; the .cfg files choose among them. *)
EXTENDS EventSync, TLC
CONSTANTS k1, k2, p1, i1, rfis
BothAboutIt == [k \in Keys |-> i1]
KeySymmetry == Permutations(Keys)
OneRfi      == i1 :> rfis
OneProfile  == p1 :> {i1}
===============================================================================
