----------------------------- MODULE MCEventQueue -----------------------------
(* Model values for EventQueue; the .cfg files choose the bounds. *)
EXTENDS EventQueue, TLC

WorkerSymmetry == Permutations(Workers)
===============================================================================
