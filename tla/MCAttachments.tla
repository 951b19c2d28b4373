----------------------------- MODULE MCAttachments -----------------------------
(* Small instances of Attachments; the .cfg files choose among them. *)
EXTENDS Attachments, TLC

CONSTANTS drawing, photo, letter

Three == {drawing, photo, letter}

(* The sanitised names of two attachments agree. *)
TwoCollide == drawing :> "plan.pdf" @@ photo :> "plan.pdf" @@ letter :> "note.txt"

PlanAndNote == {"plan.pdf", "note.txt"}

Symmetry == Permutations(Planners) \cup Permutations(Downloaders)
            \cup Permutations(Labels) \cup Permutations({drawing, photo})
===============================================================================
