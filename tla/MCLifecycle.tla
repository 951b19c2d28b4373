----------------------------- MODULE MCLifecycle -----------------------------
(* Small instances of Lifecycle; the .cfg files choose among them. *)
EXTENDS Lifecycle, TLC

(* A record nobody has reviewed, and two of the demo data of old. *)
Fresh == {[row |-> NoRow, events |-> <<>>]}

Legacy ==
    {[row    |-> [status |-> "blocked", reason |-> "j2_demo_fixture", count |-> 1],
      events |-> <<[from |-> "new", to |-> "blocked", reason |-> "j2_demo_fixture"]>>],
     [row    |-> [status |-> "completed", reason |-> "j2_demo_fixture", count |-> 1],
      events |-> <<[from |-> "new", to |-> "completed", reason |-> "j2_demo_fixture"]>>]}

FreshAndLegacy == Fresh \cup Legacy

RequestSymmetry == Permutations(Reviewers) \cup Permutations(Viewers)
===============================================================================
