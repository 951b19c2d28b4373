----------------------------- MODULE ReviewRecord -----------------------------
(***************************************************************************)
(* What the review lifecycle of an intake record promises: the record      *)
(* walks along the transition graph, every step of the walk is in its      *)
(* history, the current status and reason are those of the last step, and  *)
(* the history never grows past its limit.                                 *)
(*                                                                         *)
(* Once a reviewer has moved the record without having seen where another  *)
(* moved it, less is promised: a step is one of the graph's, but need not  *)
(* begin where the record is, may keep the reason of the step before and   *)
(* is not held to the limit.                                               *)
(***************************************************************************)
EXTENDS Naturals, Sequences

CONSTANTS
    Graph,      \* the allowed pairs of a status and the next one
    Origins,    \* statuses, reasons and histories a record may start with
    Why,        \* reasons a reviewer can give
    Limit       \* the number of steps a history may have

VARIABLES status, reason, walk, blind

vars == <<status, reason, walk, blind>>

Init == \E o \in Origins :
            /\ status = o.status /\ reason = o.reason /\ walk = o.walk
            /\ blind = FALSE

Moves(from, to, why) ==
    /\ <<from, to>> \in Graph
    /\ status' = to
    /\ walk' = Append(walk, [from |-> from, to |-> to, reason |-> why])

Step(to, why) ==
    /\ ~blind
    /\ Len(walk) < Limit
    /\ Moves(status, to, why)
    /\ reason' = why
    /\ blind' = FALSE

BlindStep(from, to, why) ==
    /\ Moves(from, to, why)
    /\ reason' \in {reason, why}
    /\ blind' = TRUE

Next == \E e \in Graph, why \in Why :
            Step(e[2], why) \/ BlindStep(e[1], e[2], why)

Spec == Init /\ [][Next]_vars
===============================================================================
