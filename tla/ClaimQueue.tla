------------------------------ MODULE ClaimQueue ------------------------------
(***************************************************************************)
(* What the event queue promises of an event no operator replays, without  *)
(* batches, copies, locks or time: one worker at a time has the claim to   *)
(* it, a claim brings it one result at most, every failed attempt is       *)
(* counted once, and the last one allowed drops it.  Two things are not    *)
(* promised: an event can be dropped by a worker without a claim, and one  *)
(* that has its result can be claimed and worked on again.                 *)
(*                                                                         *)
(* A replay takes the event, and whoever is at work on it, out of the      *)
(* promise.                                                                *)
(***************************************************************************)
EXTENDS Naturals

CONSTANTS Keys, Workers, MaxAttempts

VARIABLES
    result,    \* of an event: absent, waiting, done, dropped or replayed
    attempts,  \* those that failed
    claim,     \* of a worker: the event, if any, that it has the claim to
    answered   \* the workers whose claim has brought its result

vars == <<result, attempts, claim, answered>>

Init ==
    /\ result = [k \in Keys |-> "absent"]
    /\ attempts = [k \in Keys |-> 0]
    /\ claim = [w \in Workers |-> {}]
    /\ answered = {}

Present(k) == result[k] \in {"waiting", "done", "dropped"}

(* Every worker is free to claim: nobody has the event.                    *)
Unclaimed(k) == \A w \in Workers : k \notin claim[w]

Deliver(k) ==
    /\ result[k] = "absent"
    /\ \E r \in {"waiting", "dropped"} : result' = [result EXCEPT ![k] = r]
    /\ UNCHANGED <<attempts, claim, answered>>

Claim(w, k) ==
    /\ Present(k)
    /\ Unclaimed(k)
    /\ claim[w] = {}
    /\ claim' = [claim EXCEPT ![w] = {k}]
    /\ UNCHANGED <<result, attempts, answered>>

AtWork(w, k) == k \in claim[w] /\ w \notin answered

Reopen(w, k) ==
    /\ AtWork(w, k)
    /\ result' = [result EXCEPT ![k] = "waiting"]
    /\ UNCHANGED <<attempts, claim, answered>>

Answer(w) ==
    /\ answered' = answered \cup {w}
    /\ UNCHANGED claim

Succeed(w, k) ==
    /\ AtWork(w, k)
    /\ result' = [result EXCEPT ![k] = "done"]
    /\ Answer(w)
    /\ UNCHANGED attempts

Fail(w, k) ==
    /\ AtWork(w, k)
    /\ attempts' = [attempts EXCEPT ![k] = @ + 1]
    /\ result' = [result EXCEPT ![k] = IF attempts[k] + 1 >= MaxAttempts
                                       THEN "dropped" ELSE "waiting"]
    /\ Answer(w)

(* A claim ends once it has brought its result, or when its worker dies.   *)
Leave(w) ==
    /\ claim' = [claim EXCEPT ![w] = {}]
    /\ answered' = answered \ {w}
    /\ UNCHANGED <<result, attempts>>

Release(w) == w \in answered /\ Leave(w)

Die(w) == claim[w] # {} /\ Leave(w)

Drop(k) ==
    /\ Present(k)
    /\ result' = [result EXCEPT ![k] = "dropped"]
    /\ UNCHANGED <<attempts, claim, answered>>

Replay(k) ==
    /\ Present(k)
    /\ result' = [result EXCEPT ![k] = "replayed"]
    /\ attempts' = [attempts EXCEPT ![k] = 0]
    /\ claim' = [w \in Workers |-> claim[w] \ {k}]
    /\ answered' = {w \in answered : k \notin claim[w]}

Next ==
    \/ \E k \in Keys : Deliver(k) \/ Drop(k) \/ Replay(k)
    \/ \E w \in Workers, k \in Keys :
          Claim(w, k) \/ Reopen(w, k) \/ Succeed(w, k) \/ Fail(w, k)
    \/ \E w \in Workers : Release(w) \/ Die(w)

Spec == Init /\ [][Next]_vars
===============================================================================
