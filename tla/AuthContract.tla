---------------------------- MODULE AuthContract ----------------------------
(***************************************************************************)
(* What the portal promises the client of an authorization session: one    *)
(* run at a time, an outcome for each run, a further run only after a      *)
(* retryable failure, and no way back from a final outcome.  Every session *)
(* is independent of the others; several may move in one step, because     *)
(* cleanup expires all overdue sessions under one lock.                    *)
(***************************************************************************)
EXTENDS Integers

CONSTANT Sessions

VARIABLES outcome, run

Init ==
    /\ outcome = [s \in Sessions |-> "none"]
    /\ run = [s \in Sessions |-> 0]

Stay(s) == outcome'[s] = outcome[s] /\ run'[s] = run[s]

Open(s) ==
    /\ outcome[s] = "none"
    /\ outcome'[s] = "active" /\ run'[s] = 1

Finish(s) ==
    /\ outcome[s] = "active"
    /\ outcome'[s] \in {"retryable", "AUTHORIZED", "FAILED", "EXPIRED"} /\ run'[s] = run[s]

Retry(s) ==
    /\ outcome[s] = "retryable"
    /\ outcome'[s] = "active" /\ run'[s] = run[s] + 1

\* The TTL ends a session whatever its outcome was.
Expire(s) ==
    /\ outcome[s] # "none"
    /\ outcome'[s] = "EXPIRED" /\ run'[s] = run[s]

Next == \A s \in Sessions : Stay(s) \/ Open(s) \/ Finish(s) \/ Retry(s) \/ Expire(s)

Spec == Init /\ [][Next]_<<outcome, run>>
=============================================================================
