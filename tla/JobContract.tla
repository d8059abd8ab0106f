----------------------------- MODULE JobContract -----------------------------
(***************************************************************************)
(* What the device fingerprint integration promises for every authorized   *)
(* run that is submitted to it, whatever crashes, expires or is submitted  *)
(* twice: a bounded number of classifications, at most one of them stored; *)
(* one verdict on the run, which agrees with what is stored; and a search  *)
(* for the run's device and visit that only ever adds to what it found.    *)
(***************************************************************************)
EXTENDS Naturals

CONSTANTS Runs, Devices, Visits, MaxAttempts, None

VARIABLES
    work,  \* run |-> [phase, tries, stored]
    link   \* run |-> what is known of its identity

Open  == {"UNRESOLVED", "DEVICE_RESOLVED"}

Link ==
    {x \in [identity : Open \cup {"DEVICE_AND_VISIT_RESOLVED", "CONFLICT"},
            device : Devices \cup {None}, visit : Visits \cup {None}, done : BOOLEAN] :
       /\ x.identity \in {"DEVICE_RESOLVED", "DEVICE_AND_VISIT_RESOLVED"} => x.device # None
       /\ x.identity = "DEVICE_AND_VISIT_RESOLVED" => x.visit # None}

NoLink == [identity |-> "UNRESOLVED", device |-> None, visit |-> None, done |-> FALSE]

Init ==
    /\ \A r \in Runs : work[r] = [phase |-> "none", tries |-> 0, stored |-> FALSE]
    /\ \A r \in Runs : link[r] = NoLink

Submit(r) ==
    /\ work[r].phase = "none"
    /\ work'[r] = [work[r] EXCEPT !.phase = "open"]
    /\ link'[r] = link[r]

\* The run is classified, and the classification stored or lost.
Try(r) ==
    /\ work[r].phase = "open" /\ ~work[r].stored /\ work[r].tries < MaxAttempts
    /\ \E stored \in BOOLEAN :
          work'[r] = [phase |-> "open", tries |-> work[r].tries + 1, stored |-> stored]
    /\ link'[r] = link[r]

\* A verdict that speaks of the stored classification tells the truth about it.
Verdicts(stored) ==
    {"unreadable", "conflict"}
      \cup (IF stored THEN {"classified"} ELSE {"unavailable", "incompatible"})

Conclude(r) ==
    /\ work[r].phase = "open"
    /\ \E verdict \in Verdicts(work[r].stored) :
          /\ work'[r] = [work[r] EXCEPT !.phase = verdict]
          /\ link'[r] = IF verdict = "conflict" THEN [link[r] EXCEPT !.identity = "CONFLICT"]
                                                ELSE link[r]

\* One attempt to identify the run, the last one included.
Learn(r) ==
    /\ work[r].phase # "none"
    /\ link[r].identity \in Open /\ ~link[r].done
    /\ link'[r] \in Link
    /\ link[r].device # None => link'[r].device = link[r].device
    /\ link[r].visit # None => link'[r].visit = link[r].visit
    /\ link[r].identity = "DEVICE_RESOLVED" => link'[r].identity # "UNRESOLVED"
    /\ work'[r] = work[r]

Next ==
    \E r \in Runs :
       /\ Submit(r) \/ Try(r) \/ Conclude(r) \/ Learn(r)
       /\ \A s \in Runs \ {r} : work'[s] = work[s] /\ link'[s] = link[s]

Spec == Init /\ [][Next]_<<work, link>>
=============================================================================
