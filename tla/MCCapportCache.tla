--------------------------- MODULE MCCapportCache ---------------------------
(***************************************************************************)
(* CapportCache for TLC.  A behaviour has one focus for good: "cache" (two *)
(* clients may hold the address) or "answers" (one client; these           *)
(* behaviours are fair).                                                   *)
(***************************************************************************)
EXTENDS CapportCache

CONSTANTS m1, m2

VARIABLE focus

InFocus == focus = "answers" => auth = {} /\ \A ip \in IP : addr[ip] # m2

MCInit == focus \in {"cache", "answers"} /\ Init /\ InFocus
MCNext == UNCHANGED focus /\ Next /\ InFocus'

\* The fairness of FairSpec, for the behaviours with the focus "answers".
MCSpec ==
  /\ MCInit /\ [][MCNext]_<<vars, focus>>
  /\ \A t \in Thread :
       /\ WF_vars(/\ focus = "answers"
                  /\ \/ LookUpIdentity(t) \/ ListRead(t) \/ ListFails(t) \/ StoreIdentity(t)
                     \/ LookUpState(t) \/ DetailFails(t) \/ StoreState(t) \/ Respond(t))
       /\ SF_vars(focus = "answers" /\ EnterRefresh(t))
       /\ SF_vars(focus = "answers" /\ EnterLock(t))

\* Every request is answered: threads that wait for each other's refreshes, identity changes and
\* failures end in an answer (in the fair behaviours).
RequestsAreAnswered == focus = "answers" => Answered
=============================================================================
