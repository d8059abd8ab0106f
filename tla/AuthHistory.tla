----------------------------- MODULE AuthHistory -----------------------------
(***************************************************************************)
(* AuthSession with one fact about the past that the code does not keep    *)
(* and that decides whether a client may have two open runs: has a session *)
(* been created for an entry without a MAC?  Such a session learns its MAC *)
(* later, from the controller, and set_client_mac then takes the MAC's key *)
(* over from whichever session holds it.                                   *)
(***************************************************************************)
EXTENDS AuthSession

VARIABLE ipOnly   \* has a session been created by an entry that carried no MAC?

HistoryInit == Init /\ ipOnly = FALSE

\* A lone session cannot share a client, and is not followed.
HistoryNext ==
    /\ Next
    /\ ipOnly' = (ipOnly \/ \E s, t \in Sessions : /\ s # t
                                                   /\ sess[s].cur = 0 /\ sess'[s].cur = 1
                                                   /\ sess'[s].mac = NoMac)

HistorySpec == HistoryInit /\ [][HistoryNext]_<<vars, ipOnly>>

\* The same with the fairness of FairSpec.
FairHistorySpec == HistorySpec /\ Fairness

\* A client has two open runs at a time only if one of the sessions ever created was created by an
\* entry without a MAC: neither expiry, removal, replacement nor a retry lets a second one in
\* (create_or_get).
OneRunPerClient == ~ipOnly => OneOpenRunPerMac
=============================================================================
