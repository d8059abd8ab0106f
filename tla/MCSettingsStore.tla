--------------------------- MODULE MCSettingsStore ---------------------------
(***************************************************************************)
(* SettingsStore for TLC.  A behaviour has one focus for good: "race" (two *)
(* clients with the same idempotency key; the key file and the environment *)
(* stay as they are) or "chain" (one client, two keys, a longer chain of   *)
(* generations).                                                           *)
(***************************************************************************)
EXTENDS SettingsStore, FiniteSetsExt

CONSTANTS v1, s1, c1, c2, m1, k1, k2

VARIABLE focus

\* The feature v1 needs the general setting to be v1 too: a prerequisite
\* between settings of two domains.
MCAdmissible == {o \in Overrides : o["features"] = v1 => o["general"] = v1}

Used(c) == req[c] # NoRequest

InFocus ==
    /\ focus = "race" =>
          /\ head <= 2 /\ masterKey = m1 /\ deployed
          /\ MapThenSumSet(LAMBDA c : req[c].tries, Clients) <= 3
          /\ \A c \in Clients : Used(c) => req[c].key = k1
    /\ focus = "chain" => ~Used(c2)
    \* Clients, and keys, are alike: c2 and k2 come second.
    /\ Used(c2) => Used(c1)
    /\ \A c \in Clients : req[c].key = k2 => \E d \in Domains : idem[<<d, k1>>] # None

MCInit == focus \in {"race", "chain"} /\ Init
MCNext == UNCHANGED focus /\ Next /\ InFocus'
MCSpec == MCInit /\ [][MCNext]_<<vars, focus>>
=============================================================================
