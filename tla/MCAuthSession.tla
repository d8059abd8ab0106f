---------------------------- MODULE MCAuthSession ----------------------------
(***************************************************************************)
(* AuthSession for TLC.  MCAuthRuns.cfg follows the runs of one session    *)
(* (FairHistorySpec), MCAuthSessions.cfg two sessions of one client        *)
(* (HistorySpec).                                                          *)
(***************************************************************************)
EXTENDS AuthHistory, TLC

CONSTANTS m1, i1

\* A client that is first seen by its IP only and later with its MAC.
IpFirst == {[mac |-> NoMac, ip |-> i1], [mac |-> m1, ip |-> i1]}

SessionSymmetry == Permutations(Sessions)
=============================================================================
