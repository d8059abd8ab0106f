-------------------------- MODULE MCPendingCleaner --------------------------
(***************************************************************************)
(* PendingCleaner and ActionGuard for TLC.  A behaviour has one focus for  *)
(* good:                                                                   *)
(*   "stop"   - two clients that stay where they are, and a shutdown (the  *)
(*              constants of the .cfg); these behaviours are fair;         *)
(*   "guests" - one client that moves and visits the portal;               *)
(*   "guard"  - the guard alone, with three clients and more attempts than *)
(*              scans of this length make.                                 *)
(***************************************************************************)
EXTENDS PendingCleaner

CONSTANTS m1, m2, m3

VARIABLE focus

Guests == INSTANCE PendingCleaner WITH Mobile <- {m1}, MaxActions <- 1

Guard == INSTANCE ActionGuard WITH MaxClock <- 8

cleanerVars == <<pc, scanVars, journalOk, envVars, lateEntry, lateSends, verdict>>

\* The clients that are there when a behaviour starts, all of them pending.
Present == CASE focus = "stop"   -> {m1, m2}
             [] focus = "guests" -> {m1}
             [] focus = "guard"  -> {}

MCInit ==
    /\ focus \in {"stop", "guests", "guard"}
    /\ Init
    /\ \A m \in Macs : client[m].status = IF m \in Present THEN "pending" ELSE "gone"

MCNext ==
    /\ UNCHANGED focus
    /\ \/ focus = "stop" /\ Next
       \/ focus = "guests" /\ Guests!Next
       \/ focus = "guard" /\ Guard!GuardNext /\ UNCHANGED cleanerVars

\* The fairness of FairSpec, for the behaviours with the focus "stop".
MCSpec == MCInit /\ [][MCNext]_<<vars, focus>> /\ WF_vars(focus = "stop" /\ Worker)

\* In the fair behaviours a scan comes to its end and the thread of a stopped worker terminates
\* (run_once, stop).
WorkerComesToRest == focus = "stop" => ScansEnd /\ StopEnds
=============================================================================
