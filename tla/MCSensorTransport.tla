-------------------------- MODULE MCSensorTransport --------------------------
(***************************************************************************)
(* SensorTransport for TLC, in three configurations; a behaviour keeps one *)
(* of them, its focus, for good:                                           *)
(*   "window"  - with the coalescer, events submitted as they happen, on a *)
(*               disk that has room;                                       *)
(*   "default" - without it, as delivered, with two capture threads,       *)
(*               events that may be late and a disk that may fill up;      *)
(*   "live"    - with it on such a disk, but no memo of the next expiry,   *)
(*               one row of spool and no row that gets too old: these      *)
(*               behaviours are fair, and the table drains by delivery.    *)
(***************************************************************************)
EXTENDS SensorTransport

VARIABLE focus

\* Event 3 fills the byte budget of the window on its own.
Sizes == [e \in 1..4 |-> IF e = 3 THEN 2 ELSE 1]

Prompt == INSTANCE SensorTransport WITH Lag <- 0
Default == INSTANCE SensorTransport
             WITH Coalesce <- FALSE, Sources <- {"raw", "eve"},
                  Window <- 0, MaxTime <- 1
Live == INSTANCE SensorTransport
             WITH Gate <- FALSE, Health <- {2, 3}, MaxEvents <- 1, Lag <- 0,
                  MaxTime <- 1

MCInit ==
    \/ focus = "window"  /\ Prompt!Init
    \/ focus = "default" /\ Default!Init
    \/ focus = "live"    /\ Live!Init

MCNext ==
    /\ UNCHANGED focus
    /\ \/ focus = "window"  /\ Prompt!Next /\ ~full'
       \/ focus = "default" /\ Default!Next
       \/ focus = "live"    /\ Live!Next

\* The fairness of FairSpec, for the behaviours with the focus "live".
MCSpec ==
    /\ MCInit /\ [][MCNext]_<<vars, focus>>
    /\ WF_vars(focus = "live" /\ Live!Timer)
    /\ WF_vars(focus = "live" /\ Live!Deliver)
    /\ WF_vars(focus = "live" /\ Live!Tick)
    /\ WF_vars(focus = "live" /\ Live!DiskRelief)
    /\ SF_vars(focus = "live" /\ Live!Post("ok"))

\* In the fair behaviours evidence does not stay in memory, and the table is emptied and takes
\* events again (_run of the coalescer, deliver_once).
EvidenceIsSent == focus = "live" => Live!WindowIsWritten /\ Live!SpoolDrains

\* The behaviours with the focus "live".
OutageSpec == focus = "live" /\ MCSpec
=============================================================================
