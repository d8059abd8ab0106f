------------------------- MODULE MCTrafficProjection -------------------------
(***************************************************************************)
(* TrafficProjection for TLC.  So that every case happens in a small       *)
(* graph, a behaviour has one focus for good:                              *)
(*   "range"    - the worker, rebuild-range and cleanup over three cycles, *)
(*                with kills but no other failures;                        *)
(*   "repair"   - the worker, repair, cleanup, mark-ready and activate     *)
(*                over two cycles, one of them with late access points;    *)
(*   "versions" - two versions that become ready, active or failed;        *)
(*   "late"     - the worker alone and cycles that end late; these         *)
(*                behaviours are fair.                                     *)
(***************************************************************************)
EXTENDS TrafficProjection

CONSTANT Foci

VARIABLE focus

Used == [range    |-> {Null, "run", "range", "cleanup"},
         repair   |-> {Null, "run", "repair", "cleanup", "mark-ready", "activate"},
         versions |-> {Null, "run", "mark-ready", "activate", "mark-failed"},
         late     |-> {Null, "run"}]

Last == [range |-> 3, repair |-> 2, versions |-> 1, late |-> 2]

MayEnd == [range |-> {1}, repair |-> {1}, versions |-> {}, late |-> {1, 2}]

MayStoreAps == [range |-> {}, repair |-> {1}, versions |-> {}, late |-> {}]

InFocus ==
    /\ now <= Last[focus]
    /\ p.cmd \in Used[focus]
    /\ focus = "versions" \/ (p.v # "v2" /\ ver["v2"] = Null)

\* The steps of TrafficNext, with the source's steps and the commands of the focus.
MCNext ==
    /\ UNCHANGED focus
    /\ \/ StartCycle \/ ClockTick \/ Kill \/ (focus # "range" /\ StepFails) \/ Work
       \/ (\E c \in MayStoreAps[focus] : StoreAps(c)) \/ (\E c \in MayEnd[focus] : EndCycle(c))
       \/ \E cmd \in Used[focus] \ {Null}, v \in Versions : Begin(cmd, v)
       \/ RebuildRange \/ RangeRow \/ (\E v \in Versions : Cleanup(v))
       \/ MarkReady \/ ReadyAudit \/ SetReady \/ Activate \/ SetActive \/ MarkFailed
    /\ InFocus'

MCInit == focus \in Foci /\ TrafficInit

\* The fairness of TrafficFairSpec, for the behaviours with the focus "late".
MCSpec ==
    /\ MCInit /\ [][MCNext]_<<trafficVars, focus>>
    /\ WF_trafficVars(focus = "late" /\ Begin("run", "v1"))
    /\ WF_trafficVars(focus = "late" /\ Work)
    /\ SF_trafficVars(focus = "late" /\ Due /\ p'.pc = "reconcile")
    /\ <>[][focus = "late" => (Kill \/ StepFails => Work) /\ Timely]_trafficVars

\* What the source finally says of the first cycle, which the fast checkpoint has passed when it is
\* finalized, is what the projection holds in the end (in the fair behaviours).
EvidenceArrives == focus = "late" => LateEvidenceArrives("v1", 1)
=============================================================================
