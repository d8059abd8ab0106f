------------------------- MODULE MCWriteCoordinator -------------------------
(***************************************************************************)
(* WriteCoordinator for TLC.  A behaviour has one focus for good:          *)
(*   "any"       - two threads that start visits, the journal reader and   *)
(*                 the reconciler, waiting as long as they like, held up   *)
(*                 at will and stopped at any time;                        *)
(* and, with one thread that starts visits, bounded holds and fairness,    *)
(*   "delivered" - both background threads with the delivered waits        *)
(*                 (a tick is 50 ms: start 750, background 250, age 200);  *)
(*   "alone"     - the same without the reconciler;                        *)
(*   "patient"   - both background threads with a background wait that     *)
(*                 outlasts the age and three turns.                       *)
(***************************************************************************)
EXTENDS WriteCoordinator

CONSTANTS s1, s2, reader, reconciler

VARIABLE focus

OpsOf(t) ==
  CASE t \in {s1, s2} -> {"start"}
    [] t = reader -> {"reader_line", "pending_retry"}
    [] t = reconciler -> {"reconciliation"}

\* Only the threads S do something.
OpsOfOnly(S) == [t \in Thread |-> IF t \in S THEN OpsOf(t) ELSE {}]

\* The operations of the foci "delivered" and "patient".
MCOps == OpsOfOnly({s1, reader, reconciler})

Any == INSTANCE WriteCoordinator
         WITH Ops <- OpsOfOnly(Thread), Age <- 2, Wait <- 1, BackgroundWait <- 1
Alone == INSTANCE WriteCoordinator WITH Ops <- OpsOfOnly({s1, reader})
Patient == INSTANCE WriteCoordinator WITH BackgroundWait <- Age + 3 * MaxHold

MCInit ==
  /\ focus \in {"any", "delivered", "alone", "patient"}
  /\ SlotInit

MCNext ==
  /\ UNCHANGED focus
  /\ \/ focus = "any" /\ Any!SlotNext
     \/ focus = "delivered" /\ PromptNext
     \/ focus = "alone" /\ Alone!PromptNext
     \/ focus = "patient" /\ Patient!PromptNext

\* Thread t comes back for op, with the wait of the focus.
Return(t, op) ==
  \/ focus = "delivered" /\ Enter(t, op, SlotWait(op))
  \/ focus = "alone" /\ Alone!Enter(t, op, SlotWait(op))
  \/ focus = "patient" /\ Patient!Enter(t, op, Patient!SlotWait(op))

\* The fairness of PromptSpec, for all behaviours but those with the focus "any".
MCSpec ==
  /\ MCInit /\ [][MCNext]_<<slotVars, focus>>
  /\ SF_slotVars(focus # "any" /\ PromptTick)
  /\ WF_slotVars(focus # "any" /\ \E t \in Thread : Ready(t) /\ Wake(t))
  /\ WF_slotVars(focus # "any" /\ \E t \in Thread, useful \in BOOLEAN : Release(t, useful))
  /\ \A t \in {reader, reconciler} : \A op \in OpsOf(t) : SF_slotVars(Return(t, op))

\* In the fair behaviours background work is served: the background side as a whole with the
\* delivered waits, and each class if only one background thread asks or if the waits outlast the
\* turns of an escape (acquire, release).
ClassesAreServed ==
  /\ focus = "delivered" => BackgroundSideIsServed
  /\ focus = "alone" => Alone!BackgroundIsServed
  /\ focus = "patient" => Patient!BackgroundIsServed

\* The fair behaviours with the delivered waits and both background threads.
DeliveredSpec == focus = "delivered" /\ MCSpec

\* Under these, the link reconciliation comes to its turn again and again (acquire): refuted.  The
\* reader, ahead of it in the queue, uses up its wait: it ages first, then it has its turn.
ReconciliationIsServed == ClassIsServed("reconciliation")
=============================================================================
