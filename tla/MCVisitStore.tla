---------------------------- MODULE MCVisitStore ----------------------------
(***************************************************************************)
(* VisitStore for TLC.  So that every case happens in a small graph, a     *)
(* behaviour has one focus for good:                                       *)
(*   "events"  - two runs start, no start is retried, two offline events;  *)
(*   "retries" - two runs, the start of one retried, one offline event;    *)
(*   "links"   - one run, two offline events, the link reconciler; these   *)
(*               behaviours are fair.                                      *)
(***************************************************************************)
EXTENDS VisitStore

VARIABLE focus

MCRunOf == [r \in Run |-> [client |-> "c1", ssid |-> IF r = 1 THEN "s1" ELSE "s2"]]

Line(controller, received, ssid) ==
  [client |-> "c1", controller |-> controller, received |-> received, ssid |-> ssid, valid |-> TRUE]

\* A line of the other network that arrives late, one whose controller clock is ahead, and one
\* that is not valid.
MCEvidence == {Line(0, 1, "s2"), Line(1, 0, None), [Line(0, 0, None) EXCEPT !.valid = FALSE]}

InFocus ==
  /\ focus = "events"  => \A r \in Run : call[r].pc = "active" => call[r].attempt = 0
  /\ focus = "retries" => call[2].attempt <= 1 /\ events[2] = NoRow
  /\ focus = "links"   => call[1].attempt <= 1 /\ call[2] = NoCall
  /\ focus # "links"   => link = NoLink /\ \A e \in Event : events[e].result # "invalid"

MCInit == focus \in {"events", "retries", "links"} /\ Init
MCNext == UNCHANGED focus /\ Next /\ InFocus'

\* Fairness of VisitStore, for the behaviours with the focus "links".
MCSpec ==
  /\ MCInit /\ [][MCNext]_<<vars, focus>>
  /\ WF_vars(focus = "links" /\ Tick)
  /\ WF_vars(focus = "links" /\ BeginPass)
  /\ SF_vars(focus = "links" /\ \E e \in Event : RetryPending(e))
  /\ WF_vars(focus = "links" /\ pass.on /\ PassIsOver /\ EndPass(FALSE))

\* Every event that waits for its visit is resolved, although a pass examines at most Batch rows and
\* rows that are not due stay at the front of the queue (in the fair behaviours).
PendingEventsAreResolved == focus = "links" => PendingIsResolved
=============================================================================
