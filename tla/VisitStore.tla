----------------------------- MODULE VisitStore -----------------------------
(***************************************************************************)
(* The visit store of one site: visits, their authorizations and the       *)
(* controller's offline events, and the four writers that change them:     *)
(* the start submitter of the authorization workers, the journal reader    *)
(* (new lines and the retry of pending events), the link reconciler and    *)
(* the operator's recovery tool.  Every database transaction is one step;  *)
(* WriteCoordinator says who gets to write, JournalReader which lines are  *)
(* read.  Times are clock ticks.                                           *)
(***************************************************************************)
EXTENDS Integers, Sequences, FiniteSets, FiniteSetsExt

CONSTANTS Client,       \* client MACs
          Run,          \* authorization runs (auth_session_id, auth_run_number)
          RunOf,        \* RunOf[r]: its client and the portal's SSID
          Event,        \* ids of offline events, ordered as event_id is
          Evidence,     \* what a journal line may say about a client
          Device,       \* device ids the registry may give
          None,         \* SQL NULL
          Grace,        \* offline_match_grace_seconds
          Skew,         \* max_offline_clock_skew_seconds
          MaxAttempts,  \* start_max_attempts
          Batch,        \* pending_offline_batch_size
          MaxTime       \* bound: starts and lines arrive until MaxTime

ASSUME StoreAssumption ==
  /\ RunOf \in [Run -> [client : Client, ssid : STRING \cup {None}]]
  /\ Event \subseteq Nat
  /\ Grace \in Nat /\ Skew \in Nat /\ MaxTime \in Nat
  /\ MaxAttempts \in Nat \ {0} /\ Batch \in Nat \ {0}

\* A journal line names a client and may carry a network and the times of the controller and of receipt.
ASSUME EvidenceAssumption ==
  Evidence \subseteq [client : Client, ssid : STRING \cup {None}, controller : Int \cup {None},
                     received : Int \cup {None}, valid : BOOLEAN]
ASSUME NoneAssumption == None \notin Int \cup {"offline", "recovered"}

VARIABLES
  clock,      \* utc_now()
  visits,     \* table visits, in order of insertion
  auths,      \* table visit_authorizations
  events,     \* table visit_source_events: events[e] is its row
  call,       \* call[r]: the call of submit_authorized for run r
  accepting,  \* the submitter accepts calls
  pass,       \* the reader's pass over the pending events
  link        \* the reconciler's pass: the visit and the device it looked up

vars == <<clock, visits, auths, events, call, accepting, pass, link>>

NoRow == [result |-> "none", reason |-> None, visit |-> None, until |-> None, evidence |-> None]
NoCall == [pc |-> "new", attempt |-> 0, at |-> 0, now |-> 0, status |-> "none"]
Done(status) == [NoCall EXCEPT !.pc = "done", !.status = status]
NoPass == [on |-> FALSE, cursor |-> <<-1, -1>>, examined |-> 0]
NoLink == [visit |-> 0, device |-> None]

Init ==
  /\ clock = 0
  /\ visits = <<>>
  /\ auths = {}
  /\ events = [e \in Event |-> NoRow]
  /\ call = [r \in Run |-> NoCall]
  /\ accepting = TRUE
  /\ pass = NoPass
  /\ link = NoLink

Horizon == MaxTime + Grace

-----------------------------------------------------------------------------
(* Reading the tables                                                      *)

\* Variant: the lookup does not ask for an open visit.
OpenVisit_AnyStatus(c) == {v \in DOMAIN visits : visits[v].client = c}

OpenVisit(c) == {v \in DOMAIN visits : visits[v].client = c /\ visits[v].status = "open"}

AuthsOf(v) == {a \in auths : a.visit = v}

\* SELECT MAX(authorized_at)
LatestAuthorized(v) == Max({a.at : a \in AuthsOf(v)})

KnownSsids(v) == ({a.ssid : a \in AuthsOf(v)} \cup {visits[v].ssid}) \ {None}

SsidIsSafe(v, ssid) == ssid = None \/ KnownSsids(v) = {} \/ ssid \in KnownSsids(v)

-----------------------------------------------------------------------------
(* Visit starts                                                            *)

\* Variant: a start is accepted after stop_accepting.
SubmitAuthorized_Always(r) ==
  /\ clock <= MaxTime
  /\ call[r].pc = "new"
  /\ call' = [call EXCEPT ![r] = [NoCall EXCEPT !.pc = "active", !.at = clock]]
  /\ UNCHANGED <<clock, visits, auths, events, accepting, pass, link>>

\* submit_authorized is entered; authorized_at is the time of the authorization.
SubmitAuthorized(r) ==
  /\ clock <= MaxTime
  /\ call[r].pc = "new"
  /\ call' = [call EXCEPT ![r] =
                IF accepting THEN [NoCall EXCEPT !.pc = "active", !.at = clock]
                ELSE Done("failed")]
  /\ UNCHANGED <<clock, visits, auths, events, accepting, pass, link>>

Finish(r, status) == call' = [call EXCEPT ![r] = Done(status)]

\* One attempt: now_utc is taken, then the write slot is waited for.
BeginAttempt(r) ==
  /\ call[r].pc = "active"
  /\ IF accepting
     THEN call' = [call EXCEPT ![r].pc = "writing", ![r].attempt = @ + 1, ![r].now = clock]
     ELSE Finish(r, "failed")
  /\ UNCHANGED <<clock, visits, auths, events, accepting, pass, link>>

NewVisit(r) ==
  [client |-> RunOf[r].client, ssid |-> RunOf[r].ssid, started |-> call[r].at,
   created |-> call[r].now, status |-> "open", closed |-> None, source |-> None,
   reason |-> None, event |-> None, device |-> None]

Authorization(r, v) == [visit |-> v, run |-> r, at |-> call[r].at, ssid |-> RunOf[r].ssid]

\* Variant: every start opens a visit of its own.
CreateOrReuseStart_NoLookup(r) ==
  /\ visits' = Append(visits, NewVisit(r))
  /\ auths' = auths \cup {Authorization(r, Len(visits) + 1)}

\* Variant: a run that is already recorded is recorded again.
CreateOrReuseStart_NotIdempotent(r) ==
  LET open == OpenVisit(RunOf[r].client)
      v == IF open = {} THEN Len(visits) + 1 ELSE Max(open)
  IN /\ visits' = IF open = {} THEN Append(visits, NewVisit(r)) ELSE visits
     /\ auths' = auths \cup {Authorization(r, v)}

\* create_or_reuse_start, the transaction
CreateOrReuseStart(r) ==
  IF \E a \in auths : a.run = r
  THEN UNCHANGED <<visits, auths>>
  ELSE LET open == OpenVisit(RunOf[r].client)
           v == IF open = {} THEN Len(visits) + 1 ELSE Max(open)
       IN /\ visits' = IF open = {} THEN Append(visits, NewVisit(r)) ELSE visits
          /\ auths' = auths \cup {Authorization(r, v)}

\* The transaction commits and its outcome (opened, reused or duplicate) reaches the submitter.
StartCommits(r) ==
  /\ call[r].pc = "writing"
  /\ CreateOrReuseStart(r)
  /\ Finish(r, "stored")
  /\ UNCHANGED <<clock, events, accepting, pass, link>>

\* What the submitter does with BUSY: another attempt, unless attempts or budget are used up.
AfterBusy(r) ==
  \/ call[r].attempt < MaxAttempts /\ call' = [call EXCEPT ![r].pc = "active"]
  \/ Finish(r, "failed")

\* BUSY from the write slot or from SQLite.  The transaction was rolled back, or it was committed
\* and the answer lost: the case visit.start_retry_recovered reports.
StartIsBusy(r) ==
  /\ call[r].pc = "writing"
  /\ \/ UNCHANGED <<visits, auths>>
     \/ CreateOrReuseStart(r)
  /\ AfterBusy(r)
  /\ UNCHANGED <<clock, events, accepting, pass, link>>

\* Any other storage error, a validation error, or the stop event while waiting for the slot.
StartFails(r) ==
  /\ call[r].pc = "writing"
  /\ Finish(r, "failed")
  /\ UNCHANGED <<clock, visits, auths, events, accepting, pass, link>>

\* stop_accepting, the first step of the runtime's close()
StopAccepting ==
  /\ accepting
  /\ accepting' = FALSE
  /\ UNCHANGED <<clock, visits, auths, events, call, pass, link>>

-----------------------------------------------------------------------------
(* Offline events                                                          *)

Rejected(why) == [closed |-> None, source |-> None, reason |-> why]

\* Variant: the event is compared with the start of the visit only.
MatchOffline_FirstAuthorization(ev, v) ==
  IF ev.controller # None /\ ev.controller >= visits[v].started
  THEN [closed |-> ev.controller, source |-> "controller", reason |-> None]
  ELSE Rejected("stale_or_ambiguous")

\* Variant: the network is not compared.
MatchOffline_AnySsid(ev, v) ==
  LET floor == Max({visits[v].started, LatestAuthorized(v)})
  IN IF ev.controller # None /\ ev.controller >= floor
     THEN [closed |-> ev.controller, source |-> "controller", reason |-> None]
     ELSE Rejected("stale_or_ambiguous")

\* _match_offline; there is no visit without an authorization
MatchOffline(ev, v) ==
  LET floor == Max({visits[v].started, LatestAuthorized(v)})
      fallback == Cardinality(AuthsOf(v)) = 1 /\ ev.received # None /\ ev.received >= floor
      match == IF ev.controller # None /\ ev.controller >= floor
               THEN [closed |-> ev.controller, source |-> "controller", reason |-> None]
               ELSE IF fallback /\ (ev.controller # None => ev.controller >= floor - Skew)
               THEN [closed |-> ev.received, source |-> "received", reason |-> None]
               ELSE Rejected("stale_or_ambiguous")
  IN IF match.closed # None /\ ~SsidIsSafe(v, ev.ssid) THEN Rejected("ssid_changed") ELSE match

Closed(v, closed, source, reason, e) ==
  [visits EXCEPT ![v].status = "closed", ![v].closed = closed, ![v].source = source,
                 ![v].reason = reason, ![v].event = e]

\* _finalize_or_reject; row is the event's row, stored or not yet
FinalizeOrReject(e, row, v) ==
  LET match == MatchOffline(row.evidence, v)
  IN IF match.closed = None
     THEN /\ events' = [events EXCEPT ![e] =
                          [row EXCEPT !.result = "unmatched", !.reason = match.reason]]
          /\ UNCHANGED visits
     ELSE /\ events' = [events EXCEPT ![e] =
                          [row EXCEPT !.result = "closed", !.reason = None, !.visit = v]]
          /\ visits' = Closed(v, match.closed, match.source, "offline", e)

\* Variant: a line read again is applied again.
ApplyJournalLine_NoDuplicateCheck(e, ev) ==
  LET open == OpenVisit(ev.client)
      row == [NoRow EXCEPT !.evidence = ev]
  IN IF open = {}
     THEN /\ events' = [events EXCEPT ![e] =
                          [row EXCEPT !.result = "pending_match", !.until = clock + Grace]]
          /\ UNCHANGED visits
     ELSE FinalizeOrReject(e, row, Max(open))

\* _apply_journal_line_transaction for an offline event with an id; a line that is not one, or has
\* no id, changes only the reader's progress.
ApplyJournalLine(e, ev) ==
  LET open == OpenVisit(ev.client)
      row == [NoRow EXCEPT !.evidence = ev]
  IN CASE events[e].result # "none" -> UNCHANGED <<visits, events>>
       [] events[e].result = "none" /\ ~ev.valid ->
            /\ events' = [events EXCEPT ![e] = [row EXCEPT !.result = "invalid"]]
            /\ UNCHANGED visits
       [] events[e].result = "none" /\ ev.valid /\ open = {} ->
            /\ events' = [events EXCEPT ![e] =
                            [row EXCEPT !.result = "pending_match", !.reason = "no_open_visit",
                                        !.until = clock + Grace]]
            /\ UNCHANGED visits
       [] events[e].result = "none" /\ ev.valid /\ open # {} -> FinalizeOrReject(e, row, Max(open))

\* A line of the journal is applied, for the first time or again.
ReadLine(e, ev) ==
  /\ clock <= MaxTime
  /\ ev.received # None => ev.received <= clock
  /\ events[e].result # "none" => ev = events[e].evidence
  /\ ApplyJournalLine(e, ev)
  /\ UNCHANGED <<clock, auths, call, accepting, pass, link>>

-----------------------------------------------------------------------------
(* process_pending_events: one pass in the order (pending_until, event_id) *)
(* (a pass is bounded by the scan's deadline, far less than a tick)        *)

After(a, b) == a[1] > b[1] \/ (a[1] = b[1] /\ a[2] > b[2])

Key(e) == <<events[e].until, e>>

PendingAfter(cursor) ==
  {e \in Event : events[e].result = "pending_match" /\ After(Key(e), cursor)}

BeginPass ==
  /\ ~pass.on
  /\ pass' = [NoPass EXCEPT !.on = TRUE]
  /\ UNCHANGED <<clock, visits, auths, events, call, accepting, link>>

\* Variant: the retry forgets the end of the grace period.
RetryPendingRow_AnyVisit(e) ==
  LET row == events[e]
      open == OpenVisit(row.evidence.client)
  IN IF open # {}
     THEN FinalizeOrReject(e, row, Max(open))
     ELSE /\ events' = [events EXCEPT ![e].result =
                          IF clock >= row.until THEN "unmatched" ELSE "pending_match"]
          /\ UNCHANGED visits

\* Variant: a pending row is never given up.
RetryPendingRow_NeverExpires(e) ==
  LET row == events[e]
      open == {v \in OpenVisit(row.evidence.client) : visits[v].created <= row.until}
  IN IF open # {}
     THEN FinalizeOrReject(e, row, Max(open))
     ELSE UNCHANGED <<visits, events>>

\* _retry_pending_row
RetryPendingRow(e) ==
  LET row == events[e]
      open == {v \in OpenVisit(row.evidence.client) : visits[v].created <= row.until}
  IN IF open # {}
     THEN FinalizeOrReject(e, row, Max(open))
     ELSE /\ events' = [events EXCEPT ![e].result =
                          IF clock >= row.until THEN "unmatched" ELSE "pending_match"]
          /\ UNCHANGED visits

\* A chunk holds at most a few rows and may hold one: each row is committed by itself.
RetryPending(e) ==
  /\ pass.on
  /\ pass.examined < Batch
  /\ e \in PendingAfter(pass.cursor)
  /\ \A other \in PendingAfter(pass.cursor) : other = e \/ After(Key(other), Key(e))
  /\ RetryPendingRow(e)
  /\ pass' = [pass EXCEPT !.cursor = Key(e), !.examined = @ + 1]
  /\ UNCHANGED <<clock, auths, call, accepting, link>>

PassIsOver == pass.examined >= Batch \/ PendingAfter(pass.cursor) = {}

\* The pass ends: no work, the limit, or (early) the deadline, BUSY or the stop event.
EndPass(early) ==
  /\ pass.on
  /\ early \/ PassIsOver
  /\ pass' = NoPass
  /\ UNCHANGED <<clock, visits, auths, events, call, accepting, link>>

-----------------------------------------------------------------------------
(* Recovery tool: closes an open visit with an event rejected earlier      *)

\* Variant: the recovery looks at the start of the visit only.
Recoverable_SinceStart(v) ==
  {e \in Event :
     /\ events[e].result = "unmatched"
     /\ events[e].reason = "stale_or_ambiguous"
     /\ events[e].evidence.client = visits[v].client
     /\ events[e].evidence.controller # None
     /\ events[e].evidence.controller >= visits[v].started}

Recoverable(v) ==
  {e \in Event :
     /\ events[e].result = "unmatched"
     /\ events[e].reason = "stale_or_ambiguous"
     /\ events[e].evidence.client = visits[v].client
     /\ events[e].evidence.controller # None
     /\ events[e].evidence.controller >= LatestAuthorized(v)
     /\ events[e].visit = None
     /\ \A u \in DOMAIN visits : visits[u].event # e
     /\ SsidIsSafe(v, events[e].evidence.ssid)}

\* _terminal_signature: everything but the id and the time of receipt
Signature(e) == [events[e].evidence EXCEPT !.received = None]

\* the events at the earliest time; their signatures must agree
Earliest(v) ==
  {e \in Recoverable(v) :
     \A other \in Recoverable(v) : events[e].evidence.controller <= events[other].evidence.controller}

\* _apply_one
Recover(v) ==
  /\ v \in DOMAIN visits
  /\ visits[v].status = "open"
  /\ Recoverable(v) # {}
  /\ \A e, f \in Earliest(v) : Signature(e) = Signature(f)
  /\ LET e == Min(Earliest(v))
     IN /\ events' = [events EXCEPT ![e].result = "closed", ![e].reason = None, ![e].visit = v]
        /\ visits' = Closed(v, events[e].evidence.controller, "controller", "recovered", e)
  /\ UNCHANGED <<clock, auths, call, accepting, pass, link>>

-----------------------------------------------------------------------------
(* Link reconciler: looks a visit's device up, then records the attempt    *)

LookUp(v, d) ==
  /\ link = NoLink
  /\ v \in DOMAIN visits
  /\ visits[v].device = None
  /\ link' = [visit |-> v, device |-> d]
  /\ UNCHANGED <<clock, visits, auths, events, call, accepting, pass>>

\* record_reconciliation_attempt (stored = FALSE: the attempt fails, is stopped or out of time)
RecordReconciliationAttempt(stored) ==
  /\ link # NoLink
  /\ visits' = IF stored /\ visits[link.visit].device = None
               THEN [visits EXCEPT ![link.visit].device = link.device] ELSE visits
  /\ link' = NoLink
  /\ UNCHANGED <<clock, auths, events, call, accepting, pass>>

-----------------------------------------------------------------------------
\* The process dies and is started again: calls and passes are gone, the tables stay.
Restart ==
  /\ clock <= MaxTime
  /\ call' = [r \in Run |-> IF call[r].pc \in {"active", "writing"}
                            THEN Done("failed") ELSE call[r]]
  /\ accepting' = TRUE
  /\ pass' = NoPass
  /\ link' = NoLink
  /\ UNCHANGED <<clock, visits, auths, events>>

Tick ==
  /\ clock < Horizon
  /\ clock' = clock + 1
  /\ UNCHANGED <<visits, auths, events, call, accepting, pass, link>>

Submitter(r) ==
  \/ SubmitAuthorized(r)
  \/ BeginAttempt(r)
  \/ StartCommits(r)
  \/ StartIsBusy(r)
  \/ StartFails(r)

Next ==
  \/ Tick
  \/ \E r \in Run : Submitter(r)
  \/ StopAccepting
  \/ \E e \in Event, ev \in Evidence : ReadLine(e, ev)
  \/ BeginPass
  \/ \E e \in Event : RetryPending(e)
  \/ \E early \in BOOLEAN : EndPass(early)
  \/ \E v \in DOMAIN visits : Recover(v)
  \/ \E v \in DOMAIN visits, d \in Device : LookUp(v, d)
  \/ \E stored \in BOOLEAN : RecordReconciliationAttempt(stored)
  \/ Restart

Spec == Init /\ [][Next]_vars

\* The clock runs; the reader scans again and again and not every pass is cut short.
Fairness ==
  /\ WF_vars(Tick)
  /\ WF_vars(BeginPass)
  /\ SF_vars(\E e \in Event : RetryPending(e))
  /\ WF_vars(pass.on /\ PassIsOver /\ EndPass(FALSE))

FairSpec == Spec /\ Fairness

-----------------------------------------------------------------------------
(* Properties                                                              *)

\* Types, and the row constraints of the schema: an open visit has no closing data.
TypeOK ==
  /\ clock \in 0 .. Horizon
  /\ \A v \in DOMAIN visits :
       /\ visits[v].client \in Client
       /\ visits[v].status = "open" => visits[v].closed = None /\ visits[v].event = None
       /\ visits[v].status = "closed" => visits[v].closed >= visits[v].started
       /\ AuthsOf(v) # {}
  /\ \A a \in auths : a.visit \in DOMAIN visits /\ a.run \in Run
  /\ \A e \in Event : events[e].result \in {"none", "pending_match", "closed", "unmatched", "invalid"}
  /\ \A r \in Run : call[r].pc \in {"new", "active", "writing", "done"}
  /\ accepting \in BOOLEAN

\* However starts, offline events, retries and restarts interleave, a client has at most one open
\* visit (idx_visits_one_open would turn a second one into a storage error).
OneOpenVisit == \A c \in Client : Cardinality(OpenVisit(c)) <= 1

\* Offline events and closed visits are in one-to-one correspondence, whichever of the reader, the
\* retry and the recovery tool closed the visit, and however often a line is read again.
ClosedByOneEvent ==
  /\ \A v \in DOMAIN visits : visits[v].status = "closed" =>
       events[visits[v].event].result = "closed" /\ events[visits[v].event].visit = v
  /\ \A e \in Event : events[e].result = "closed" => visits[events[e].visit].event = e

\* A visit is never closed at a time before an authorization attached to it, although starts are
\* attached late (retries) and events arrive late (grace, recovery).
NotClosedBeforeAuthorization ==
  \A a \in auths : visits[a.visit].status = "closed" => a.at <= visits[a.visit].closed

\* A run is recorded once, even when the answer of its commit was lost and the start is retried
\* after its visit was closed; and what was reported as stored is stored.
RunRecordedOnce ==
  \A r \in Run :
    /\ Cardinality({a \in auths : a.run = r}) <= 1
    /\ call[r].status = "stored" => \E a \in auths : a.run = r

\* Client, visit, run and offline event keep their one-to-one links, whatever is retried or read
\* again (create_or_reuse_start, apply_journal_line, recovery).
VisitsHappenOnce == TypeOK /\ OneOpenVisit /\ ClosedByOneEvent /\ RunRecordedOnce

\* An event that had to wait closes only a visit that was created before its grace period ended,
\* unless the recovery tool closes it.
GraceLimitsMatch ==
  \A v \in DOMAIN visits :
    visits[v].reason = "offline" /\ events[visits[v].event].until # None
      => visits[v].created <= events[visits[v].event].until

\* A visit is never closed by an offline event of another network: an SSID that contradicts every
\* SSID of the visit's authorizations is rejected, also by the recovery tool and although later
\* authorizations add SSIDs.
SsidsAgree ==
  \A v \in DOMAIN visits :
    visits[v].status = "closed" => SsidIsSafe(v, events[visits[v].event].evidence.ssid)

\* The recovery tool closes only what the reader could have closed: the event is not older than any
\* authorization of the visit, and it had not closed another visit.
RecoveredIsSound ==
  \A v \in DOMAIN visits : visits[v].reason = "recovered" =>
    /\ events[visits[v].event].evidence.controller = visits[v].closed
    /\ \A a \in AuthsOf(v) : a.at <= visits[v].closed
    /\ \A u \in DOMAIN visits : visits[u].event = visits[v].event => u = v

\* Every closed visit was closed by evidence that fits it in time and network, by whichever path.
ClosesAreJustified ==
  NotClosedBeforeAuthorization /\ GraceLimitsMatch /\ SsidsAgree /\ RecoveredIsSound

\* Closing is final: no later start, event, retry, restart or recovery changes a closed visit,
\* except that the reconciler fills in a missing device once.
KeepsClosed ==
  \A v \in DOMAIN visits :
    /\ visits[v].status = "closed" => [visits'[v] EXCEPT !.device = None] = [visits[v] EXCEPT !.device = None]
    /\ visits[v].device # None => visits'[v].device = visits[v].device

\* After stop_accepting, once wait_for_idle has seen no active call, no start is written any more
\* until the process is started again.
Idle == ~accepting /\ \A r \in Run : call[r].pc \in {"new", "done"}
KeepsIdle == Idle => auths' = auths /\ (accepting' \/ Idle')

\* Nothing is written late: neither into a closed visit nor into an idle store.
NothingIsWrittenLate == [][KeepsClosed /\ KeepsIdle]_vars

\* Every event that waits for its visit is resolved, although a pass examines at most Batch rows and
\* rows that are not due stay at the front of the queue.
PendingIsResolved ==
  \A e \in Event : events[e].result = "pending_match" ~> events[e].result # "pending_match"
=============================================================================
