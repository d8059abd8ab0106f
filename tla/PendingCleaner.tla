--------------------------- MODULE PendingCleaner ---------------------------
(***************************************************************************)
(* app/pending_sessions: the worker that looks for wireless clients which  *)
(* have been associated but unauthorized for too long and reconnects them. *)
(* One thread scans; clients, portal sessions and shutdown move around it. *)
(* A step ends wherever the thread waits for the controller, reads shared  *)
(* state or writes the audit journal.                                      *)
(*                                                                         *)
(* The controller's sessions are named by the time they began, so that a   *)
(* session's uptime is its age.  The ssid, blocked, wireless and duplicate *)
(* conditions of the classifier do not change while a scan runs and are    *)
(* left out: the clients of the model satisfy them.                        *)
(***************************************************************************)
EXTENDS ActionGuard

CONSTANTS
    MinUptime,     \* min_uptime_seconds
    Tolerance,     \* uptime_regression_tolerance_seconds
    ScanBudget,    \* max_scan_duration_seconds
    MaxActions,    \* max_actions_per_scan
    VerifyRounds,  \* length of verify_delays_seconds
    Grace,         \* portal_grace_seconds
    Mobile,        \* the clients that move and visit the portal (a bound; the others stay as they are)
    ReplyDelay     \* how old a controller answer is at most when it has been checked

ASSUME CleanerAssumption ==
    /\ Mobile \subseteq Macs
    /\ MinUptime \in Nat \ {0} /\ Tolerance \in Nat /\ ScanBudget \in Nat \ {0}
    /\ MaxActions \in Nat \ {0} /\ VerifyRounds \in Nat /\ Grace \in Nat /\ ReplyDelay \in Nat

VARIABLES
    pc,         \* where the worker thread is
    todo,       \* candidates of the scan still to be processed
    cand,       \* the candidate in hand
    reading,    \* the client's session as the controller last read it, and when that was
    before,     \* `fresh': the reading the action is based on
    deadline,   \* end of the scan's time budget
    actions,    \* actions_this_scan
    rounds,     \* verification rounds done
    journalOk,  \* _journal_available
    stop,       \* shutdown_event
    closed,     \* the journal has been closed by stop()
    client,     \* controller: the client's current session
    portal,     \* auth manager: is an auth session active, and until when does the last one count?
    lateEntry,  \* the candidate entered the portal after the last protection check (history)
    lateSends,  \* reconnects sent after the stop flag was raised (history)
    verdict     \* the result _verify has reached, with the sessions it compared (history)

scanVars == <<todo, cand, reading, before, deadline, actions, rounds>>
envVars  == <<stop, closed, client, portal>>
vars     == <<guardVars, pc, scanVars, journalOk, envVars, lateEntry, lateSends, verdict>>

Pcs == {"idle", "list", "next", "check1", "preflight", "preflightSent", "check2", "guard", "plan",
        "post", "postSent", "recover", "recoverSent", "recheck1", "recheck2", "post2", "post2Sent",
        "verify", "verifySent", "complete", "finish", "ended"}

Session   == [status : {"pending", "authorized", "gone"}, since : Nat]
Reading   == [since : Nat, at : Nat]
Candidate == [mac : Macs, uptime : Nat]
ASSUME CandidateAssumption == None \notin Candidate

Verdict   == [result : {"none", "disconnected", "newSession", "authorized"},
              old : Nat \union {None}, new : Nat \union {None}]
NoVerdict == [result |-> "none", old |-> None, new |-> None]

Uptime(x) == clock - x.since

\* write_and_flush may fail, and does once the journal is closed.
Written(ok) == ok => ~closed

\* AuthManagerPendingSessionProtection.check
Protected(m) == portal[m].active \/ clock < portal[m].until

Goto(from, to) == pc = from /\ pc' = to

\* What is known of a candidate is forgotten with it.
DropCandidate == cand' = None /\ reading' = None /\ before' = None /\ rounds' = 0 /\ lateEntry' = FALSE

KeepCandidate == UNCHANGED <<cand, reading, before, rounds, lateEntry>>

-----------------------------------------------------------------------------
(* The scan *)

\* Variant: does not look at the stop flag.
StartScan_IgnoresStop ==
    /\ Goto("idle", "list")
    /\ clock < MaxClock
    /\ deadline' = clock + ScanBudget
    /\ actions' = 0
    /\ UNCHANGED <<guardVars, todo, cand, reading, before, rounds, journalOk, envVars, lateEntry, lateSends, verdict>>

\* The delay between scans is over.  (MaxClock bounds the scans of a behaviour.)
StartScan ==
    /\ Goto("idle", "list")
    /\ ~stop /\ clock < MaxClock
    /\ deadline' = clock + ScanBudget
    /\ actions' = 0
    /\ UNCHANGED <<guardVars, todo, cand, reading, before, rounds, journalOk, envVars, lateEntry, lateSends, verdict>>

EndWorker ==
    /\ Goto("idle", "ended")
    /\ stop
    /\ UNCHANGED <<guardVars, scanVars, journalOk, envVars, lateEntry, lateSends, verdict>>

Eligible(x) == x.status = "pending" /\ Uptime(x) >= MinUptime

\* paginate_site_inventory and classify_inventory.  An inventory that is cut short by an error, the
\* stop flag or the budget has no candidates.
ListClients ==
    /\ Goto("list", "next")
    /\ todo' = { [mac |-> m, uptime |-> Uptime(client[m])] : m \in { k \in Macs : Eligible(client[k]) } }
    /\ UNCHANGED <<guardVars, cand, reading, before, deadline, actions, rounds, journalOk, envVars,
                   lateEntry, lateSends, verdict>>

ListFails ==
    /\ Goto("list", "finish")
    /\ UNCHANGED <<guardVars, scanVars, journalOk, envVars, lateEntry, lateSends, verdict>>

\* Candidates are processed by falling uptime.
NextCandidate ==
    /\ Goto("next", "check1")
    /\ ~stop /\ clock < deadline
    /\ \E c \in todo :
          /\ \A d \in todo : d.uptime <= c.uptime
          /\ cand' = c
          /\ todo' = todo \ {c}
    /\ UNCHANGED <<guardVars, reading, before, deadline, actions, rounds, journalOk, envVars,
                   lateEntry, lateSends, verdict>>

\* Stopped or out of time: every remaining candidate is recorded as not acted on.
SkipRest ==
    /\ Goto("next", "next")
    /\ todo # {}
    /\ stop \/ clock >= deadline
    /\ todo' = {}
    /\ \E ok \in BOOLEAN : Written(ok) /\ journalOk' = (journalOk /\ ok)
    /\ UNCHANGED <<guardVars, cand, reading, before, deadline, actions, rounds, envVars,
                   lateEntry, lateSends, verdict>>

ScanDone ==
    /\ Goto("next", "finish")
    /\ todo = {}
    /\ UNCHANGED <<guardVars, scanVars, journalOk, envVars, lateEntry, lateSends, verdict>>

\* _finish_scan
FinishScan ==
    /\ Goto("finish", "idle")
    /\ \E ok \in BOOLEAN : Written(ok) /\ journalOk' = ok
    /\ todo' = {} /\ deadline' = 0 /\ actions' = 0
    /\ DropCandidate
    /\ UNCHANGED <<guardVars, envVars, lateSends, verdict>>

\* run_once swallows any exception; the scan is over and the journal not told.
ScanAborts ==
    /\ pc \in {"list", "preflightSent", "postSent", "recoverSent", "post2Sent", "verifySent"}
    /\ pc' = "idle"
    /\ todo' = {} /\ deadline' = 0 /\ actions' = 0
    /\ DropCandidate
    /\ UNCHANGED <<guardVars, journalOk, envVars, lateSends, verdict>>

-----------------------------------------------------------------------------
(* One candidate *)

\* _write_completed_without_post, and on to the next candidate.
Skip ==
    /\ pc' = "next"
    /\ DropCandidate
    /\ \E ok \in BOOLEAN : Written(ok) /\ journalOk' = (journalOk /\ ok)

\* The first protection check.  A check that fails counts as protected.
Check1 ==
    /\ pc = "check1"
    /\ \/ ~Protected(cand.mac) /\ pc' = "preflight" /\ KeepCandidate /\ UNCHANGED journalOk
       \/ Skip
    /\ UNCHANGED <<guardVars, todo, deadline, actions, envVars, lateSends, verdict>>

\* Variant: goes on although the worker has been told to stop.
MayAsk_IgnoresStop == clock < deadline

\* _retry_get gives up before a request once the scan is stopped or out of time.
MayAsk == ~stop /\ clock < deadline

AskPreflight ==
    /\ pc = "preflight"
    /\ \/ MayAsk /\ pc' = "preflightSent" /\ KeepCandidate /\ UNCHANGED journalOk
       \/ ~MayAsk /\ Skip
    /\ UNCHANGED <<guardVars, todo, deadline, actions, envVars, lateSends, verdict>>

\* _preflight_decision: still the pending session that was listed, as far as uptime tells.
StillStale(x) == Eligible(x) /\ Uptime(x) + Tolerance >= cand.uptime

\* The fresh state of the client, as of now; the answer may be on its way for a while.
Preflight ==
    /\ pc = "preflightSent"
    /\ \/ /\ StillStale(client[cand.mac])
          /\ pc' = "check2"
          /\ reading' = [since |-> client[cand.mac].since, at |-> clock]
          /\ UNCHANGED <<cand, before, rounds, lateEntry, journalOk>>
       \/ Skip
    /\ UNCHANGED <<guardVars, todo, deadline, actions, envVars, lateSends, verdict>>

\* Variant: the answer of the check is not looked at.
Check2_Ignored ==
    /\ Goto("check2", "guard")
    /\ before' = reading
    /\ lateEntry' = FALSE
    /\ UNCHANGED <<guardVars, todo, cand, reading, deadline, actions, rounds, journalOk, envVars,
                   lateSends, verdict>>

\* The second protection check.
Check2 ==
    /\ pc = "check2"
    /\ \/ /\ ~Protected(cand.mac)
          /\ pc' = "guard"
          /\ before' = reading
          /\ lateEntry' = FALSE
          /\ UNCHANGED <<cand, reading, rounds, journalOk>>
       \/ Skip
    /\ UNCHANGED <<guardVars, todo, deadline, actions, envVars, lateSends, verdict>>

\* The refusals of action_guard.check that come before it looks at its tables.
GuardRefuses ==
    /\ pc = "guard"
    /\ stop \/ clock >= deadline \/ ~journalOk \/ actions >= MaxActions
    /\ Skip
    /\ UNCHANGED <<guardVars, todo, deadline, actions, envVars, lateSends, verdict>>

AskGuard ==
    /\ pc = "guard"
    /\ ~(stop \/ clock >= deadline \/ ~journalOk \/ actions >= MaxActions)
    /\ Check(cand.mac)
    /\ \/ granted' # None /\ pc' = "plan" /\ KeepCandidate /\ UNCHANGED journalOk
       \/ granted' = None /\ Skip
    /\ UNCHANGED <<todo, deadline, actions, envVars, lateSends, verdict>>

\* action.planned is written before anything is sent ...
WritePlan ==
    /\ Goto("plan", "post")
    /\ Written(TRUE)
    /\ journalOk' = TRUE
    /\ UNCHANGED <<guardVars, scanVars, envVars, lateEntry, lateSends, verdict>>

\* ... and nothing is sent if that fails.
PlanFails ==
    /\ Goto("plan", "next")
    /\ AuditFails
    /\ journalOk' = FALSE
    /\ DropCandidate
    /\ UNCHANGED <<todo, deadline, actions, envVars, lateSends, verdict>>

CountSend == lateSends' = lateSends + (IF stop THEN 1 ELSE 0)

\* record_attempt, and the request goes out.
SendPost ==
    /\ Goto("post", "postSent")
    /\ RecordAttempt(cand.mac)
    /\ CountSend
    /\ UNCHANGED <<scanVars, journalOk, envVars, lateEntry, verdict>>

\* What a reconnect may do to the client: a new session, or none.
Reconnected(m) ==
    \E st \in {"pending", "gone"} : client' = [client EXCEPT ![m] = [status |-> st, since |-> clock]]

\* Accepted, rejected or unanswered: the request may have been executed or not.
PostAnswered ==
    /\ \/ Goto("postSent", "verify")
       \/ Goto("post2Sent", "verify")
    /\ UNCHANGED client \/ Reconnected(cand.mac)
    /\ UNCHANGED <<guardVars, scanVars, journalOk, stop, closed, portal, lateEntry, lateSends, verdict>>

\* TOKEN_EXPIRED to the first request: it was not executed.
TokenExpired ==
    /\ Goto("postSent", "recover")
    /\ UNCHANGED <<guardVars, scanVars, journalOk, envVars, lateEntry, lateSends, verdict>>

AskRecover ==
    /\ \/ Goto("recover", "recoverSent") /\ MayAsk
       \/ Goto("recover", "verify") /\ ~MayAsk
    /\ UNCHANGED <<guardVars, scanVars, journalOk, envVars, lateEntry, lateSends, verdict>>

\* _recover_expired_token: a second preflight ...
Recover ==
    /\ \/ /\ Goto("recoverSent", "recheck1")
          /\ StillStale(client[cand.mac])
          /\ reading' = [since |-> client[cand.mac].since, at |-> clock]
       \/ Goto("recoverSent", "verify") /\ UNCHANGED reading
    /\ UNCHANGED <<guardVars, todo, cand, before, deadline, actions, rounds, journalOk, envVars,
                   lateEntry, lateSends, verdict>>

\* ... and two more protection checks before its answer replaces the first one's.
Recheck ==
    /\ \/ /\ \/ Goto("recheck1", "recheck2") /\ UNCHANGED before
             \/ Goto("recheck2", "post2") /\ before' = reading
          /\ ~Protected(cand.mac)
          /\ lateEntry' = FALSE
       \/ /\ Goto("recheck1", "verify") \/ Goto("recheck2", "verify")
          /\ UNCHANGED <<before, lateEntry>>
    /\ UNCHANGED <<guardVars, todo, cand, reading, deadline, actions, rounds, journalOk, envVars,
                   lateSends, verdict>>

\* The second request is not recorded as an attempt of its own.
SendPost2 ==
    /\ Goto("post2", "post2Sent")
    /\ CountSend
    /\ UNCHANGED <<guardVars, scanVars, journalOk, envVars, lateEntry, verdict>>

\* Variant: does not count its rounds.
AskVerify_NoCount ==
    /\ Goto("verify", "verifySent")
    /\ rounds < VerifyRounds /\ MayAsk
    /\ UNCHANGED <<guardVars, scanVars, journalOk, envVars, lateEntry, lateSends, verdict>>

AskVerify ==
    /\ Goto("verify", "verifySent")
    /\ rounds < VerifyRounds /\ MayAsk
    /\ rounds' = rounds + 1
    /\ UNCHANGED <<guardVars, todo, cand, reading, before, deadline, actions, journalOk, envVars,
                   lateEntry, lateSends, verdict>>

VerifyEnds ==
    /\ Goto("verify", "complete")
    /\ rounds >= VerifyRounds \/ ~MayAsk
    /\ UNCHANGED <<guardVars, scanVars, journalOk, envVars, lateEntry, lateSends, verdict>>

\* Variant: an equal uptime counts as a new session.
IsNewSession_NotLess(x) == x.status = "pending" /\ Uptime(x) + Tolerance <= before.at - before.since

IsNewSession(x) == x.status = "pending" /\ Uptime(x) + Tolerance < before.at - before.since

\* One round of _verify: a result, or nothing conclusive (a failed read included).
Verify ==
    LET x == client[cand.mac] IN
    /\ \/ /\ Goto("verifySent", "complete")
          /\ \/ x.status = "gone" \/ x.status = "authorized" \/ IsNewSession(x)
          /\ verdict' = [result |-> CASE x.status = "gone" -> "disconnected"
                                      [] x.status = "authorized" -> "authorized"
                                      [] OTHER -> "newSession",
                         old |-> before.since, new |-> x.since]
       \/ Goto("verifySent", "verify") /\ UNCHANGED verdict
    /\ UNCHANGED <<guardVars, scanVars, journalOk, envVars, lateEntry, lateSends>>

\* action.completed; the action counts whether or not the record could be written.
Complete ==
    /\ Goto("complete", "next")
    /\ \E ok \in BOOLEAN : Written(ok) /\ journalOk' = ok
    /\ actions' = actions + 1
    /\ DropCandidate
    /\ verdict' = NoVerdict
    /\ UNCHANGED <<guardVars, todo, deadline, envVars, lateSends>>

-----------------------------------------------------------------------------
(* Around the worker *)

\* PendingSessionWorker.stop: raise the flag, wait for a limited time, close the journal.
BeginStopping ==
    /\ ~stop
    /\ stop' = TRUE
    /\ UNCHANGED <<guardVars, pc, scanVars, journalOk, closed, client, portal, lateEntry, lateSends, verdict>>

CloseJournal ==
    /\ stop /\ ~closed
    /\ closed' = TRUE
    /\ UNCHANGED <<guardVars, pc, scanVars, journalOk, stop, client, portal, lateEntry, lateSends, verdict>>

\* An answer that has been read is checked before ReplyDelay has passed.
TimePasses ==
    /\ Tick
    /\ pc \in {"check2", "recheck1", "recheck2"} => clock - reading.at < ReplyDelay
    /\ UNCHANGED <<pc, scanVars, journalOk, envVars, lateEntry, lateSends, verdict>>

\* A client associates anew, or leaves.
Rejoin(m) ==
    /\ client[m].since < clock
    /\ \E st \in {"pending", "gone"} : client' = [client EXCEPT ![m] = [status |-> st, since |-> clock]]
    /\ UNCHANGED <<guardVars, pc, scanVars, journalOk, stop, closed, portal, lateEntry, lateSends, verdict>>

\* A client opens the portal: an auth session is active for it.
EnterPortal(m) ==
    /\ client[m].status = "pending" /\ ~portal[m].active
    /\ portal' = [portal EXCEPT ![m].active = TRUE]
    /\ lateEntry' = (lateEntry \/ (cand # None /\ cand.mac = m))
    /\ UNCHANGED <<guardVars, pc, scanVars, journalOk, stop, closed, client, lateSends, verdict>>

\* The auth session ends, the client authorized or not; it protects for the grace period.
LeavePortal(m) ==
    /\ portal[m].active
    /\ portal' = [portal EXCEPT ![m] = [active |-> FALSE, until |-> clock + Grace]]
    /\ \/ UNCHANGED client
       \/ client[m].status = "pending" /\ client' = [client EXCEPT ![m].status = "authorized"]
    /\ UNCHANGED <<guardVars, pc, scanVars, journalOk, stop, closed, lateEntry, lateSends, verdict>>

-----------------------------------------------------------------------------
(* The specification *)

Init ==
    /\ GuardInit
    /\ pc = "idle"
    /\ todo = {} /\ cand = None /\ reading = None /\ before = None
    /\ deadline = 0 /\ actions = 0 /\ rounds = 0
    /\ journalOk = TRUE
    /\ stop = FALSE /\ closed = FALSE
    /\ client \in [Macs -> [status : {"pending", "authorized", "gone"}, since : {0}]]
    /\ portal = [m \in Macs |-> [active |-> FALSE, until |-> 0]]
    /\ lateEntry = FALSE /\ lateSends = 0
    /\ verdict = NoVerdict

Worker ==
    \/ StartScan \/ EndWorker \/ ListClients \/ ListFails \/ NextCandidate \/ SkipRest \/ ScanDone
    \/ FinishScan \/ ScanAborts
    \/ Check1 \/ AskPreflight \/ Preflight \/ Check2 \/ GuardRefuses \/ AskGuard
    \/ WritePlan \/ PlanFails \/ SendPost \/ PostAnswered
    \/ TokenExpired \/ AskRecover \/ Recover \/ Recheck \/ SendPost2
    \/ AskVerify \/ VerifyEnds \/ Verify \/ Complete

Environment ==
    \/ BeginStopping
    \/ CloseJournal
    \/ TimePasses
    \/ \E m \in Mobile : Rejoin(m) \/ EnterPortal(m) \/ LeavePortal(m)

Next == Worker \/ Environment

Spec == Init /\ [][Next]_vars

\* The thread runs, and every controller call carries a timeout.
FairSpec == Spec /\ WF_vars(Worker)

-----------------------------------------------------------------------------
(* Properties *)

\* Every variable has the shape the code gives it; the verification rounds stay within the
\* configured delays.
TypeOK ==
    /\ GuardTypeOK
    /\ pc \in Pcs
    /\ todo \in SUBSET Candidate
    /\ cand \in Candidate \union {None}
    /\ reading \in Reading \union {None} /\ before \in Reading \union {None}
    /\ deadline \in Nat
    /\ actions \in 0 .. MaxActions
    /\ rounds \in 0 .. VerifyRounds
    /\ journalOk \in BOOLEAN /\ stop \in BOOLEAN /\ closed \in BOOLEAN
    /\ client \in [Macs -> Session]
    /\ portal \in [Macs -> [active : BOOLEAN, until : Nat]]
    /\ lateEntry \in BOOLEAN /\ lateSends \in Nat
    /\ verdict \in Verdict

\* The guard keeps its word in the hands of the cleaner: attempts on a client are spaced by the
\* cooldown and kept to the hourly limit unless its entry was evicted, and with a cooldown that does
\* not outlast the hour the entries stay within the configured number (check, record_attempt,
\* _bound_locked).
GuardHolds ==
    /\ TypeOK
    /\ SpacedUnlessEvicted
    /\ HourlyLimitUnlessEvicted
    /\ Cooldown <= Hour => MemoryBounded

\* "Shutdown ... must prevent new mutation after stop begins" (docs/modules/pending-session-cleaner.md).
NoMutationAfterStop == lateSends = 0

\* What the code does guarantee: the action that stop() catches past its guard is the last one, and
\* it sends at most one request after the flag went up, token recovery included.
AtMostOneSendAfterStop == lateSends <= 1

\* No request is sent to a client that has become authorized through the portal, unless it entered
\* the portal after the last protection check: a listed client that is authorized while the
\* preflight answer is on its way is saved by the second check, as long as the grace period is
\* longer than that.
GuestsAreNotReconnected ==
    [][/\ pc \in {"post", "post2"} /\ pc' \in {"postSent", "post2Sent"}
       /\ client[cand.mac].status = "authorized" /\ ReplyDelay < Grace
       => lateEntry]_vars

\* "confirmed_new_session" is the truth: the session _verify saw is another one than the session the
\* request was meant for, also when both fall into the same second.
ConfirmedIsReal == verdict.result = "newSession" => verdict.new # verdict.old

\* Whatever the controller answers, a scan comes to its end ...
ScansEnd == pc = "list" ~> pc \in {"idle", "ended"}

\* ... and a stopped worker's thread terminates.
StopEnds == stop ~> pc = "ended"
=============================================================================
