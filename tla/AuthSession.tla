----------------------------- MODULE AuthSession -----------------------------
(***************************************************************************)
(* The authorization core of the portal: AuthSessionManager (sessions and  *)
(* runs under one lock), PortalEntryHandler (session creation and worker   *)
(* submission), the retry and status routes of app/web/web.py, the bounded *)
(* worker executor and AuthWorker.process with its calls to the Omada      *)
(* controller.  One step of the model is one critical section of the       *)
(* manager's lock, or one controller call taking effect, so that web       *)
(* threads, workers and the passing of time interleave as in the process.  *)
(*                                                                         *)
(* A run is named by its session and its run_number; run_token is a fresh  *)
(* uuid per run, so comparing tokens is comparing run numbers.  Time is    *)
(* kept as the classes the code distinguishes: `old' (SESSION_TTL_SECONDS  *)
(* since creation) and `idle' (time since the last update_activity).       *)
(***************************************************************************)
EXTENDS Integers, Sequences, FiniteSets

CONSTANTS
    Sessions,      \* pool of session ids (a bound: the code draws fresh uuids)
    Macs,          \* client MAC addresses
    Ips,           \* client IP addresses
    Contexts,      \* (MAC, IP) pairs that portal entries arrive with
    RequestIds,    \* retry_request_id values chosen by clients
    MaxRuns,       \* bound on the runs of one session (the code has none)
    MaxAttempts,   \* MAX_AUTH_ATTEMPTS
    MaxWorkers,    \* threads of the worker executor
    ControllerFailures, \* kinds of failure the controller answers with
    MayShutDown,   \* are behaviours with a shutdown considered? (a bound)
    NoMac, NoIp, NoSession

ASSUME FailuresAssumption    == ControllerFailures \subseteq {"rejected", "notFound", "transient", "fatal"}
ASSUME MaxRunsAssumption     == MaxRuns \in Nat \ {0}
ASSUME MaxAttemptsAssumption == MaxAttempts \in Nat \ {0}
ASSUME MaxWorkersAssumption  == MaxWorkers \in Nat \ {0}
ASSUME NoValueAssumption     == NoMac \notin Macs /\ NoIp \notin Ips /\ NoSession \notin Sessions

\* A portal entry carries a MAC, an IP or both.
ASSUME ContextsAssumption ==
    Contexts \subseteq { c \in [mac : Macs \union {NoMac}, ip : Ips \union {NoIp}] :
                            c.mac # NoMac \/ c.ip # NoIp }

VARIABLES
    sess,        \* session id -> the AuthSession object, with its runs
    byId,        \* sessions registered in _sessions_by_id
    byKey,       \* _sessions_by_key
    wk,          \* session, run -> the thread that starts or works on that run
    queue,       \* FIFO of submitted runs no executor thread has picked up yet
    accepting,   \* the executor has not been shut down
    omada,       \* controller: is the MAC authorized?
    runFinished, \* session -> runs whose auth.run_finished was emitted
    sessionFinished, \* session -> final_state of its auth.session_finished
    visits       \* authorized runs handed to the snapshot, visit and fingerprint sinks

vars == <<sess, byId, byKey, wk, queue, accepting, omada, runFinished, sessionFinished, visits>>

RunNos == 1 .. MaxRuns

-----------------------------------------------------------------------------
(* Session and run objects *)

ActiveStatuses == {"WAITING", "AUTHORIZING", "VERIFYING", "RESETTING"}
FinalStatuses  == {"AUTHORIZED", "FAILED", "EXPIRED"}
Statuses       == ActiveStatuses \union FinalStatuses

\* "open" is finished_at = None; a finished run holds its final_state.
AuthRun == [final : FinalStatuses \union {"open"}, retryable : BOOLEAN,
            workerStarted : BOOLEAN, workerFinished : BOOLEAN, mayHaveChanged : BOOLEAN]

Idle == {"recent", "cooled", "retired"}   \* < cooldown, >= cooldown, >= retention

\* cur = 0 marks an id that no session uses yet.
SessionObject == [mac : Macs \union {NoMac}, ip : Ips \union {NoIp}, old : BOOLEAN, idle : Idle,
                  status : Statuses, retryable : BOOLEAN, cur : 0 .. MaxRuns,
                  runs : [RunNos -> AuthRun], workerFinished : BOOLEAN,
                  requests : [RequestIds -> 0 .. MaxRuns]]

NewRun == [final |-> "open", retryable |-> FALSE, workerStarted |-> FALSE,
           workerFinished |-> FALSE, mayHaveChanged |-> FALSE]

IsActive(x) == x.status \in ActiveStatuses

\* Variant: forgets that the failure must be retryable.
CanRetry_Any(x) == x.status = "FAILED"

CanRetry(x) == x.status = "FAILED" /\ x.retryable

IsFinished(x) == x.status \in {"AUTHORIZED", "EXPIRED"} \/ (x.status = "FAILED" /\ ~x.retryable)
CurrentOpen(x) == x.cur > 0 /\ x.runs[x.cur].final = "open"

UpdateActivity(x) == [x EXCEPT !.idle = "recent"]

CreateRun(x, n) ==
    [UpdateActivity(x) EXCEPT !.runs[n] = NewRun, !.cur = n, !.status = "WAITING",
                              !.retryable = FALSE, !.workerFinished = FALSE]

BindRequest(x, q, n) == [x EXCEPT !.requests[q] = n]

SetFinal(r, final, retryable) == [r EXCEPT !.final = final, !.retryable = retryable]

FinishRun(x, n, final, retryable) ==
    [UpdateActivity(x) EXCEPT !.runs[n] = SetFinal(@, final, retryable),
                              !.status = final, !.retryable = retryable]

\* Variant: leaves the current run unfinished.
ExpireLocked_RunLeftOpen(x) ==
    IF x.status = "EXPIRED" THEN x
    ELSE [UpdateActivity(x) EXCEPT !.status = "EXPIRED", !.retryable = FALSE]

ExpireLocked(x) ==
    IF x.status = "EXPIRED" THEN x
    ELSE IF CurrentOpen(x) THEN FinishRun(x, x.cur, "EXPIRED", FALSE)
    ELSE [UpdateActivity(x) EXCEPT !.status = "EXPIRED", !.retryable = FALSE]

UpdateStatus(x, status) == [UpdateActivity(x) EXCEPT !.status = status]

BeginAttempt(x, n) == [UpdateActivity(x) EXCEPT !.status = "AUTHORIZING", !.runs[n].mayHaveChanged = TRUE]

SetClientMac(x, m) == [UpdateActivity(x) EXCEPT !.mac = m]

ClaimRun(x, n) ==
    [UpdateActivity(x) EXCEPT !.runs[n] = [@ EXCEPT !.workerStarted = TRUE, !.workerFinished = FALSE],
                              !.workerFinished = FALSE]

\* Variant: marks the session whichever run the worker belongs to.
MarkWorkerFinished_AnyRun(x, n) ==
    [UpdateActivity(x) EXCEPT !.runs[n].workerFinished = TRUE, !.workerFinished = TRUE]

MarkWorkerFinished(x, n) ==
    IF x.cur = n
    THEN [UpdateActivity(x) EXCEPT !.runs[n].workerFinished = TRUE, !.workerFinished = TRUE]
    ELSE [x EXCEPT !.runs[n].workerFinished = TRUE]

\* Variant: compares the run's identity only, not whether it is finished.
RunMatches_Identity(s, n) == s \in byId /\ sess[s].cur = n

RunMatches(s, n) == s \in byId /\ sess[s].cur = n /\ sess[s].runs[n].final = "open"

Keys == ({"mac"} \X Macs) \union ({"ip"} \X Ips)

SessionKey(mac, ip) == IF mac # NoMac THEN <<"mac", mac>> ELSE <<"ip", ip>>

\* Variant: forgets the MAC key.
Detach_IpOnly(keys, gone) ==
    [k \in Keys |-> IF k[1] = "ip" /\ keys[k] \in gone THEN NoSession ELSE keys[k]]

Detach(keys, gone) == [k \in Keys |-> IF keys[k] \in gone THEN NoSession ELSE keys[k]]

-----------------------------------------------------------------------------
(* Threads.  A run is started by the web thread that created it and worked *)
(* on by at most one executor thread; pc names the next thing that thread  *)
(* does, `handle' with the phase of the controller read it has in hand.    *)

WebPcs == {"created", "claimed", "refused", "refusedMark", "refusedEmit",
           "rejected", "rejectedMark", "rejectedEmit"}

\* Inside process(), before the run is finished: the worker may still call the controller.
CallPcs == {"started", "initialDelay", "ready", "poll", "lookup", "read", "handle", "attempt",
            "authorize", "authReply", "verifyDelay", "finalCheck", "reset", "resetReply"}

TailPcs == {"submit", "finally", "emit"}

Pcs == {"none", "queued", "done", "lost"} \union WebPcs \union CallPcs \union TailPcs

Phases == {"readiness", "verify", "final"}

\* What a controller call answered: a client state, or a failure by what _classify_failure makes of it.
Replies == {"none", "authorized", "active", "inactive", "ok", "rejected", "notFound", "transient", "fatal"}

Failures == {"none", "rejected", "transient", "fatal"}

Thread == [pc : Pcs, phase : Phases, attempt : 0 .. MaxAttempts, lastFailure : Failures, reply : Replies]

NoThread == [pc |-> "none", phase |-> "readiness", attempt |-> 0, lastFailure |-> "none", reply |-> "none"]

\* _classify_failure; a successful result leaves the last failure alone.
ClassifyFailure(reply, last) ==
    CASE reply = "rejected"                -> "rejected"
      [] reply \in {"notFound", "transient"} -> "transient"
      [] reply = "fatal"                   -> "fatal"
      [] OTHER                             -> last

\* Done with the reply in hand but for the failure it leaves behind.
NoteReply(t, pc) ==
    [t EXCEPT !.pc = pc, !.phase = "readiness", !.reply = "none",
              !.lastFailure = ClassifyFailure(t.reply, t.lastFailure)]

Running == { w \in Sessions \X RunNos : wk[w[1]][w[2]].pc \in CallPcs \union TailPcs }

At(s, n, pc)   == wk[s][n].pc = pc
Goto(s, n, pc) == wk' = [wk EXCEPT ![s][n].pc = pc]

\* Leave the try block; the worker's locals are not used again.
Quit(s, n) == wk' = [wk EXCEPT ![s][n] = [NoThread EXCEPT !.pc = "finally"]]

EmitRunFinished(s, n) == runFinished' = [runFinished EXCEPT ![s] = @ \union {n}]

\* safe_emit_once: the first auth.session_finished of a session is the only one.
EmitSessionFinished(s, final) ==
    sessionFinished' = [sessionFinished EXCEPT ![s] = IF @ = "none" THEN final ELSE @]

-----------------------------------------------------------------------------
(* Web requests *)

\* _cleanup_locked: every session past its TTL is expired, whatever its status ...
Expired == [s \in Sessions |-> IF s \in byId /\ sess[s].old THEN ExpireLocked(sess[s]) ELSE sess[s]]

\* ... and the finished ones that have been idle for the retention period are dropped.
Retired == { s \in byId : IsFinished(Expired[s]) /\ Expired[s].idle = "retired" }

\* Variant: an active session does not count as reusable.
Reusable_NotActive(x) == CanRetry(x) \/ (IsFinished(x) /\ (~x.workerFinished \/ x.idle = "recent"))

\* The existing session is returned as it is.
Reusable(x) == IsActive(x) \/ CanRetry(x) \/ ~x.workerFinished \/ x.idle = "recent"

Existing(c) == Detach(byKey, Retired)[SessionKey(c.mac, c.ip)]

NewSession(c) ==
    [mac |-> c.mac, ip |-> c.ip, old |-> FALSE, idle |-> "recent", status |-> "WAITING",
     retryable |-> FALSE, cur |-> 0, runs |-> [n \in RunNos |-> NewRun],
     workerFinished |-> FALSE, requests |-> [q \in RequestIds |-> 0]]

\* prepare_portal finding a session to reuse: create_or_get changes nothing but what cleanup does.
ReuseSession(c) ==
    LET e == Existing(c) IN
    /\ e # NoSession
    /\ ~Expired[e].old /\ Reusable(Expired[e])
    /\ sess' = Expired
    /\ byId' = byId \ Retired
    /\ byKey' = Detach(byKey, Retired)
    /\ UNCHANGED <<wk, queue, accepting, omada, runFinished, sessionFinished, visits>>

\* prepare_portal creating a session with its first run.  An expired session is only detached from
\* its keys; one that finished, lost its worker and cooled down is removed.
CreateSession(c, s) ==
    LET e       == Existing(c)
        removed == IF e # NoSession /\ ~Expired[e].old THEN {e} ELSE {}
        keys    == Detach(byKey, Retired \union {e})
    IN
    /\ sess[s].cur = 0
    /\ e # NoSession => (Expired[e].old \/ ~Reusable(Expired[e]))
    /\ sess' = [Expired EXCEPT ![s] = CreateRun(NewSession(c), 1)]
    /\ byId' = (byId \ (Retired \union removed)) \union {s}
    /\ byKey' = [k \in Keys |->
                    IF k = SessionKey(c.mac, c.ip) \/ (c.ip # NoIp /\ k = <<"ip", c.ip>>)
                    THEN s ELSE keys[k]]
    /\ wk' = [wk EXCEPT ![s][1] = [NoThread EXCEPT !.pc = "created"]]
    /\ UNCHANGED <<queue, accepting, omada, runFinished, sessionFinished, visits>>

\* cleanup(), also run by pending_session_protection_snapshot.
Cleanup ==
    /\ sess' = Expired
    /\ byId' = byId \ Retired
    /\ byKey' = Detach(byKey, Retired)
    /\ UNCHANGED <<wk, queue, accepting, omada, runFinished, sessionFinished, visits>>

\* GET /auth/session/<id>: expire_if_needed without a run guard, then the event once.
PollStatus(s) ==
    /\ s \in byId /\ sess[s].old
    /\ sess' = [sess EXCEPT ![s] = ExpireLocked(@)]
    /\ EmitSessionFinished(s, "EXPIRED")
    /\ UNCHANGED <<byId, byKey, wk, queue, accepting, omada, runFinished, visits>>

\* POST /auth/session/<id>/retry by the client that owns the session (same IP).  A duplicate request
\* id, a session that is not retryable and a foreign caller change nothing.
RetryExpired(s) ==
    /\ s \in byId /\ sess[s].ip # NoIp /\ sess[s].old
    /\ sess' = [sess EXCEPT ![s] = ExpireLocked(@)]
    /\ EmitSessionFinished(s, "EXPIRED")
    /\ UNCHANGED <<byId, byKey, wk, queue, accepting, omada, runFinished, visits>>

RetryWhileActive(s, q) ==
    /\ s \in byId /\ sess[s].ip # NoIp /\ ~sess[s].old
    /\ sess[s].requests[q] = 0
    /\ IsActive(sess[s])
    /\ sess' = [sess EXCEPT ![s] = BindRequest(@, q, sess[s].cur)]
    /\ UNCHANGED <<byId, byKey, wk, queue, accepting, omada, runFinished, sessionFinished, visits>>

RetryCreatesRun(s, q) ==
    LET n == sess[s].cur + 1 IN
    /\ s \in byId /\ sess[s].ip # NoIp /\ ~sess[s].old
    /\ sess[s].requests[q] = 0
    /\ CanRetry(sess[s])
    /\ n \in RunNos
    /\ sess' = [sess EXCEPT ![s] = BindRequest(CreateRun(@, n), q, n)]
    /\ wk' = [wk EXCEPT ![s][n] = [NoThread EXCEPT !.pc = "created"]]
    /\ UNCHANGED <<byId, byKey, queue, accepting, omada, runFinished, sessionFinished, visits>>

\* submit_worker: claim the run ...
ClaimWorker(s, n) ==
    /\ At(s, n, "created")
    /\ IF RunMatches(s, n) /\ ~sess[s].runs[n].workerStarted /\ IsActive(sess[s])
       THEN /\ sess' = [sess EXCEPT ![s] = ClaimRun(@, n)]
            /\ Goto(s, n, "claimed")
       ELSE /\ Goto(s, n, "refused")
            /\ UNCHANGED sess
    /\ UNCHANGED <<byId, byKey, queue, accepting, omada, runFinished, sessionFinished, visits>>

\* ... hand it to the executor, which raises once it has been shut down ...
SubmitWorker(s, n) ==
    /\ At(s, n, "claimed")
    /\ IF accepting
       THEN queue' = Append(queue, <<s, n>>) /\ Goto(s, n, "queued")
       ELSE UNCHANGED queue /\ Goto(s, n, "rejected")
    /\ UNCHANGED <<sess, byId, byKey, accepting, omada, runFinished, sessionFinished, visits>>

\* ... and fail the run when either step did not work: CONFIGURATION_ERROR is final,
\* WORKER_START_FAILED may be retried.
FailStart(s, n) ==
    /\ \/ At(s, n, "refused")  /\ Goto(s, n, "refusedMark")
       \/ At(s, n, "rejected") /\ Goto(s, n, "rejectedMark")
    /\ sess' = IF RunMatches(s, n)
               THEN [sess EXCEPT ![s] = FinishRun(@, n, "FAILED", At(s, n, "rejected"))]
               ELSE sess
    /\ UNCHANGED <<byId, byKey, queue, accepting, omada, runFinished, sessionFinished, visits>>

\* mark_worker_finished, by the web thread or in the worker's finally block.
MarkFinished(s, n) ==
    /\ \/ At(s, n, "refusedMark")  /\ Goto(s, n, "refusedEmit")
       \/ At(s, n, "rejectedMark") /\ Goto(s, n, "rejectedEmit")
       \/ At(s, n, "finally")      /\ Goto(s, n, "emit")
    /\ sess' = IF s \in byId THEN [sess EXCEPT ![s] = MarkWorkerFinished(@, n)] ELSE sess
    /\ UNCHANGED <<byId, byKey, queue, accepting, omada, runFinished, sessionFinished, visits>>

\* _emit_run_start_failure
EmitStartFailure(s, n) ==
    /\ At(s, n, "refusedEmit") \/ At(s, n, "rejectedEmit")
    /\ EmitRunFinished(s, n)
    /\ IF At(s, n, "refusedEmit") THEN EmitSessionFinished(s, sess[s].status) ELSE UNCHANGED sessionFinished
    /\ Goto(s, n, "done")
    /\ UNCHANGED <<sess, byId, byKey, queue, accepting, omada, visits>>

\* shutdown_handler: executor.shutdown(wait=True, cancel_futures=False); queued runs still execute.
Shutdown ==
    /\ MayShutDown /\ accepting
    /\ accepting' = FALSE
    /\ UNCHANGED <<sess, byId, byKey, wk, queue, omada, runFinished, sessionFinished, visits>>

-----------------------------------------------------------------------------
(* AuthWorker.process *)

\* An executor thread picks up the oldest submitted run.  If that run is no longer current it returns
\* before the try block: neither mark_worker_finished nor _emit_finished runs.
StartWorker ==
    /\ queue # <<>>
    /\ Cardinality(Running) < MaxWorkers
    /\ LET s == Head(queue)[1]
           n == Head(queue)[2]
       IN  wk' = [wk EXCEPT ![s][n] =
                     [NoThread EXCEPT !.pc = IF RunMatches(s, n) THEN "started" ELSE "lost"]]
    /\ queue' = Tail(queue)
    /\ UNCHANGED <<sess, byId, byKey, accepting, omada, runFinished, sessionFinished, visits>>

\* The next controller read of a phase: by IP first while the session has no MAC.
ReadFrom(s, n, phase) ==
    wk' = [wk EXCEPT ![s][n].phase = phase, ![s][n].pc = IF sess[s].mac = NoMac THEN "lookup" ELSE "read"]

\* Every write of a worker passes _run_matches_locked; one that does not raises _StaleRun, which ends
\* process() through its finally block.
StaleWorker(s, n) ==
    /\ wk[s][n].pc \in {"started", "initialDelay", "poll", "handle", "attempt", "authReply",
                        "verifyDelay", "finalCheck", "resetReply"}
    /\ ~RunMatches(s, n)
    /\ Quit(s, n)
    /\ UNCHANGED <<sess, byId, byKey, queue, accepting, omada, runFinished, sessionFinished, visits>>

\* Variant: writes the status without the run guard.
BeginWaiting_Unguarded(s, n) ==
    /\ At(s, n, "started")
    /\ sess' = [sess EXCEPT ![s] = UpdateStatus(@, "WAITING")]
    /\ Goto(s, n, "initialDelay")
    /\ UNCHANGED <<byId, byKey, queue, accepting, omada, runFinished, sessionFinished, visits>>

BeginWaiting(s, n) ==
    /\ At(s, n, "started") /\ RunMatches(s, n)
    /\ sess' = [sess EXCEPT ![s] = UpdateStatus(@, "WAITING")]
    /\ Goto(s, n, "initialDelay")
    /\ UNCHANGED <<byId, byKey, queue, accepting, omada, runFinished, sessionFinished, visits>>

\* _sleep_with_ttl_check running to its deadline.
SleepDone(s, n) ==
    /\ RunMatches(s, n)
    /\ \/ At(s, n, "initialDelay") /\ Goto(s, n, "ready")
       \/ At(s, n, "poll") /\ Goto(s, n, "ready")
       \/ At(s, n, "verifyDelay") /\ ReadFrom(s, n, "verify")
    /\ sess' = [sess EXCEPT ![s] = UpdateActivity(@)]
    /\ UNCHANGED <<byId, byKey, queue, accepting, omada, runFinished, sessionFinished, visits>>

\* _sleep_with_ttl_check cut short by the TTL, then _expire_session.
SleepExpired(s, n) ==
    /\ wk[s][n].pc \in {"initialDelay", "poll", "verifyDelay"}
    /\ RunMatches(s, n) /\ sess[s].old
    /\ sess' = [sess EXCEPT ![s] = FinishRun(@, n, "EXPIRED", FALSE)]
    /\ Quit(s, n)
    /\ UNCHANGED <<byId, byKey, queue, accepting, omada, runFinished, sessionFinished, visits>>

\* Variant: polls on after the TTL.
CheckReady_NoTtl(s, n) ==
    /\ At(s, n, "ready")
    /\ ReadFrom(s, n, "readiness")
    /\ UNCHANGED <<sess, byId, byKey, queue, accepting, omada, runFinished, sessionFinished, visits>>

\* One round of _wait_for_client_ready up to its controller call.
CheckReady(s, n) ==
    /\ At(s, n, "ready")
    /\ s \in byId /\ ~sess[s].old
    /\ ReadFrom(s, n, "readiness")
    /\ UNCHANGED <<sess, byId, byKey, queue, accepting, omada, runFinished, sessionFinished, visits>>

\* expire_if_needed with the run as guard, before a readiness round, an attempt or the final check.
ExpireIfNeeded(s, n) ==
    /\ wk[s][n].pc \in {"ready", "attempt", "finalCheck"}
    /\ s \notin byId \/ sess[s].old
    /\ sess' = IF RunMatches(s, n) THEN [sess EXCEPT ![s] = ExpireLocked(@)] ELSE sess
    /\ Quit(s, n)
    /\ UNCHANGED <<byId, byKey, queue, accepting, omada, runFinished, sessionFinished, visits>>

\* A read is not rejected, it finds no client or fails.
ReadFailures == ControllerFailures \ {"rejected"}

\* get_client_by_ip and set_client_mac: the resolved MAC becomes a second key of the session.
ResolveMac(s, n, m) ==
    LET x == sess[s] IN
    /\ At(s, n, "lookup") /\ RunMatches(s, n)
    /\ sess' = [sess EXCEPT ![s] = SetClientMac(@, m)]
    /\ byKey' = [byKey EXCEPT ![SessionKey(x.mac, x.ip)] = s, ![<<"mac", m>>] = s]
    /\ Goto(s, n, "read")
    /\ UNCHANGED <<byId, queue, accepting, omada, runFinished, sessionFinished, visits>>

\* The lookup fails, or resolves a MAC too late: the refused set_client_mac is swallowed as an
\* exception of _get_client and the check that follows finds the run stale.
LookupFails(s, n) ==
    /\ At(s, n, "lookup")
    /\ \E r \in ReadFailures \union (IF RunMatches(s, n) THEN {} ELSE {"fatal"}) :
          wk' = [wk EXCEPT ![s][n].pc = "handle", ![s][n].reply = r]
    /\ UNCHANGED <<sess, byId, byKey, queue, accepting, omada, runFinished, sessionFinished, visits>>

\* get_client: the controller reports the client's state at this moment, or the call fails.
ReadClient(s, n) ==
    /\ At(s, n, "read")
    /\ \E r \in ReadFailures
                \union (IF omada[sess[s].mac] THEN {"authorized"} ELSE {"active", "inactive"}) :
          wk' = [wk EXCEPT ![s][n].pc = "handle", ![s][n].reply = r]
    /\ UNCHANGED <<sess, byId, byKey, queue, accepting, omada, runFinished, sessionFinished, visits>>

\* Variant: skips the submissions that follow an authorization.
HandleAuthorized_NoSubmit(s, n) ==
    /\ At(s, n, "handle") /\ RunMatches(s, n)
    /\ wk[s][n].reply = "authorized"
    /\ sess' = [sess EXCEPT ![s] = FinishRun(@, n, "AUTHORIZED", FALSE)]
    /\ Quit(s, n)
    /\ UNCHANGED <<byId, byKey, queue, accepting, omada, runFinished, sessionFinished, visits>>

\* _mark_authorized: authStatus 2 was read in any phase.
HandleAuthorized(s, n) ==
    /\ At(s, n, "handle") /\ RunMatches(s, n)
    /\ wk[s][n].reply = "authorized"
    /\ sess' = [sess EXCEPT ![s] = FinishRun(@, n, "AUTHORIZED", FALSE)]
    /\ wk' = [wk EXCEPT ![s][n] = [NoThread EXCEPT !.pc = "submit", !.reply = wk[s][n].reply]]
    /\ UNCHANGED <<byId, byKey, queue, accepting, omada, runFinished, sessionFinished, visits>>

\* The reply in hand is not `authorized': remember its failure and go on.
HandleOther(s, n, phase, pc) ==
    /\ At(s, n, "handle") /\ RunMatches(s, n)
    /\ wk[s][n].phase = phase /\ wk[s][n].reply # "authorized"
    /\ wk' = [wk EXCEPT ![s][n] = NoteReply(@, pc)]
    /\ UNCHANGED <<byId, byKey, queue, accepting, omada, runFinished, sessionFinished, visits>>

\* End the run as a retryable failure without touching the controller.
GiveUp(s, n, phase) ==
    /\ At(s, n, "handle") /\ RunMatches(s, n)
    /\ wk[s][n].phase = phase
    /\ sess' = [sess EXCEPT ![s] = FinishRun(@, n, "FAILED", TRUE)]
    /\ Quit(s, n)
    /\ UNCHANGED <<byId, byKey, queue, accepting, omada, runFinished, sessionFinished, visits>>

\* Not ready: sleep until the next round, or at the deadline give up on a client that is not there.
HandleReadiness(s, n) ==
    \/ /\ wk[s][n].reply = "active"
       /\ HandleOther(s, n, "readiness", "attempt")
       /\ sess' = [sess EXCEPT ![s] = UpdateActivity(@)]
    \/ /\ wk[s][n].reply # "active"
       /\ HandleOther(s, n, "readiness", "poll")
       /\ sess' = [sess EXCEPT ![s] = UpdateActivity(@)]
    \/ /\ wk[s][n].reply = "notFound"
       /\ GiveUp(s, n, "readiness")
    \/ /\ wk[s][n].reply \notin {"active", "notFound"}      \* fallback
       /\ HandleOther(s, n, "readiness", "attempt")
       /\ sess' = [sess EXCEPT ![s] = UpdateActivity(@)]

\* begin_attempt and mark_authorization_may_have_changed, before the call goes out.
StartAttempt(s, n) ==
    /\ At(s, n, "attempt") /\ RunMatches(s, n) /\ ~sess[s].old
    /\ sess' = [sess EXCEPT ![s] = BeginAttempt(@, n)]
    /\ wk' = [wk EXCEPT ![s][n].pc = "authorize", ![s][n].attempt = @ + 1]
    /\ UNCHANGED <<byId, byKey, queue, accepting, omada, runFinished, sessionFinished, visits>>

\* authorize(): the answer and the effect on the controller are independent, a timed-out call may
\* have been executed.  Without a MAC no call is made.
CallAuthorize(s, n) ==
    LET m == sess[s].mac IN
    /\ At(s, n, "authorize")
    /\ \/ /\ m = NoMac
          /\ wk' = [wk EXCEPT ![s][n].pc = "authReply", ![s][n].reply = "notFound"]
          /\ UNCHANGED omada
       \/ /\ m # NoMac
          /\ \E r \in {"ok"} \union (ControllerFailures \ {"notFound"}) :
                wk' = [wk EXCEPT ![s][n].pc = "authReply", ![s][n].reply = r]
          /\ \E effect \in BOOLEAN : omada' = [omada EXCEPT ![m] = @ \/ effect]
    /\ UNCHANGED <<sess, byId, byKey, queue, accepting, runFinished, sessionFinished, visits>>

\* Variant: takes the answer to authorize() for the client's state.
HandleAuthReply_Trusting(s, n) ==
    /\ At(s, n, "authReply") /\ RunMatches(s, n) /\ wk[s][n].reply = "ok"
    /\ sess' = [sess EXCEPT ![s] = FinishRun(@, n, "AUTHORIZED", FALSE)]
    /\ Goto(s, n, "submit")
    /\ UNCHANGED <<byId, byKey, queue, accepting, omada, runFinished, sessionFinished, visits>>

HandleAuthReply(s, n) ==
    /\ At(s, n, "authReply") /\ RunMatches(s, n)
    /\ sess' = [sess EXCEPT ![s] = UpdateStatus(@, "VERIFYING")]
    /\ wk' = [wk EXCEPT ![s][n] = NoteReply(@, "verifyDelay")]
    /\ UNCHANGED <<byId, byKey, queue, accepting, omada, runFinished, sessionFinished, visits>>

\* Not verified: the next attempt, or the final verification after the last one.
HandleVerify(s, n) ==
    /\ HandleOther(s, n, "verify", IF wk[s][n].attempt < MaxAttempts THEN "attempt" ELSE "finalCheck")
    /\ sess' = [sess EXCEPT ![s] = UpdateActivity(@)]

FinalCheck(s, n) ==
    /\ At(s, n, "finalCheck") /\ RunMatches(s, n) /\ ~sess[s].old
    /\ sess' = [sess EXCEPT ![s] = UpdateStatus(@, "VERIFYING")]
    /\ ReadFrom(s, n, "final")
    /\ UNCHANGED <<byId, byKey, queue, accepting, omada, runFinished, sessionFinished, visits>>

\* A rejected client that stays inactive may retry at once; everything else is reset first.
HandleFinal(s, n) ==
    \/ /\ wk[s][n].reply = "inactive" /\ wk[s][n].lastFailure = "rejected"
       /\ GiveUp(s, n, "final")
    \/ /\ ~(wk[s][n].reply = "inactive" /\ wk[s][n].lastFailure = "rejected")
       /\ HandleOther(s, n, "final", "reset")
       /\ sess' = [sess EXCEPT ![s] = UpdateStatus(@, "RESETTING")]

\* unauthorize(): as with authorize(), a failed call may have been executed.
CallUnauthorize(s, n) ==
    LET m == sess[s].mac IN
    /\ At(s, n, "reset")
    /\ \E r \in {"ok", "fatal"} : wk' = [wk EXCEPT ![s][n].pc = "resetReply", ![s][n].reply = r]
    /\ \/ UNCHANGED omada
       \/ m # NoMac /\ omada' = [omada EXCEPT ![m] = FALSE]
    /\ UNCHANGED <<sess, byId, byKey, queue, accepting, runFinished, sessionFinished, visits>>

\* Retryable if the reset worked and the last failure was; RESET_REQUEST_FAILED is final.
HandleResetReply(s, n) ==
    /\ At(s, n, "resetReply") /\ RunMatches(s, n)
    /\ sess' = [sess EXCEPT ![s] =
                   FinishRun(@, n, "FAILED", /\ wk[s][n].reply = "ok"
                                             /\ wk[s][n].lastFailure \in {"none", "transient"})]
    /\ Quit(s, n)
    /\ UNCHANGED <<byId, byKey, queue, accepting, omada, runFinished, sessionFinished, visits>>

\* Any other exception inside the try block: WORKER_EXCEPTION, final.
WorkerException(s, n) ==
    /\ wk[s][n].pc \in CallPcs \ {"lookup", "read", "authorize", "reset"}
    /\ RunMatches(s, n)
    /\ sess' = [sess EXCEPT ![s] = FinishRun(@, n, "FAILED", FALSE)]
    /\ Quit(s, n)
    /\ UNCHANGED <<byId, byKey, queue, accepting, omada, runFinished, sessionFinished, visits>>

\* The authorized snapshot, visit and fingerprint submissions, each behind run_snapshot.
SubmitAuthorized(s, n) ==
    /\ At(s, n, "submit")
    /\ visits' = IF s \in byId /\ sess[s].runs[n].final = "AUTHORIZED"
                 THEN visits \union {<<s, n>>} ELSE visits
    /\ Goto(s, n, "finally")
    /\ UNCHANGED <<sess, byId, byKey, queue, accepting, omada, runFinished, sessionFinished>>

\* Variant: reports every finished run as the end of the session.
EmitFinished_EveryRun(s, n) ==
    LET r == sess[s].runs[n] IN
    /\ At(s, n, "emit")
    /\ IF s \in byId /\ r.final # "open"
       THEN EmitRunFinished(s, n) /\ EmitSessionFinished(s, r.final)
       ELSE UNCHANGED <<runFinished, sessionFinished>>
    /\ Goto(s, n, "done")
    /\ UNCHANGED <<sess, byId, byKey, queue, accepting, omada, visits>>

\* _emit_finished: nothing for a session that is gone; auth.session_finished only while the run is
\* still the session's current one and its outcome admits no retry.
EmitFinished(s, n) ==
    LET r == sess[s].runs[n] IN
    /\ At(s, n, "emit")
    /\ IF s \in byId /\ r.final # "open"
       THEN /\ EmitRunFinished(s, n)
            /\ IF sess[s].cur = n /\ ~(r.final = "FAILED" /\ r.retryable)
               THEN EmitSessionFinished(s, r.final) ELSE UNCHANGED sessionFinished
       ELSE UNCHANGED <<runFinished, sessionFinished>>
    /\ Goto(s, n, "done")
    /\ UNCHANGED <<sess, byId, byKey, queue, accepting, omada, visits>>

-----------------------------------------------------------------------------
(* Time.  Idle time is followed once a session is finished, the only time it is read; the retention *)
(* period is longer than the TTL.                                                                   *)

GrowOld(s) ==
    /\ sess[s].cur > 0 /\ ~sess[s].old
    /\ sess' = [sess EXCEPT ![s].old = TRUE]
    /\ UNCHANGED <<byId, byKey, wk, queue, accepting, omada, runFinished, sessionFinished, visits>>

GrowIdle(s) ==
    /\ s \in byId /\ IsFinished(sess[s])
    /\ \/ sess[s].idle = "recent" /\ sess' = [sess EXCEPT ![s].idle = "cooled"]
       \/ sess[s].idle = "cooled" /\ sess[s].old /\ sess' = [sess EXCEPT ![s].idle = "retired"]
    /\ UNCHANGED <<byId, byKey, wk, queue, accepting, omada, runFinished, sessionFinished, visits>>

-----------------------------------------------------------------------------
(* The specification *)

Init ==
    /\ sess = [s \in Sessions |-> NewSession([mac |-> NoMac, ip |-> NoIp])]
    /\ byId = {}
    /\ byKey = [k \in Keys |-> NoSession]
    /\ wk = [s \in Sessions |-> [n \in RunNos |-> NoThread]]
    /\ queue = <<>>
    /\ accepting = TRUE
    /\ omada \in [Macs -> BOOLEAN]
    /\ runFinished = [s \in Sessions |-> {}]
    /\ sessionFinished = [s \in Sessions |-> "none"]
    /\ visits = {}

\* The web thread that created run n of session s.
StartStep(s, n) ==
    \/ ClaimWorker(s, n)
    \/ SubmitWorker(s, n)
    \/ FailStart(s, n)
    \/ EmitStartFailure(s, n)

\* The executor thread that works on run n of session s; MarkFinished is common to both.
WorkerStep(s, n) ==
    \/ StaleWorker(s, n)
    \/ BeginWaiting(s, n)
    \/ SleepDone(s, n)
    \/ SleepExpired(s, n)
    \/ CheckReady(s, n)
    \/ ExpireIfNeeded(s, n)
    \/ \E m \in Macs : ResolveMac(s, n, m)
    \/ LookupFails(s, n)
    \/ ReadClient(s, n)
    \/ HandleAuthorized(s, n)
    \/ HandleReadiness(s, n)
    \/ StartAttempt(s, n)
    \/ CallAuthorize(s, n)
    \/ HandleAuthReply(s, n)
    \/ HandleVerify(s, n)
    \/ FinalCheck(s, n)
    \/ HandleFinal(s, n)
    \/ CallUnauthorize(s, n)
    \/ HandleResetReply(s, n)
    \/ WorkerException(s, n)
    \/ SubmitAuthorized(s, n)
    \/ EmitFinished(s, n)

Next ==
    \/ \E c \in Contexts : ReuseSession(c) \/ \E s \in Sessions : CreateSession(c, s)
    \/ Cleanup
    \/ \E s \in Sessions :
          \/ PollStatus(s)
          \/ RetryExpired(s)
          \/ \E q \in RequestIds : RetryWhileActive(s, q) \/ RetryCreatesRun(s, q)
          \/ GrowOld(s)
          \/ GrowIdle(s)
          \/ \E n \in RunNos : StartStep(s, n) \/ MarkFinished(s, n) \/ WorkerStep(s, n)
    \/ StartWorker
    \/ Shutdown

Spec == Init /\ [][Next]_vars

\* Threads that can run do run, controller calls return (they carry timeouts) and the clock advances.
Fairness ==
    /\ WF_vars(StartWorker)
    /\ \A s \in Sessions :
          /\ WF_vars(GrowOld(s))
          /\ \A n \in RunNos : WF_vars(StartStep(s, n) \/ MarkFinished(s, n) \/ WorkerStep(s, n))

FairSpec == Spec /\ Fairness

-----------------------------------------------------------------------------
(* Properties *)

\* Every variable has the shape the code gives it.
TypeOK ==
    /\ sess \in [Sessions -> SessionObject]
    /\ byId \in SUBSET Sessions
    /\ byKey \in [Keys -> Sessions \union {NoSession}]
    /\ wk \in [Sessions -> [RunNos -> Thread]]
    /\ queue \in Seq(Sessions \X RunNos)
    /\ accepting \in BOOLEAN
    /\ omada \in [Macs -> BOOLEAN]
    /\ runFinished \in [Sessions -> SUBSET RunNos]
    /\ sessionFinished \in [Sessions -> Statuses \union {"none"}]
    /\ visits \in SUBSET (Sessions \X RunNos)

\* The public status and the run history agree: a session is active exactly while its current run is
\* unfinished, and otherwise shows that run's outcome, or EXPIRED once its TTL has passed.
StatusOfRun(x) ==
    /\ IsActive(x) <=> x.runs[x.cur].final = "open"
    /\ x.status \in {"AUTHORIZED", "FAILED"} =>
          x.status = x.runs[x.cur].final /\ x.retryable = x.runs[x.cur].retryable
    /\ x.status = "EXPIRED" => x.old /\ ~x.retryable

StatusAgrees == \A s \in Sessions : sess[s].cur > 0 => StatusOfRun(sess[s])

\* Only a retryable failure is followed by another run: every run but the newest ended FAILED and
\* retryable, and each later run has a retry request of its own bound to it.
RetriesOf(x) ==
    /\ \A n \in RunNos : n < x.cur => x.runs[n].final = "FAILED" /\ x.runs[n].retryable
    /\ \A n \in RunNos : 1 < n /\ n <= x.cur => \E q \in RequestIds : x.requests[q] = n

RetryOnlyAfterRetryableFailure == \A s \in Sessions : RetriesOf(sess[s])

\* A session's history reads the same from its status, its runs and its retry requests, whatever
\* the worker, a status poll, cleanup and prepare_retry do to it between them.
HistoryIsConsistent == TypeOK /\ StatusAgrees /\ RetryOnlyAfterRetryableFailure

\* One worker at a time: the worker of a superseded run, or of a run whose session reports the
\* worker finished, has left the part of process() that calls the controller.
NoOverlappingWorkers ==
    \A s \in Sessions, n \in RunNos :
        (n < sess[s].cur \/ (n = sess[s].cur /\ sess[s].workerFinished)) =>
            wk[s][n].pc \notin CallPcs \union {"queued"}

\* A run ends AUTHORIZED only on a controller read that returned authStatus 2, never on the answer
\* to authorize() alone.
AuthorizedIsVerified ==
    \A s \in Sessions, n \in RunNos :
        n <= sess[s].cur /\ sess[s].runs[n].final = "AUTHORIZED" => wk[s][n].reply = "authorized"

\* Every key leads to a registered session with that identity: removal leaves no dangling key and
\* resolving a MAC leaves none that names another client.
KeysResolve ==
    \A k \in Keys : byKey[k] # NoSession =>
        /\ byKey[k] \in byId
        /\ k = <<"mac", sess[byKey[k]].mac>> \/ k = <<"ip", sess[byKey[k]].ip>>

\* auth.session_finished is the last word: it is emitted only for a session that is neither active
\* nor open to a retry.
FinishedSessionStaysFinished ==
    \A s \in Sessions : sessionFinished[s] # "none" => IsFinished(sess[s])

\* When every entry carries a MAC, at most one run per client is unfinished at any time, whatever
\* expires, is retried or is removed.
OneOpenRunPerMac ==
    \A s, t \in Sessions :
        /\ sess[s].cur > 0 /\ sess[t].cur > 0
        /\ sess[s].mac # NoMac /\ sess[s].mac = sess[t].mac
        /\ IsActive(sess[s]) /\ IsActive(sess[t])
        => s = t

\* The outcome of a finished run never changes, whoever answers late.
RunOutcomeIsFinal ==
    [][\A s \in Sessions, n \in RunNos :
          n <= sess[s].cur /\ sess[s].runs[n].final # "open" =>
              /\ sess'[s].runs[n].final = sess[s].runs[n].final
              /\ sess'[s].runs[n].retryable = sess[s].runs[n].retryable]_vars

\* A finished session is never reopened or rebound: no new run, no other client, and no status but
\* EXPIRED after its TTL.
FinishedIsFinal ==
    [][\A s \in Sessions : sess[s].cur > 0 /\ IsFinished(sess[s]) =>
          /\ sess'[s].cur = sess[s].cur
          /\ sess'[s].mac = sess[s].mac
          /\ sess'[s].status \in {sess[s].status, "EXPIRED"}]_vars

\* Every run that is created comes to an end: a session with an unfinished run is one day without.
RunsFinish == \A s \in Sessions : CurrentOpen(sess[s]) ~> ~CurrentOpen(sess[s])

\* Every authorized run is handed to the visit and snapshot sinks, unless its session is gone.
AuthorizedRuns(s) == { n \in RunNos : n <= sess[s].cur /\ sess[s].runs[n].final = "AUTHORIZED" }

AuthorizedIsSubmitted ==
    \A s \in Sessions :
        AuthorizedRuns(s) # {} ~> ({s} \X AuthorizedRuns(s) \subseteq visits \/ s \notin byId)

\* With threads that keep running, no run is left open and no authorization unreported.
RunsAreCarriedOut == RunsFinish /\ AuthorizedIsSubmitted

\* What a session shows a client: nothing yet, an unfinished run, or an outcome.
Outcome(x) ==
    IF x.cur = 0 THEN "none"
    ELSE IF IsActive(x) THEN "active"
    ELSE IF CanRetry(x) THEN "retryable"
    ELSE x.status

Contract == INSTANCE AuthContract WITH
    outcome <- [s \in Sessions |-> Outcome(sess[s])],
    run     <- [s \in Sessions |-> sess[s].cur]

\* Whatever threads, retries, expiry and late answers do, a client sees a session that obeys
\* AuthContract.
ImplementsContract == Contract!Spec

\* docs/auth_retry.md: "Every run ends with auth.run_finished".
EveryRunEndsWithRunFinished ==
    \A s \in Sessions, n \in RunNos : wk[s][n].pc \in {"done", "lost"} => n \in runFinished[s]
=============================================================================
