--------------------------- MODULE SensorTransport ---------------------------
(***************************************************************************)
(* The transport of the fingerprint sensor (app/device_fingerprint_sensor):*)
(* capture threads and health reports submit events; the ingress coalescer *)
(* holds evidence in memory for a short window; the spool, an SQLite table *)
(* bounded in rows, bytes and age, makes it durable; the producer delivers *)
(* batches over HTTPS at least once.                                       *)
(*                                                                         *)
(* Two locks: the coalescer's condition, held from the submission of an    *)
(* event until its writes are done (c.cur or c.job is set), and the        *)
(* spool's, held by one action.  Events are numbered as they are           *)
(* submitted, one at a time; 0 stands for no event.                        *)
(***************************************************************************)
EXTENDS Integers, Sequences, FiniteSets, FiniteSetsExt

CONSTANTS
    Events,     \* 1..n
    Health,     \* the source_health events; the others are evidence
    Size,       \* event |-> serialized size
    Sources,    \* capture threads
    Coalesce,   \* io_ingress_coalesce_enabled
    Gate,       \* io_stale_purge_gate_enabled
    MaxEvents,  \* spool_max_events
    Chunk,      \* MAX_TRANSACTION_ROWS
    BatchSize,  \* delivery_batch_size
    TTL,        \* 86400 seconds
    MaxPend,    \* MAX_EVENTS of the coalescer
    MaxBytes,   \* MAX_BUFFERED_SERIALIZED_BYTES
    Window,     \* MAX_OLDEST_EVENT_WAIT_MS
    Lag,        \* how old an event may be when it is submitted
    MaxTime,    \* bound on the clock
    MaxFaults   \* bound on crashes and on failed spool transactions

ASSUME LimitsAssumption ==
    /\ {MaxEvents, Chunk, BatchSize, MaxPend, MaxBytes} \subseteq Nat \ {0}
    /\ {TTL, Window, Lag, MaxTime, MaxFaults} \subseteq Nat
    /\ Health \subseteq Events
    /\ \A e \in Events : Size[e] \in Nat
    /\ Gate \in BOOLEAN /\ Coalesce \in BOOLEAN

VARIABLES
    now,        \* the clock
    born,       \* event |-> observed_at, for the events submitted so far
    sp,         \* the spool: rows and sequence (durable), memo and blocked
    full,       \* the files leave less than the write headroom
    c,          \* the coalescer and its timer thread
    alive,      \* the threads that still run
    d,          \* the producer
    log,        \* what became of events (the code keeps counters), and
                \* which were submitted before the last start
    faults      \* crashes and failures so far

vars == <<now, born, sp, full, c, alive, d, log, faults>>

\* None of them is ever started again.
Threads == Sources \cup {"delivery", "telemetry"}

\* next_possible_stale_at_utc: an empty table has no expiry at all.
Unknown == -1
Empty == MaxTime + TTL + 1

NewCoalescer == [pend |-> <<>>, bytes |-> 0, oldest |-> 0, disabled |-> FALSE,
                 failed |-> FALSE, stop |-> FALSE, closing |-> FALSE,
                 timer |-> "off", cur |-> 0, at |-> 0, by |-> "none", job |-> <<>>,
                 result |-> "none"]
\* The timer thread is started with the transport; if it cannot be, the
\* coalescer is disabled and every event is written directly.
StartedCoalescer(ok) ==
    [NewCoalescer EXCEPT !.timer = IF Coalesce /\ ok THEN "ready" ELSE "off",
                         !.disabled = Coalesce /\ ~ok]
NewProducer == [pc |-> "idle", batch |-> {}, perm |-> FALSE]

Init ==
    /\ now = 0
    /\ born = [e \in {} |-> 0]
    /\ sp = [rows |-> {}, seq |-> 0, memo |-> Unknown, blocked |-> FALSE]
    /\ full = FALSE
    /\ \E ok \in BOOLEAN : c = StartedCoalescer(ok)
    /\ alive = Threads
    /\ d = NewProducer
    /\ log = [durable |-> {}, stale |-> {}, evicted |-> {}, server |-> {}, past |-> {}]
    /\ faults = 0

-----------------------------------------------------------------------------
(* The spool *)

Evs(rs) == {r.ev : r \in rs}
Stale(rs) == {r \in rs : r.obs < now - TTL}

FirstBySeq(n, rs) == {r \in rs : Cardinality({q \in rs : q.seq < r.seq}) < n}
FirstByAge(n, rs) ==
    {r \in rs : Cardinality({q \in rs : q.obs < r.obs
                                       \/ (q.obs = r.obs /\ q.seq < r.seq)}) < n}

\* _expiry, _rebuild_stale_memo
Expiry(r) == r.obs + TTL
Memo(rs) == IF rs = {} THEN Empty ELSE Min({Expiry(r) : r \in rs})

\* _refresh_capacity_blocked
Refresh(s, incoming) ==
    [s EXCEPT !.blocked = @ /\ ~(Cardinality(s.rows) + incoming <= MaxEvents
                                 /\ ~full)]

\* _purge_stale, one transaction or until nothing stale is left
Purge(s, drain) ==
    LET gone == IF drain THEN Stale(s.rows)
                         ELSE FirstByAge(Chunk, Stale(s.rows))
    IN  Refresh([s EXCEPT !.rows = @ \ gone], 0)

\* _purge_stale_if_needed: with the gate, the memo may prove a purge useless.
PurgeIfNeeded(s, drain) ==
    LET t == [s EXCEPT !.memo = IF Gate /\ @ = Unknown THEN Memo(s.rows) ELSE @]
        u == Purge(t, drain)
    IN  IF Gate /\ now < t.memo THEN t
        ELSE [u EXCEPT !.memo = IF Gate THEN Memo(u.rows) ELSE @]

Evidence(rs) == {r \in rs : r.ev \notin Health}

\* _make_room evicts the oldest evidence, never source health.
MakeRoom(s, incoming) ==
    LET needed == Max({0, Cardinality(s.rows) + incoming - MaxEvents})
        gone == FirstBySeq(Min({needed, Chunk}), Evidence(s.rows))
        t == [s EXCEPT !.rows = @ \ gone,
                       !.blocked = @ \/ Cardinality(gone) < needed]
        u == IF full
               THEN [t EXCEPT !.rows = @ \ FirstBySeq(Chunk, Evidence(t.rows)),
                              !.blocked = TRUE]
               ELSE t
    IN  Refresh(u, incoming)

\* INSERT OR IGNORE of the events at the positions P of a group, in their
\* order; the sequence is AUTOINCREMENT and never reused.
Insert(s, group, P) ==
    LET new == {i \in P : group[i] \notin Evs(s.rows)}
        Place(i) == Cardinality({j \in new : j <= i})
    IN  [s EXCEPT !.rows = @ \cup {[seq |-> s.seq + Place(i), ev |-> group[i],
                                    obs |-> born[group[i]]] : i \in new},
                  !.seq = @ + Cardinality(new)]

\* Variant: the memo is replaced by the newest expiry.
X_NoteReplaces(memo, new) ==
    IF ~Gate \/ memo = Unknown THEN memo ELSE Memo(new)

\* _note_new_insert
Note(memo, new) ==
    IF ~Gate \/ memo = Unknown THEN memo ELSE Min({memo, Memo(new)})

\* The positions in a group of the events that are not too old.
Fresh(group) == {i \in DOMAIN group : born[group[i]] >= now - TTL}

\* The spool once it is purged and room has been made for the fresh events of a group.
Prepared(group) ==
    LET s == PurgeIfNeeded(sp, FALSE)
    IN  [purged |-> s.rows,
         s |-> IF Fresh(group) = {} THEN s ELSE MakeRoom(s, Cardinality(Fresh(group)))]

\* What the log learns of a purge and an eviction.
Logged(before, purged, after, dropped) ==
    [log EXCEPT !.stale = @ \cup Evs(before \ purged) \cup dropped,
                !.evicted = @ \cup Evs(purged \ after)]

-----------------------------------------------------------------------------
(* Submission *)

Elapsed == now - c.oldest >= Window
LockFree == c.cur = 0 /\ c.job = <<>>
Notified(t) == IF t \in {"asleep", "timed"} THEN "ready" ELSE t

\* Who may report source health: the delivery thread after a failed or a
\* delivered batch, other threads at any time (raw capture only as it ends),
\* and whoever handles the failure of a thread or of the spool.
Reports(by) ==
    \/ by \in alive \ {"raw"} /\ (by = "delivery" => d.pc = "report")
    \/ by = "handler" /\ (c.failed \/ ~(Sources \subseteq alive))

\* A thread takes the lock with its event.
Submit(by, obs) ==
    LET e == Cardinality(DOMAIN born) + 1
    IN  /\ LockFree /\ ~c.stop
        /\ e \in Events
        /\ now + Window <= MaxTime   \* the bound leaves time for the window
        /\ IF e \in Health THEN Reports(by) ELSE by \in alive \cap Sources
        /\ born' = [x \in DOMAIN born \cup {e} |-> IF x = e THEN obs ELSE born[x]]
        /\ c' = [c EXCEPT !.cur = e, !.at = now, !.by = by]
        /\ d' = IF by = "delivery" THEN [d EXCEPT !.pc = "idle"] ELSE d
        /\ UNCHANGED <<now, sp, full, alive, log, faults>>

\* _flush_locked takes the window out of memory; the write is a step of its
\* own.
Flush(k) == [k EXCEPT !.pend = <<>>, !.bytes = 0, !.oldest = 0, !.job = k.pend]
Direct(k) == [k EXCEPT !.cur = 0, !.at = 0, !.job = <<k.cur>>]

\* Variant: the timer is not woken.
X_AppendQuiet(k) ==
    [k EXCEPT !.pend = Append(@, k.cur), !.bytes = @ + Size[k.cur], !.cur = 0, !.at = 0,
              !.oldest = IF k.pend = <<>> THEN k.at ELSE @]

Append_(k) ==
    [k EXCEPT !.pend = Append(@, k.cur), !.bytes = @ + Size[k.cur], !.cur = 0, !.at = 0,
              !.oldest = IF k.pend = <<>> THEN k.at ELSE @,
              !.timer = Notified(@)]

\* Variant: a health report goes to the spool past the unwritten window.
X_SubmitOne ==
    IF c.disabled \/ ~Coalesce \/ sp.blocked \/ c.cur \in Health
       \/ Size[c.cur] > MaxBytes
      THEN Direct(c)
    ELSE IF c.pend # <<>> /\ (Elapsed \/ c.bytes + Size[c.cur] > MaxBytes)
      THEN Flush(c)
    ELSE Append_(c)

\* _submit_one_locked and barrier: evidence waits in the window; everything
\* else goes straight to the spool once the window has been written.
SubmitOne ==
    IF c.disabled \/ ~Coalesce THEN Direct(c)
    ELSE IF c.pend # <<>> /\ (Elapsed \/ sp.blocked \/ c.cur \in Health
                              \/ c.bytes + Size[c.cur] > MaxBytes)
      THEN Flush(c)
    ELSE IF sp.blocked \/ c.cur \in Health \/ Size[c.cur] > MaxBytes
      THEN Direct(c)
    ELSE Append_(c)

SubmitStep ==
    /\ c.cur # 0 /\ c.job = <<>>
    /\ c' = LET k == SubmitOne
            IN  IF /\ k.pend # <<>>
                   /\ Len(k.pend) = MaxPend \/ now - k.oldest >= Window
                  THEN Flush(k) ELSE k
    /\ UNCHANGED <<now, born, sp, full, alive, d, log, faults>>

\* Variant: a failed write is not recorded as a failure.
X_FailQuiet(k) == [k EXCEPT !.job = <<>>, !.cur = 0, !.at = 0, !.by = "none", !.disabled = TRUE,
                            !.timer = IF k.by = "timer" THEN "done"
                                                        ELSE Notified(@)]

\* A failed write disables the coalescer for good, and its event and the one
\* being submitted are gone.
Fail(k) == [k EXCEPT !.job = <<>>, !.cur = 0, !.at = 0, !.by = "none",
                     !.disabled = Coalesce, !.failed = Coalesce,
                     !.timer = IF k.by = "timer" THEN "done" ELSE Notified(@)]

\* The exception ends the thread that submitted, be it a capture thread or
\* the one that delivers; handlers swallow it.
Failure ==
    /\ c' = Fail(c)
    /\ alive' = alive \ {c.by}

Success ==
    /\ c' = [c EXCEPT !.job = <<>>, !.by = IF c.cur = 0 THEN "none" ELSE @,
                       !.timer = IF c.stop THEN Notified(@) ELSE @]
    /\ UNCHANGED alive

\* SensorSpool.enqueue of one group.  An error before the insert leaves what
\* was purged and evicted.  A failed insert makes the memo unknown, except
\* that of an event written directly, which may have been noted already.
Enqueue ==
    /\ c.job # <<>>
    /\ LET g == Prepared(c.job)
           fresh == Fresh(c.job)
           t == Insert(g.s, c.job, fresh)
           new == t.rows \ g.s.rows
           dropped == {c.job[i] : i \in DOMAIN c.job \ fresh}
       IN  /\ \/ \* nothing fresh, or no capacity
                 /\ fresh = {} \/ g.s.blocked
                 /\ sp' = g.s
                 /\ IF Coalesce /\ g.s.blocked THEN Failure ELSE Success
                 /\ UNCHANGED <<full, faults>>
              \/ \* stored; the files may have outgrown the budget by it
                 /\ fresh # {} /\ ~g.s.blocked
                 /\ \E over \in BOOLEAN :
                       /\ full' = over
                       /\ sp' = [t EXCEPT !.memo = Note(@, new),
                                          !.blocked = over]
                       /\ IF over /\ Coalesce THEN Failure ELSE Success
                 /\ UNCHANGED faults
              \/ \* the insert fails and is rolled back
                 /\ fresh # {} /\ ~g.s.blocked /\ faults < MaxFaults
                 /\ \E m \in IF Len(c.job) > 1 THEN {Unknown}
                             ELSE {Unknown, g.s.memo, Note(g.s.memo, new)} :
                       sp' = [g.s EXCEPT !.memo = m]
                 /\ faults' = faults + 1
                 /\ Failure /\ UNCHANGED full
           /\ log' = [Logged(sp.rows, g.purged, g.s.rows, dropped)
                      EXCEPT !.durable = @ \cup Evs(sp'.rows)]
    /\ UNCHANGED <<now, born, d>>

-----------------------------------------------------------------------------
(* The timer thread and shutdown *)

TimerStep ==
    /\ c.timer = "ready" /\ LockFree
    /\ c' = IF c.disabled THEN [c EXCEPT !.timer = "done"]
            ELSE IF c.closing \/ c.stop
              THEN [Flush(c) EXCEPT !.timer = "done", !.by = "timer"]
            ELSE IF c.pend = <<>> THEN [c EXCEPT !.timer = "asleep"]
            ELSE IF ~Elapsed /\ ~sp.blocked THEN [c EXCEPT !.timer = "timed"]
            ELSE [Flush(c) EXCEPT !.by = "timer"]
    /\ UNCHANGED <<now, born, sp, full, alive, d, log, faults>>

\* wait(remaining) times out.
TimerWakes ==
    /\ c.timer = "timed" /\ Elapsed
    /\ c' = [c EXCEPT !.timer = "ready"]
    /\ UNCHANGED <<now, born, sp, full, alive, d, log, faults>>

\* shutdown: signalled without the lock, then with it.
RequestStop ==
    /\ ~c.stop
    /\ c' = [c EXCEPT !.stop = TRUE]
    /\ UNCHANGED <<now, born, sp, full, alive, d, log, faults>>

Close ==
    /\ Coalesce
    /\ c.stop /\ ~c.closing /\ LockFree
    /\ c' = [c EXCEPT !.closing = TRUE, !.timer = Notified(@)]
    /\ UNCHANGED <<now, born, sp, full, alive, d, log, faults>>

\* The timer has been joined, or the deadline has passed at some point.
Joined ==
    /\ Coalesce /\ c.stop /\ c.result = "none"
    /\ \/ /\ c.closing /\ c.timer \in {"off", "done"}
          /\ c.by = "timer" => c.job = <<>>
          /\ c' = [c EXCEPT !.result = IF c.pend = <<>> /\ ~c.failed
                                         THEN "clean" ELSE "unclean"]
       \/ c' = [c EXCEPT !.result = "unclean"]
    /\ UNCHANGED <<now, born, sp, full, alive, d, log, faults>>

\* The process dies or is restarted; the table and the server remain.
Crash ==
    /\ faults < MaxFaults
    /\ faults' = faults + 1
    /\ sp' = [sp EXCEPT !.memo = Unknown, !.blocked = FALSE]
    /\ \E ok \in BOOLEAN : c' = StartedCoalescer(ok)
    /\ alive' = Threads
    /\ d' = NewProducer
    /\ log' = [log EXCEPT !.past = DOMAIN born]
    /\ UNCHANGED <<now, born, full>>

-----------------------------------------------------------------------------
(* Delivery *)

\* Variant: only evidence is ever put into a batch.
X_BatchOfEvidence(rs) == FirstBySeq(BatchSize, Evidence(rs))

\* SensorSpool.batch: the endpoint of the first row, its rows in order.
Batch(rs) ==
    LET first == FirstBySeq(1, rs)
    IN  FirstBySeq(BatchSize, {r \in rs : \A f \in first :
                                 (r.ev \in Health) = (f.ev \in Health)})

DeliverOnce ==
    /\ "delivery" \in alive /\ ~(c.by = "delivery" /\ ~LockFree)
    /\ d.pc = "idle" /\ ~d.perm /\ ~c.stop
    /\ LET s == Refresh(PurgeIfNeeded(sp, TRUE), 0)
           fresh == s.rows \ Stale(s.rows)
       IN  /\ sp' = s
           /\ log' = Logged(sp.rows, s.rows, s.rows, {})
           /\ d' = IF fresh = {} THEN d
                   ELSE [d EXCEPT !.pc = "post", !.batch = Batch(fresh)]
    /\ UNCHANGED <<now, born, full, c, alive, faults>>

\* Variant: a lost answer counts as delivered.
X_LostIsDone == [d EXCEPT !.pc = "ack"]

\* The request or its answer is lost, or the server is busy or refuses.
Retry == [d EXCEPT !.pc = "report", !.batch = {}]

Post(answer) ==
    /\ d.pc = "post"
    /\ \E received \in IF answer = "ok" THEN {TRUE} ELSE
                       IF answer = "none" THEN BOOLEAN ELSE {FALSE} :
          /\ log' = [log EXCEPT !.server =
                        @ \cup (IF received THEN Evs(d.batch) ELSE {})]
          /\ d' = IF answer = "ok" THEN [d EXCEPT !.pc = "ack"]
                  ELSE IF answer = "permanent"
                    THEN [NewProducer EXCEPT !.perm = TRUE]
                  ELSE Retry
    /\ UNCHANGED <<now, born, sp, full, c, alive, faults>>

\* acknowledge deletes by sequence; when it fails the rows are sent again.
Acknowledge ==
    /\ d.pc = "ack"
    /\ \/ /\ sp' = Refresh([sp EXCEPT !.rows =
                @ \ {r \in @ : \E b \in d.batch : b.seq = r.seq}], 0)
          /\ UNCHANGED faults
       \/ /\ faults < MaxFaults
          /\ faults' = faults + 1
          /\ UNCHANGED sp
    /\ d' = [d EXCEPT !.pc = "report", !.batch = {}]
    /\ UNCHANGED <<now, born, full, c, alive, log>>

\* The health is what was reported last: the thread goes on without a report.
NothingToReport ==
    /\ d.pc = "report"
    /\ d' = [d EXCEPT !.pc = "idle"]
    /\ UNCHANGED <<now, born, sp, full, c, alive, log, faults>>

\* The journal file goes, or an operator makes room.
DiskRelief ==
    /\ full
    /\ full' = FALSE
    /\ UNCHANGED <<now, born, sp, c, alive, d, log, faults>>

Tick ==
    /\ now < MaxTime
    /\ now' = now + 1
    /\ UNCHANGED <<born, sp, full, c, alive, d, log, faults>>

Timer == TimerStep \/ TimerWakes \/ SubmitStep \/ Enqueue
Deliver == DeliverOnce \/ Post("ok") \/ Acknowledge \/ NothingToReport

Next ==
    \/ \E by \in Threads \cup {"handler"}, obs \in (now - Lag)..now : Submit(by, obs)
    \/ Timer \/ Deliver
    \/ RequestStop \/ Close \/ Joined
    \/ Crash
    \/ \E a \in {"none", "transient", "permanent"} : Post(a)
    \/ DiskRelief \/ Tick

Spec == Init /\ [][Next]_vars

\* The threads that live run, the server accepts in the end, and the disk recovers.
FairSpec ==
    /\ Spec
    /\ WF_vars(Timer) /\ WF_vars(Deliver) /\ WF_vars(Tick) /\ WF_vars(DiskRelief)
    /\ SF_vars(Post("ok"))

-----------------------------------------------------------------------------
(* Properties *)

\* Each variable holds what the code can put there; the window in memory
\* never reaches its limit outside the lock, nor exceeds its byte budget,
\* and the table is never larger than spool_max_events.
TypeOK ==
    /\ \A r \in sp.rows : r.ev \in DOMAIN born /\ r.seq \in 1..sp.seq
    /\ Cardinality(Evs(sp.rows)) = Cardinality(sp.rows)
    /\ Cardinality(sp.rows) <= MaxEvents
    /\ sp.memo \in {Unknown} \cup (TTL - Lag)..Empty
    /\ Len(c.pend) < MaxPend /\ c.bytes <= MaxBytes
    /\ c.timer \in {"off", "ready", "asleep", "timed", "done"}
    /\ d.pc \in {"idle", "post", "ack", "report"}

\* The memo that lets a purge be skipped never promises too much: no stored
\* row expires before it, whatever was inserted, ignored, evicted,
\* acknowledged or rolled back since it was computed.
MemoSound ==
    sp.memo # Unknown => \A r \in sp.rows : sp.memo <= Expiry(r)

\* At-least-once: an event that was once durable is stored, was received by
\* the server, or is accounted for as stale or evicted, and only evidence is
\* ever evicted.  No crash, lost answer, failed acknowledge or eviction
\* under a batch in flight makes it vanish.
NothingVanishes ==
    /\ log.durable \subseteq Evs(sp.rows) \cup log.server \cup log.stale
                             \cup log.evicted
    /\ log.evicted \cap Health = {}

\* The table keeps the order of submission across the window, direct writes,
\* two capture threads and restarts: a health report never overtakes the
\* evidence submitted before it.
SubmissionOrder ==
    \A q, r \in sp.rows : q.ev < r.ev => q.seq < r.seq

\* A clean shutdown is a promise: everything submitted since the start has
\* been written, or was too old for it, whichever write failed meanwhile.
CleanMeansDurable ==
    c.result = "clean" => DOMAIN born \ log.past \subseteq log.durable \cup log.stale

\* What was submitted is delivered in order or accounted for, up to a clean end.
DeliveryIsSound == TypeOK /\ NothingVanishes /\ SubmissionOrder /\ CleanMeansDurable

\* Evidence does not stay in memory: the timer writes the window even if
\* nothing is ever submitted again.
WindowIsWritten == c.pend # <<>> ~> c.pend = <<>>

\* The spool drains: what is stored leaves the table by delivery, eviction or
\* age and a blocked spool accepts events again, in spite of lost answers,
\* as long as there is a delivery thread: unless the server rejects the
\* producer for good, the process is stopped, or the thread has ended because
\* its own health report was refused.
SpoolDrains ==
    sp.rows # {} \/ sp.blocked
       ~> (sp.rows = {} /\ ~sp.blocked) \/ d.perm \/ c.stop \/ "delivery" \notin alive

\* Deliveries that fail for a while do not end the delivery thread, as long
\* as no write to the spool fails (_delivery_loop_inner).  With the coalescer
\* this is not so: a full spool refuses the report of the failure.
DeliveryOutlivesOutages ==
    faults = 0 => "delivery" \in alive
=============================================================================
