# CaptivePortal: a TLA+ verification project

CaptivePortal is a Flask application that authorizes Wi-Fi guests on a TP-Link Omada controller. A
browser opens the portal page, the portal creates an authorization session, a worker thread drives the
controller until it reports the client as authorized, and the page polls for the outcome. Around that
core run background workers and side processes: a cleaner that reconnects clients stuck unauthorized, a
visit store fed by webhooks, the CAPPORT API, a settings service, a traffic projection, a device
classifier and a fingerprint sensor, besides analytics and an admin interface.

This directory models the parts where threads, processes, crashes, timeouts and an unreliable controller
meet, checks them with TLC on small instances and proves with TLAPS, for all sizes, the safety of the
authorization core, the visit store and its journal reader, the CAPPORT cache, the settings service, the
integration's jobs, the fingerprint sensor's transport, the traffic projection and the cleaner. Three abstract
specifications say what a client of the authorization, of the settings API and of the integration may rely on;
the detailed modules are proved to implement them.

## 1. Inventory

| Part (source under `src/`) | State | Operations | What makes it correct |
|---|---|---|---|
| `AuthSessionManager`, `AuthSession` (`app/auth/manager.py`, `session.py`) | sessions by id and by key (site + MAC or IP), runs per session, retry requests, one lock | create_or_get, prepare_retry, claim_worker, mark_worker_finished, update_status, begin_attempt, set_client_mac, finish_run, fail, expire_if_needed, cleanup | one unfinished run per client; an outcome never changes; a retry only after a retryable failure; keys lead to live sessions |
| `AuthWorker` (`app/auth/worker.py`) | the stack of one thread per run | process: wait, poll readiness, authorize, verify, final check, reset, finish, emit | every run ends; AUTHORIZED only when the controller says so; a stale worker changes nothing |
| Portal entry and routes (`app/web`) | executor and its queue | portal page, status poll, retry, submit_worker | a claimed run is executed or failed; requests are idempotent |
| Auth telemetry, auth health | emitted-once flags; latest outcome | emit, record | session_finished is the last word on a session |
| Pending-session cleaner (`app/pending_sessions`) | one worker thread, action guard, audit journal | scan, preflight, protection checks, guarded reconnect, token recovery, verification, stop | never acts on a client that uses the portal; audited; limited; stops |
| Omada client (`app/controllers`) | token cache | reads, authorize, unauthorize, reconnect | a stale response never discards a newer token |
| CAPPORT (`app/capport`) | identity snapshot per site with a generation, state per IP, failure cooldown, refresh locks | status lookup, refresh, prune | no state is served for an IP whose client changed; every request is answered |
| Visit lifecycle (`app/visit_lifecycle`) | SQLite visits, authorizations, offline events, reader progress; one write slot | start on authorization, apply journal line, retry pending, link devices, recover | each visit starts and ends once, across lost answers, retries, crashes and contention |
| Webhook receiver (`app/integrations/omada`) | journal files with rotation | receive, normalize, append, rotate | what is acknowledged is in the journal and is read once |
| Settings control (`app/settings_control`) | chain of generations, secret versions, idempotency records, activation events | mutate, replace or clear the secret, start, adopt, recover | an edit is applied once and over what its author saw; what runs is what is stored |
| Traffic projection (`app/traffic_projection`) | versions, projected rows, per-site checkpoints, sweep cursor and proofs | incremental, reconcile, repair, rebuild-range, cleanup, mark-ready, activate | a proved window is there; an active version is complete; late evidence arrives |
| Device fingerprint integration (`app/device_fingerprint_integration`) | jobs with leases, classifications in a second database | enqueue, claim, execute, finish, resolve identity | a result is never lost or claimed falsely; jobs end |
| Fingerprint sensor (`app/device_fingerprint_sensor`) | spool table, in-memory window, delivery state | submit, flush, purge, evict, deliver, acknowledge, close | at-least-once delivery in order, within bounds |
| Visitor registry, observations, current state, portal counter | SQLite projections, collection cycles | collect, apply, retain | one writer, no lost or repeated cycle |
| Network metadata, attribution, recognition, fingerprint rules | imported tables, rules, evidence | import, classify | mostly pure classification |
| Analytics, admin web, configuration, logging | none of their own, or views | queries, pages | not a state machine |

The hard behaviours: a worker holds no lock while it waits for the controller, so everything it knew may be
outdated when the answer arrives; controller calls may time out after taking effect; a retry may open a run
while the worker of the previous one is still in its `finally` block; two databases are written one after
the other with a crash in between; files are renamed under a reader; a database may report BUSY for what it
committed; operator tools and daily jobs work on the tables a sweep is half through; shutdown may fall
between any two steps. `PROJECT.json` lists these hazards with the line where each one bites and the
property that covers it.

How the parts interact: the portal (AuthSession) hands every authorized run to the visit store's start
submitter and to the integration's job table, and protects its clients from the cleaner; the controller's
webhooks become journal lines (JournalReader) that the reader turns into offline events (VisitStore) through
the write slot (WriteCoordinator); the observation cycles are the source of the traffic projection. Each
module states what it takes from its neighbour as actions of its environment.

## 2. Modules

| Module | Role |
|---|---|
| `AuthSession` | manager, portal entry, routes, executor and worker as one state machine |
| `AuthContract` | what a client may observe of a session; `AuthSession` implements it |
| `AuthHistory` | `AuthSession` with the memory of whether an entry without a MAC ever created a session |
| `AuthSessionProofs` | inductive invariant and theorems about `AuthSession` and `AuthHistory` |
| `ActionGuard` | cooldown and hourly limit of the cleaner, with pruning and eviction |
| `PendingCleaner` | the cleaner's worker thread, its environment and its use of `ActionGuard` (EXTENDS it) |
| `PendingCleanerProofs` | invariants and theorems about `PendingCleaner` and its `ActionGuard` |
| `WriteCoordinator` | the priority write slot of the visit store |
| `VisitStore` | visits, authorizations and offline events, and the four writers that change them |
| `JournalReader` | the rotating webhook journal and the reader with its durable progress |
| `VisitStoreProofs`, `JournalReaderProofs` | invariants and theorems about the store with its write slot, and about the journal reader |
| `CapportCache` | the CAPPORT service: identity snapshots, client states, cooldown, locks |
| `SettingsStore` | settings generations, the managed secret, mutations, startup and recovery |
| `SettingsContract` | one numbered configuration, changed by one accepted request at a time; `SettingsStore` implements it |
| `IntegrationJobs` | the job table of the classifier: leases, two databases, identity resolution |
| `JobContract` | one verdict per submitted run, agreeing with what is stored; `IntegrationJobs` implements it |
| `SettingsStoreProofs`, `IntegrationJobsProofs` | invariants and theorems about these two |
| `TrafficProjection` | the projection's worker, commands and versions over a growing source |
| `ReadModelProofs` | invariants and theorems about the two parts that answer from copies: `CapportCache` and `TrafficProjection` |
| `SensorTransport` | coalescer, spool and producer of the fingerprint sensor |
| `SensorTransportProofs` | invariants and theorems about it |
| `MC...` | the same modules for TLC: constants, foci (below), properties restricted to a focus |

An operator whose comment begins with *Variant* contains one plausible mistake in the operator it precedes.
No specification uses it; it breaks the property it is paired with in `PROJECT.json`, which shows that the
property can fail. A property that is a conjunction has a variant for every conjunct but the types.

**Foci.** Where one instance large enough for every case would be too large to check, the MC module gives
each behaviour a `focus` that never changes and restricts what happens (fewer clients but more runs, one
command but not another), or picks other constants with INSTANCE. A run explores all foci; a liveness
property is asked of the focus whose fairness is stated. No definition of the modelled system is replaced.

### AuthSession

One step is one critical section of the manager's lock, or one controller call taking effect.

| Variable | Code |
|---|---|
| `sess` | the `AuthSession` objects with their `AuthRun`s; `cur` is the current run number, `cur = 0` an id not in use |
| `byId`, `byKey` | `_sessions_by_id`, `_sessions_by_key` |
| `wk` | per run, the thread that starts it (web) or works on it (executor): program counter, phase, attempt, last failure, reply in hand |
| `queue`, `accepting` | the executor's work queue; not yet shut down |
| `omada` | the controller's authorization state per MAC |
| `runFinished`, `sessionFinished` | emitted `auth.run_finished` / `auth.session_finished` |
| `visits` | authorized runs passed on to the visit, snapshot and fingerprint sinks |

- *Web*: `ReuseSession` and `CreateSession` are `prepare_portal` with `create_or_get` (cleanup
  included); `PollStatus`, `RetryExpired`, `RetryWhileActive`, `RetryCreatesRun` the status and retry
  routes; `ClaimWorker`, `SubmitWorker`, `FailStart`, `MarkFinished`, `EmitStartFailure` the steps of
  `submit_worker`.
- *Worker*: `StartWorker` to `EmitFinished` follow `process()`. `StaleWorker` is `_StaleRun`, raised
  wherever a write finds that its run is no longer current and open; `WorkerException` is the general
  handler. Reads (`lookup`, `read`) and what is done with their answer (`handle`) are separate steps.
- *Time*: the code compares ages only with thresholds, so a session is `old` (past its TTL) or not and
  `recent`, `cooled` or `retired` by idle time. `GrowOld` and `GrowIdle` may happen at any moment the
  thresholds' order allows.
- *Controller*: external. `authorize` and `unauthorize` answer and take effect independently of each
  other; reads report the state at the moment they are served or fail in one of the ways
  `_classify_failure` distinguishes.

Abstracted: delays, event payloads, metrics, message texts, the site id (one site), hashing of tokens
(a `run_token` is fresh per run, so comparing it is comparing run numbers), and the ownership check of
the retry route, which only lets foreign callers do nothing.

### ActionGuard and PendingCleaner

`ActionGuard` keeps `_last_attempt` (`last`) and `_attempts` (`attempts`) over a ticking clock.
`Check` is `check()` from where it reads the tables, `RecordAttempt` is `record_attempt()` with
`_bound_locked`, and `AuditFails` is the cleaner dropping a granted action because its audit record
failed. `log` is history.

`PendingCleaner` follows `_run`, `run_once`, `_run_once_locked`, `_process_candidate`,
`_recover_expired_token` and `_verify` with a program counter. Each request is two steps, so stop and
the budget are read before it goes out and the world may change before the answer. A controller
session is named by the time it began; its uptime is its age. `portal` is what
`pending_session_protection_snapshot` says of a client: `active` covers an active run, session or
worker and a session open to a retry, `until` the grace period. `lateEntry`, `lateSends` and `verdict`
are history. A behaviour begins when the cleaner does, so its first clients may have any status. Clients are taken to enter the portal with their MAC, the key under which protection is
looked up: a session known by IP only does not protect its client (`app/auth/manager.py:207`).

Left out: the reported component state, scan counters, the classifier's conditions that do not change
during a scan (SSID, wireless, blocked, duplicates), the access point comparison, and page-by-page
inventory reading (an inventory is complete or has no candidates).

### WriteCoordinator, VisitStore, JournalReader

`WriteCoordinator` is `PriorityWriteCoordinator`. A step is one critical section of its condition: `Enter`
and `Wake` run the loop of `acquire()` once (`Examine`, in the order of its checks), `Release` ends a lease,
`Stop` sets a cancel event. Times are ages and remaining waits, so the clock needs no bound; `passed` and
`escapes` are history. `PromptSpec` adds what the 50 ms poll and short transactions justify: whoever can act
does so before a tick, the slot is held for at most `MaxHold` ticks, and a start waits `Wait`, a background
operation `BackgroundWait` ticks for it. The start-up operation, which runs
before any thread, is left out.

`VisitStore` is the database. Every transaction is a step; the clock is `utc_now()`. `SubmitAuthorized`,
`BeginAttempt` and its three outcomes are the start submitter with its retry budget, where an attempt that answered BUSY
may have been committed (the case `visit.start_retry_recovered` exists for). `ApplyJournalLine` is the
transaction of one line (`ReadLine`), `BeginPass`/`RetryPending`/`EndPass` a pass over the pending events with its cursor and
batch limit, `link` the reconciler between its lookup and its write, `Recover` the operator's tool. A pass
takes its `now` anew for every row where the code keeps the one of its beginning, which only delays a
decision. Rows of older schemas, health and retention are not modelled.

`JournalReader` has the rotating handler (`slot` names to inodes, one rename per step) and the reader
(`scan`). The system may reuse an inode; a crash loses the scan and may tear the line being written, a power
failure also takes back transactions that `synchronous=NORMAL` had not forced to disk. Two losses are inherent
and part of the model: a torn line is completed by the next acknowledged one and the result is no valid JSON,
and rotation may remove a file that was not read. A line is its event and whether it is valid. The checkpoint's
SHA-256 is taken over bytes, and the bytes of a torn line end with the event that completed it, so two such lines
differ as any two lines do. A line longer than a scan's byte budget would stall the reader; the
journal's own writer produces none.

### CapportCache

A step is one critical section of the cache lock or one answer of the controller. `LookUpIdentity`,
`EnterRefresh`, `ListRead`/`ListFails`, `StoreIdentity` are the snapshot (with a forced refresh when the client
was not found), `LookUpState`, `EnterLock`, `DetailRead`/`DetailFails`, `StoreState` the client's state,
`Respond` the answer. The per-IP refresh locks can be pruned while a thread waits on one (`epoch`), which lets two
threads ask for one client; the checks after the answer make that harmless. A forced refresh may be satisfied by
a list another thread had begun before the request; the property says what the code promises, that it is not
the one in which the client was missing.

### SettingsStore

`gens` is the append-only chain, `versions` the encrypted secrets, `idem` the idempotency records. A request is
`Submit`, `Lookup` (the read transaction, where a replay may be found and the master key is loaded) and `Write`
(the write transaction with the replay, the If-Match comparison, validation and the mutation), and may fail or be
lost with the process at any point and be retried. `Bootstrap`, `Adopt` and their failures are the startup,
`Recover` the tool that clears the secret (it needs the service stopped, which the operator has to see to).
`Admissible` stands for the validators. A secret version is named by the generation that created it. If the
master key file changes between load and write, the new head may not start; `MutationsKeepHeadStartable`
excludes this. `activation_failed` is never shown by a served page, because a head that fails to start has no
process (`ServedStateIsTrue`). Migrations run in one transaction before anything else and are left out.

`SettingsContract` is the service as a client of its API sees it: a configuration with a number, the accepted identities
with their answers, and for each client its latest request and answer. The mapping reads the configuration off the
head of the chain and the secret version it binds; what it says of a refusal (`Reasons`) is that it is true: a
request is in conflict only if its identity was accepted before, and stale only if it was not and the configuration has
changed since the number it names. (The same secret under another master key has another fingerprint, and is a conflict.) `Lookup`, startups, failed startups and key file changes are not seen in it.

### IntegrationJobs

`job` is the table, `results` the classifications in the other database, `con` the consumers. A cycle is
`BeginCycle` (claim), `Read` (look the planned classification up), `Assemble` (classify and persist), `Finish`
(compare-and-set on the token) and `Identify` (one attempt to find device and visit, whose answers are
arbitrary). A crash may fall between any two, a lease may run out under a live consumer. If the lookup fails on
the recovery claim after the last attempt, the job is given up although its result is stored; `NoResultIsHonest`
names this case.

`JobContract` knows of a run only how far its work is, how many classifications it has seen, whether one is stored, and
what its identity was found to be; consumers, leases, claims, delays and the two databases are not visible in it.

### TrafficProjection

`p` is the process that holds the writer lock: the worker or one operator command, at one of its transactions. The
worker's steps are `Incremental` (fast checkpoint), `Due`, the quanta of a sweep (`Reconcile`, `Load`, `Write`,
`SaveCursor`, `CloseQuantum`, `Audit`, `Prove`), the continuation of a repair (`RepairSite`), and `Cleanup`; a kill or a failed step may end it
anywhere. A cycle is named by its start tick; its row has a revision marker (running, or when it ended) and a
fingerprint that also depends on its access points. An audit's sample is any set of at least `Sample` rows.

Not combined in a passing focus: `rebuild-range` between an interrupted repair and its continuation has the same
defect as the repair of a target version (findings, `MCTrafficRangeRepair.cfg`). Left out: deletion in the source (180 days), the
`projection_revision` column, the times of deep audits, and the sums inside a row. The `build` command creates the
version and runs one `worker_iteration()` (`cli.py:72`), which is a run of the worker that is killed after it. A `mark-ready` that comes too early latches the site as diverged
(`ready_source_identity`), and since cleanup goes by the clock and the horizon by the source's head, a source that
has stopped can make `mark-ready` see a missing row; both are behaviours of the code that the model has.

### SensorTransport

`c` is the coalescer with its timer thread, `sp` the spool, `d` the producer, `alive` the threads that still run: capture,
delivery and telemetry, none of which is ever started again. The coalescer is off by default (focus "default").
`Submit` takes the coalescer's lock until its writes are done; the timer and the delivery interleave with it. A report
of source health is such a submission. The delivery thread makes one after a failed or a delivered batch (`pc` "report")
unless nothing has changed; that call is outside the `try` of its loop (`runtime.py:261`). The byte limit of the files is the
flag `full`. A failed write ends the thread that submitted and disables the coalescer until restart; with the coalescer
a spool blocked by its limits is such a failure, without it the event is dropped, which is counted. A permanent
HTTP rejection stops delivery until restart. Source health rows are never evicted. Events are submitted one at a
time, since the threads share the lock; the up to four events of one report are reports of one event each.
`log` and its part `past` (what was submitted before the last start) are history.

Left out: the coalescer's fallback on an unexpected exception (`ingress_coalescer.py:110`, `:171`: it is disabled, and
the window and the remaining events are written one by one); the flush of the window when a thread ends or the producer is
rejected for good (`_flush_ingress_fault_exit`), which the timer does within the window anyway; and what the main
thread reports before the threads start.

## 3. Runs

| Run | Instance and foci | Shows |
|---|---|---|
| `auth_runs` | 1 session, 2 runs of 2 attempts, 2 workers, 1 retry id, all failures, shutdown; fair | `HistoryIsConsistent`, `NoOverlappingWorkers`, `AuthorizedIsVerified`, `FinishedSessionStaysFinished`, `RunOutcomeIsFinal`; `ImplementsContract`; `RunsAreCarriedOut`: every run ends and every authorized one reaches the sinks |
| `auth_sessions` | 2 sessions of one client entering by IP and by MAC, 1 worker, failing resets, symmetry | `OneRunPerClient`: no two open runs as long as every entry that created a session carried a MAC; `KeysResolve`: no dangling or foreign key; `FinishedIsFinal` |
| `cleaner` | *stop*: 2 stale clients, 2 actions per scan, fair; *guests*: 1 moving client, 2 verification rounds; *guard*: 3 clients on 2 entries, cooldown 2, hour 5 | `GuardHolds`, `ConfirmedIsReal`, `AtMostOneSendAfterStop`, `GuestsAreNotReconnected`, `WorkerComesToRest` |
| `slot` | *any*: 2 start threads, reader, reconciler, any waits, holds and stops; with 1 start thread, bounded holds, fair: *delivered* waits, *alone* (no reconciler), *patient* (background wait 7) | `SidesTakeTurns`: neither side passes the other twice; `ClassesAreServed`: background work as a whole is served with the delivered waits, each class in *alone* and *patient* |
| `visit` | *events*: 2 runs, 2 offline events in any order; *retries*: lost answers, shutdown, restart; *links*: reconciler, pending retries, fair | `VisitsHappenOnce`, `ClosesAreJustified`, `NothingIsWrittenLate`, `PendingEventsAreResolved` |
| `journal` | 2 lines, 3 inodes, 1 backup, 2 rotations, 1 crash or power failure; fair | `OffsetsAreEarned`: nothing in front of a trusted offset is missing; `LinesAreApplied` |
| `capport` | *cache*: 2 threads, 1 address, 2 clients; *answers*: 1 client, fair | `StatesAreCurrent`, `AnswersAreFresh`, `RequestsAreAnswered` |
| `settings` | *race*: 2 requests with one key; *chain*: 1 client, 2 keys, 3 generations, key file and environment changing | `ChainIsConsistent`, `RequestsAreIdempotent`, `MutationsKeepHeadStartable`; `ImplementsContract`: no edit is lost, repeated or half applied |
| `integration` | 1 job, 2 consumers, 3 attempts, 2 devices, 2 visits; fair | `JobsAreHonest`; `ImplementsContract`: one verdict per run, which agrees with what is stored; `JobsComeToAnEnd` |
| `traffic` | *range*: 3 cycles, rebuild-range, cleanup; *repair*: 2 cycles with late access points, repair in quanta, activation; *versions*: 2 versions; *late*: cycles that end late, fair | `SweepsAreSound`, `ServiceIsSafe`, `ActivatedComplete`, `EvidenceArrives` |
| `sensor` | *window*: with the coalescer, room on the disk; *default*: without it, 2 capture threads, late events, a disk that may fill; *live*: coalescer, 1 row of spool, fair | `MemoSound`, `DeliveryIsSound`; `EvidenceIsSent`: the window is written, and the table drains while the delivery thread lives |
| `traffic_hole` | 1 version, 3 cycles, rebuild-range, mark-ready, activate | **violated**: see findings |

Most properties are conjunctions whose parts have names and comments of their own in the module.

**Bounds.** Sessions are independent but for the key index and the executor, so two sessions reach every
conflict over a key; two worker threads let the workers of two runs of one session overlap, and a submitted run
may still wait in the queue until it is stale. Two runs put a superseded and a current worker side by side. Three
clients overflow the guard's two entries, and an hour of five ticks holds three actions two ticks apart, one more
than the limit. In *guests* a session can age, be replaced, age again and be checked twice within four ticks; in
*stop* a stop falls between two actions. In `slot`, two starts overtake one background head and two background
threads compete for the escape; a tick of the fair foci is 50 ms (start wait 15, background wait 5, age 4, a lease at
most 1). In `visit`, two runs on two networks meet two lines, one late and one with a
clock ahead, so that each order of start, event, grace period and retry occurs. In `journal`, three inodes on two
names let one be deleted and reused while the reader holds it open, and two lines make one that is skipped and one
that hides it. In `capport`, the address changes its client once while both threads are at any step; one further
snapshot makes every cached generation stale. In `settings`, three generations are an effective, a failed and a
newer head; clients and keys are alike, so the second of each is used only after the first. In `integration`, three attempts pass through both delays and the recovery claim. In `traffic`, three
cycles with a horizon of one are one expired, one at the edge and one current. In `sensor`, two rows and a chunk
of two are filled, evicted and delivered with three events of which one fills the byte budget; in *live*, two of three
are health reports for one row, so that the second finds the spool full, and no row gets too old, so that the table
drains only by delivery and eviction. Clocks and counters
(`MaxClock`, `MaxRuns`, `MaxTime`, `Failures`, `Rotations`, `MaxChanges`, `MaxGen`, `MaxTries`, `MaxFaults`) cut
behaviours that only repeat.

`CHECK_DEADLOCK FALSE` in `cleaner` and `sensor`: their clock ends, and a stopped worker has nothing left to do.
All other runs check deadlock.

**Fairness.** `AuthSession`: each thread that can take a step eventually does (threads are scheduled, controller
calls carry timeouts), the executor picks up queued work, and sessions grow old; nothing is assumed of clients or
shutdown. `PendingCleaner`: the worker thread runs. `WriteCoordinator!PromptSpec`: time passes, waiters poll,
leases end and background threads come back with every scan; strong for `Enter`, which other threads disable now
and then. `VisitStore`: time passes, the reader makes passes, and a due row is retried (strong, since passes end
in between). `JournalReader`: the writer finishes what it began, the reader scans, and from some time on scans
neither fail nor run out of budget; with failures for ever nothing could be promised. `CapportCache`: threads run,
the controller answers or fails, locks are handed on (strong: a waiter may find the lock taken). `IntegrationJobs`:
a live consumer runs its cycle, time passes, and from some time on consumers do not crash, their databases answer
and claims are worked off within the lease. `TrafficProjection`: systemd restarts the worker, sweeps become due,
kills, failures and missed deadlines end. `SensorTransport`: the timer, the clock and, while it
lives, the delivery thread run, the disk recovers, and the server accepts in the end (strong: requests may fail any number of
times). Success of `authorize`, of a
controller read or of a lookup is never assumed.

**What a class of background work gets.** With the delivered times (age 200 ms, background waits 250 ms,
transactions of about 50 ms: 4, 5 and 1 ticks) the background side is served again and again, but a class of it need
not be: the head of the queue ages first and takes its turn, and the wait behind it ends just before its own
(findings, `MCSlotDelivered.cfg`). Each class is served if only one background thread asks, or if the background waits
exceed the age by three turns (a start's, the head's, and its own).

## 4. Findings

With a run:

- `traffic_hole`: a rebuilt range moves the fast checkpoint and the projection's head over cycles that were never
  projected; an older unfinished sweep then completes for its own window, `_site_ready` passes, and the version is
  activated without a row for a cycle of the horizon (the next sweep adds it). The task document asks for a
  complete rebuild before the switch.

Reproduced by a configuration of its own (run with the module named, expect the violation):

- `MCAuthRunFinished.cfg` (`MCAuthSession`, `EveryRunEndsWithRunFinished`): `docs/auth_retry.md` says that every
  run ends with `auth.run_finished`. A run that expires in the executor queue is dropped by `process()` before its
  `try`/`finally` (`app/auth/worker.py:174`), without the event and without `mark_worker_finished`.
- `MCActionGuardLong.cfg` (`ActionGuard`, `MemoryBounded`): with `action_cooldown_seconds` above 3600,
  `_prune_locked` (`action_guard.py:97`) leaves clients in `_last_attempt` that no later prune or bound visits.
  The guard is documented as bounded memory.
- `MCCleanerLateStop.cfg` (`PendingCleaner`, `NoMutationAfterStop`): the cleaner is documented to prevent new
  mutations once stop begins; the flag is not read between the audit record and the request
  (`cleaner.py:333`). `AtMostOneSendAfterStop` is what does hold.
- `MCSlotDelivered.cfg` (`MCWriteCoordinator`, `ReconciliationIsServed`): "Reconciliation must continue making progress
  under sustained Starts" and "MUST NOT starve forever"
  (`docs/history/pr-76/TASK-VISIT-WRITER-CONTENTION-01-FINAL.md:2040`). Credit for the escape grows only at the head of the
  common queue (`repository.py:250`). With the reader ahead, starts go first until it has waited 200 ms, it takes its turn, and
  the reconciler's 250 ms are over; this may repeat for ever. It needs scans (every 5 s) and passes (every 30 s)
  to coincide each time.
- `MCSensorOutage.cfg` (`MCSensorTransport`, `DeliveryOutlivesOutages`): with the coalescer, "at-least-once delivery = unchanged"
  (`docs/history/pr-203/ARCH-DEVICE-FINGERPRINT-IO-WAVE2-WRITE-PATH-CONTRACT-v1.md:82`), and a spool failure is to mean what it
  meant without it (`:289`). After a lost or transient answer the delivery thread reports the outage (`runtime.py:261`); with the
  coalescer, a spool full of health rows refuses the report (`ingress_coalescer.py:86`), the exception ends the thread
  (`runtime.py:241`), and nothing starts it again (`cli.py:77`): what is stored stays there until a restart. Without the
  coalescer only a failed insert does this.
- `MCTrafficAudit.cfg` (`TrafficProjection`, `AuditRespectsMarker`): the deep audit (`service.py:1071`) declares
  a site diverged when a sampled fingerprint differs, also if the cycle merely ended since its quantum; the
  task document limits this to an unchanged revision marker.
- `MCTrafficTargetRepair.cfg` (`TrafficProjection`, `SweepsKeepIdentity`): an interrupted repair of a version not
  yet active is not continued by the worker (`service.py:1141`); a sweep runs meanwhile, the continued repair
  deletes rows behind its cursor, and the sweep ends in a divergence.
- `MCTrafficRangeRepair.cfg` (`TrafficProjection`, `SweepsKeepIdentity`): the same with an active version. A repair is
  killed before its deletes, `rebuild-range` of a range without cycles then reconciles over the rows still there
  (`service.py:553`) and is killed in turn; the worker continues the repair, deletes the rows (`service.py:490`) and keeps
  the sweep's cursor, and the sweep ends in a divergence.

Observed without a configuration: an IP-only session may resolve to a MAC that already has a running session
(`app/auth/manager.py:679`; `OneRunPerClient` excludes such entries); a late cleanup reset of an expired session
may undo the authorization of the client's next session (`app/auth/worker.py:692`); a start that is committed late
may open a visit that began before the offline event which should have closed it.

## 5. Proofs

All theorems hold for every value of the constants that satisfies the named `ASSUME`s (finite
numbers where the code has numbers, distinct null values, a portal entry with a MAC or an IP).

`AuthSessionProofs`. The properties are not inductive: that a finished run keeps its outcome relies on
the worker guard `RunMatches`, on the run numbers in every thread's hands being real, and on a session's
status agreeing with its current run. `SessionInv` states the latter for one session object,
`ThreadInv` the former for one thread, `RestType` the types of the rest, and `IInv` is their conjunction.
`Legal(x, y)` says that a session may change from `x` to `y`: the invariant is kept, finished
runs and finished sessions are kept, and the step is one `AuthContract` allows. Each manager operation
gets one lemma that it is legal; each action one lemma that all sessions make legal steps and the
threads keep `ThreadInv`.

The second part relates sessions, threads, queue and registry (`JointInv`). The key is that `finish_run`
ends a run inside `process()`: a run that is FAILED or AUTHORIZED has a thread at or behind `finally`
(`RunInv`), a retry needs the current run to be FAILED, so the superseded worker can call the controller no more. A
run that expired may still have a thread at a call, but then the session is finished for good and gets no
further run. A refused start emits `session_finished` only if its session is finished, which rests on the marked
threads' part of `RunInv`. That every unlisted session is finished (`ListedInv`) keeps ids and keys
alive. `ClientExclusion` needs one more invariant, that an unfinished session is the one its MAC leads
to (`MacInv`), and the hypothesis `MacOnly`, without which the statement is false (findings).

| Theorem | Statement |
|---|---|
| `TypeCorrectness`, `StatusCorrectness`, `RetryCorrectness` | the conjuncts of `HistoryIsConsistent` |
| `HistoryConsistency` | `Spec => []HistoryIsConsistent` |
| `OutcomeStability` | `Spec => RunOutcomeIsFinal` |
| `FinishedStability` | `Spec => FinishedIsFinal` |
| `Refinement` | `Spec => ImplementsContract` |
| `WorkersDoNotOverlap` | `Spec => []NoOverlappingWorkers` |
| `Verification` | `Spec => []AuthorizedIsVerified` |
| `FinalReport` | `Spec => []FinishedSessionStaysFinished` |
| `KeyCorrectness` | `Spec => []KeysResolve` |
| `ClientExclusion` | `MacOnly` implies `Spec => []OneOpenRunPerMac` |
| `ClientExclusionUntilIpOnly` | `HistorySpec => []OneRunPerClient` |

`ClientExclusionUntilIpOnly` needs no hypothesis on the entries: as long as none without a MAC has created a session beside
another, every session was created with its MAC, and the argument of `ClientExclusion` applies up to that moment.

`PendingCleanerProofs`. `LateSendBound`: once a request has gone out after the stop flag, the thread is
at a place from which every further request first reads the flag (`StopInv`). `ConfirmedCorrectness`:
readings lie in the past, so the uptime of one session cannot have fallen (`ConfirmInv`).
`GuestProtection`: a client authorized after the reading is still in its grace period when the second
check looks (`CheckingInv`), and a client that passed the check must enter the portal anew before it can
be authorized (`ClearedInv`). It needs the grace period to exceed the age of an answer, which the
configuration does not enforce; the condition is part of the property.

`Spacing`, `HourlyLimitation`, `MemoryBound` and `GuardAlone` are about the guard's memory. What its tables say of an attempt
can be missing only because it is too old to matter or because the client was evicted, and then at least
`MaxEntries` other clients were acted on later: `_bound_locked` keeps the most recently used clients, each of
which has a later attempt in the log (`Eviction`). `MemoryInv` states this for every attempt ever made, `GrantInv` that
a permission stays right until it is used, although `check` and `record_attempt` are two critical sections: time only makes
it safer, and `_scan_lock` admits one scan. The hourly limit then counts a window's attempts into the entries
`check` has counted (`WindowCounted`). `MemoryBound` has the hypothesis that the cooldown is no longer than an hour;
without it the statement is false (findings). `CleanerUsesGuard` carries the results over to the
cleaner. `GuardCorrectness` collects what a run checks as `GuardHolds`: the types, both limits, and, if the cooldown is no
longer than an hour, the bound (`MemoryKept`).

`VisitStoreProofs` (`Uniqueness`, `Justification`, `Finality`). An authorization is only ever added to an
open visit and an event that closed a visit is settled, so what justified a close at the time it was
written can be read from the tables ever after: `ClosesInv` keeps, per closed visit, the event it
was closed by and that the two fit (`Fits`), including the networks of all its authorizations. `CallsInv` states
that a start reported as stored has its authorization, also when the answer to the commit was lost;
`LinkInv` that the visit a reconciler read before its lookup is still there when it writes. That at most one visit
of a client is open makes a close unambiguous.

The same module EXTENDS `WriteCoordinator` (its names are distinct, `SlotInit`, `SlotSpec` ...) and proves
`SidesTakeTurns` of it (`TurnTaking`; `PromptTurnTaking` for the schedule of the liveness property). `QueuesInv` says that
each queue lists the waiters of its kind once, whichever way a wait ends. `TurnInv` relates the two counters to
`_foreground_required_after_escape`: after an escape the flag stands as long as a start waits, which denies the next
escape; the start that takes the slot clears it and thereby uses up the one chance to pass an aged waiter. The pass
through `acquire()` is proved once (`ExamineTypes`, `ExamineQueues`, `ExamineTurns`), for a thread that arrives as for one that wakes.

`JournalReaderProofs` (`NoLineIsSkipped`). Rows are keyed by inode and an inode may come back with another
file. What makes an offset trustworthy is not the identity but the checkpoint: it names the last line in
front of the offset, and every line is written once, so a file that passes the test contains that very line and,
files being append-only, the very lines before it. `RowsInv` states this for a row against any content its inode
may get, both for the rows and for the copy that a power failure restores.

`ReadModelProofs` (`CacheCorrectness`, `CacheAnswers`). `EntriesInv` says that a stored state is of the current
generation, `RequestInv` what each thread may believe of the generation in its hands, and `SinceInv` that
whoever the controller authorizes now is in the set collected since any list that was read; all of it survives
other threads' steps because generations and these sets only grow. `OneLists`, the site lock, is what keeps a list
that has been read and not stored the next generation.

The same module EXTENDS `TrafficProjection` (whose names are distinct: `TrafficInit`, `TrafficSpec` ...) and proves
`ProofsStand`, `SafeService`, `SoundSweeps` and `CompleteActivation` of it. `TrafficInv` relates three things after every
transaction: what the columns of a site claim (`SiteInv`), the rows they claim it of, and the place the writer has
reached (`ProcInv`). It has three layers.

- `SiteA`, `ProcA` hold for all commands: a standing proof names a cycle of the source and its window is there, because
  rows vanish only below the cleanup's cutoff or after the proof was withdrawn; a writer that counted a window as
  complete has it, since the projected rows are a subset of the source's cycles and equally many; nobody is at work on a diverged site.
- `SiteB`, `ProcB` hold if `Apart`: repairs are of active versions (`RepairTargets` is false) and `range` and `repair` are not
  both used. Below its cursor a sweep has seen to every cycle of its window, and a repair that still deletes has no
  cursor and lets no other quantum in between. Both conditions are needed (`MCTrafficTargetRepair.cfg`, `MCTrafficRangeRepair.cfg`).
- `SiteC`, `ProcC` hold if `InOrder`: no `range`, no repair of targets. Up to the fast checkpoint and the projection's head no cycle
  is missing, because every batch is a prefix of what is missing (`FirstOf`, `PrefixOf`) and is examined as far as it was
  written (`Examined`). With `range` it is false (`traffic_hole`).

`SafeService` needs only the first layer. In the run `traffic` a behaviour uses `range` or `repair`, not both, and
activates only in the foci without `range`; so the run asks of each focus what the theorems state.

`SettingsStoreProofs` (`Consistency`, `Idempotency`, `Edits`, `Startability`, `Implementation`). Rows of the chain and idempotency records
never change once written. `ProcInv` says what a running process holds on to (its own generation's settings, secret and
the adoption result), `IdemInv` that every accepted identity has a record and the generation it created carries that
identity, `RequestsInv` that an accepted answer is the recorded one. The collection of secret versions keeps those
that the head and the effective generation bind. That this is enough for a process that runs on an older generation
than the head rests on its generation being the effective one, which is where `Consistency` could fail. `Implementation` is the refinement of `SettingsContract`. Its initial states map
to initial states (`ContractInit`) and every step to a step or a stutter (`StepSeen`, one lemma per action). Three facts
carry it: deleting secret versions does not change what the head configures, since the version it binds is kept;
a recorded fingerprint is that of the request's content, so a replay is the contract's `Repeat`; and a generation is
appended if and only if it changes the configuration, so the generation number counts the changes. The last
needs that a replaced secret differs from the bound one, which is why a secret that does not decrypt is refused and not
overwritten.

`IntegrationJobsProofs` (`Honesty`, `Stability`, `Implementation`). Between claim and finish a consumer relies on being alone, on the lease
token in the row being its own, and on what it saw of the other database still being so (`ClaimOk`); a crash drops
this and leaves the rows with `WorkOk`. The lock file (`OneHolds`) is what keeps a consumer's view of the results
true until it finishes. `Implementation` is the refinement of `JobContract`: each action is seen as the contract's
step for its own run and leaves every other run's work and identity as they were (`SameWork`, `SameLink`, `StepSeen`).
An expired lease, a crash and a claim that goes on to classify are stutters; what bounds the classifications is that each is
paid for by an attempt of the row, which no crash gives back. An identity only gains device or visit, or ends in a conflict.

`SensorTransportProofs` (`MemoCorrectness`, `DeliveryCorrectness`). Events are numbered as they are submitted. What the
coalescer holds was submitted after all that is in the spool (`MemoryInv`), so that a write continues the spool's
order and an event is in one place only; the spool loses rows, which cannot make the memo of the earliest
expiry unsound, or gains rows, which the memo notes (`SpoolOk`). A batch in flight is known by sequence numbers that
SQLite never uses again (`ProducerOk`), so an acknowledgement deletes only what the server has, whatever was
dropped or evicted while it was under way. The ledger of accepted, dropped and delivered events is `LogInv`. That a clean
end of the coalescer means that everything was written rests on `CoalescerOk`: a window waits only while
nothing is being written, and nothing is submitted once it is closing.

The assumptions used are those that the modules name: the absent value differs from all others (`NoneAssumption`,
`NullAssumption`, `NoRowAssumption`), bounds and limits are numbers, the set of clients of the guard is finite, and the external inputs have their types (`EvidenceAssumption`,
`ContextsAssumption`, `CommandsAssumption`). Some theorems have a hypothesis on the
constants (`MacOnly`, the cooldown of `MemoryBound`, `Apart`, `InOrder`); the findings name what happens without it.

Every invariant and every action property a run checks is stated by a theorem, and so are the three refinements. Only
model-checked are the liveness properties, which are outside the prover's reach: `RunsAreCarriedOut`, `WorkerComesToRest`,
`ClassesAreServed`, `PendingEventsAreResolved`, `LinesAreApplied`, `RequestsAreAnswered`, `JobsComeToAnEnd`,
`EvidenceArrives` and `EvidenceIsSent`. Of the conditions under which a property is claimed, those on constants are
hypotheses of the theorem (in `GuardHolds`, part of the property); the one on the past (`ipOnly`) and the one on ages (the grace period) are in the property.

## 6. Not modelled

The repository has about 198,000 lines of implementation. Most of them are not state machines: analytics and
admin web (queries, pages, scripts), read services, classification rules and parsers, schema definitions and
migrations, configuration, logging, and the probe and gate scripts under `docs/history`. They compute a value from
what they read; a model would restate them. What the models cover are the parts that write shared state.

Parts with state that are not modelled yet: the metadata reader of `app/network_metadata` (its `_lifecycle` goes by
the `at_eof` of the previous poll, so that records appended between the last read and a rotation seem to be
closed as `source_rotated_live` without a gap; worth a model like `JournalReader`), the Omada token cache, the
auth health merge, the visitor registry's projection worker, the collection cycles of current state and
observations, the portal counter, the portal's evidence admission, and the order of the stops in `run.py`.

## 7. Plan

1. Done: authorization core, cleaner and guard, write slot, visit store, journal, CAPPORT, settings, integration jobs,
   traffic projection and sensor transport, with runs and with proofs of the safety properties the runs check.
2. Models next: the metadata reader, the token cache, the registry's projection worker, ordered shutdown.
3. Proofs next: theorems about those models.
