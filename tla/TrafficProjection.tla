-------------------------- MODULE TrafficProjection --------------------------
(***************************************************************************)
(* The traffic projection (app/traffic_projection): a read model derived   *)
(* from the observation cycles of another database.  One process at a time *)
(* holds the writer lock: the worker, which follows the source's head      *)
(* (incremental), sweeps the retained horizon in bounded quanta            *)
(* (reconcile), continues a repair and cleans up; or one operator command. *)
(* Every durable write is a transaction of its own, and the process may be *)
(* killed between any two of them while the source goes on writing.        *)
(*                                                                         *)
(* One site.  A cycle is named by the tick at which it started, so the     *)
(* order (started_at, cycle_id) is the order of the numbers; 0 stands for  *)
(* an empty column.  The source keeps its cycles longer than the           *)
(* projection does (180 days against 14), so it deletes none here.         *)
(***************************************************************************)
EXTENDS Integers, FiniteSets, FiniteSetsExt

CONSTANTS
    Versions,   \* projection versions
    MaxTime,    \* bound on the clock
    Retention,  \* retention_days
    Bulk,       \* MAX_BULK_CYCLES_PER_TRANSACTION
    Wide,       \* rows of one reconcile quantum of the active version
    MaxAge,     \* HEALTHY_FULL_RECONCILE_MAX_AGE_SECONDS
    Sample,     \* least number of rows a deep audit looks at
    ApCycles,   \* cycles that find access points to store
    EndCycles,  \* cycles that are ever finalized or abandoned
    Commands,   \* operator commands that are used
    RepairTargets,  \* the operator also repairs versions not yet active
    Null

ASSUME SizesAssumption ==
    {MaxTime, Retention, Bulk, Wide, Sample} \subseteq Nat \ {0} /\ MaxAge \in Nat
ASSUME CommandsAssumption ==
    /\ Commands \subseteq {"run", "repair", "range", "cleanup", "mark-ready",
                            "activate", "mark-failed"}
    /\ RepairTargets \in BOOLEAN

Cycles == 1..MaxTime

\* What the tables hold: a cycle with its AP rows, its revision marker, the
\* window of a sweep, and the words that are compared with an empty column.
CycleRow   == [mark : {"running", "ended"}, fin : Nat, aps : Nat]
RowMarker  == {"running", "ended"} \X Nat
SweepFence == [head : Nat, from : Int]
Columns    == {"run", "inc", "rec", "building", "ready", "active", "retired",
               "failed", "repair_delete", "source_or_storage", "source_identity"}
ASSUME NullAssumption ==
    Null \notin CycleRow \cup RowMarker \cup SweepFence \cup Columns

VARIABLES
    now,    \* the clock
    src,    \* observation_cycles with their AP rows: cycle |-> row or Null
    ver,    \* traffic_projection_versions: version |-> status
    rows,   \* traffic_projection_cycles: version |-> cycle |-> row or Null
    site,   \* traffic_projection_site_state: version |-> record
    p       \* the process that holds the writer lock

trafficVars == <<now, src, ver, rows, site, p>>
store == <<ver, rows, site>>

NewSite == [status |-> "rebuilding", err |-> Null, fast |-> 0, phead |-> 0,
          shead |-> 0, sweep |-> Null, cursor |-> 0, proof |-> 0,
          proofAt |-> 0, bound |-> 0, backlog |-> FALSE]

Off == [pc |-> "off", cmd |-> Null, v |-> Null, mode |-> Null, lim |-> 0,
        at |-> 0, head |-> 0, todo |-> {}, chg |-> {}, got |-> {},
        exam |-> {}]

TrafficInit ==
    /\ now = 1
    /\ src = [c \in Cycles |-> Null]
    /\ ver = [v \in Versions |-> Null]
    /\ rows = [v \in Versions |-> [c \in Cycles |-> Null]]
    /\ site = [v \in Versions |-> NewSite]
    /\ p = Off

-----------------------------------------------------------------------------
(* The source: the observation worker starts a cycle, stores its AP rows in *)
(* one transaction and finalizes it in another; a restart abandons it.      *)

Started == {c \in Cycles : src[c] # Null}
SourceHead == IF Started = {} THEN 0 ELSE Max(Started)

StartCycle ==
    /\ src[now] = Null
    /\ src' = [src EXCEPT ![now] = [mark |-> "running", fin |-> 0, aps |-> 0]]
    /\ UNCHANGED <<now, store, p>>

StoreAps(c) ==
    /\ c \in ApCycles
    /\ src[c] = [mark |-> "running", fin |-> 0, aps |-> 0]
    /\ src' = [src EXCEPT ![c].aps = 1]
    /\ UNCHANGED <<now, store, p>>

EndCycle(c) ==
    /\ c \in EndCycles
    /\ src[c] # Null /\ src[c].mark = "running"
    /\ src' = [src EXCEPT ![c].mark = "ended", ![c].fin = now]
    /\ UNCHANGED <<now, store, p>>

ClockTick ==
    /\ now < MaxTime
    /\ now' = now + 1
    /\ UNCHANGED <<src, store, p>>

-----------------------------------------------------------------------------
(* Helpers *)

Goto(pc)  == p' = [p EXCEPT !.pc = pc]
Return    == p' = IF p.cmd = "run" THEN [Off EXCEPT !.pc = "loop", !.cmd = "run"]
                                   ELSE Off
SetSite(s) == site' = [site EXCEPT ![p.v] = s]
S == site[p.v]
Larger(a, b) == IF a > b THEN a ELSE b

\* The first n members of a set of cycles.
First(n, set) == {c \in set : Cardinality({d \in set : d < c}) < n}
Prefixes(set) == {First(n, set) : n \in 0..Cardinality(set)}

\* source_revision_marker covers the cycle's own columns, the semantic
\* fingerprint its AP rows as well.
Marker(r) == IF r = Null THEN Null ELSE <<r.mark, r.fin>>

Window(from, through, after) ==
    {c \in Started : from <= c /\ c <= through /\ after < c}

WorkerVersions == {v \in Versions : ver[v] \in {"active", "building", "ready"}}
IsTarget(v) == ver[v] # "active"

\* Only the worker's quantum of a target version has a deadline.
HasDeadline == p.cmd = "run" /\ IsTarget(p.v)

\* _repair_active
RepairActive(v) ==
    /\ ver[v] = "active"
    /\ site[v].status = "rebuilding"
    /\ site[v].err = "repair_delete" \/ site[v].sweep # Null

-----------------------------------------------------------------------------
(* The writer process *)

\* serve_forever or a command: under the lock the process first makes sure
\* its own version exists.  A second target version cannot be inserted.
Begin(cmd, v) ==
    /\ p.pc = "off"
    /\ cmd = "repair" => ver[v] = "active" \/ RepairTargets
    /\ ver[v] = Null => \A u \in Versions : ver[u] \notin {"building", "ready"}
    /\ ver' = [ver EXCEPT ![v] = IF @ = Null THEN "building" ELSE @]
    /\ p' = IF cmd = "run" THEN [Off EXCEPT !.pc = "loop", !.cmd = "run"]
            ELSE [Off EXCEPT !.pc = cmd, !.cmd = cmd, !.v = v, !.lim = Bulk,
                             !.at = now]
    /\ UNCHANGED <<now, src, rows, site>>

\* The process is stopped at its loop, or killed anywhere.
Kill ==
    /\ p.pc # "off"
    /\ p' = Off
    /\ UNCHANGED <<now, src, store>>

\* Variant: a diverged site is maintained.
X_MaintainDiverged(v) ==
    /\ p.pc = "loop"
    /\ v \in WorkerVersions
    /\ p' = [p EXCEPT !.v = v, !.at = now,
                      !.pc = IF RepairActive(v) THEN "repair" ELSE "incremental",
                      !.lim = Bulk]
    /\ UNCHANGED <<now, src, store>>

\* _maintain_version: a diverged site is left alone, a repair is continued.
Maintain(v) ==
    /\ p.pc = "loop"
    /\ v \in WorkerVersions
    /\ site[v].status # "diverged"
    /\ p' = [p EXCEPT !.v = v, !.at = now,
                      !.pc = IF RepairActive(v) THEN "repair" ELSE "incremental",
                      !.lim = Bulk]
    /\ UNCHANGED <<now, src, store>>

\* A source or storage failure inside the step; the worker records it when
\* it can.
StepFails ==
    /\ p.pc \notin {"off", "loop"}
    /\ \/ UNCHANGED site
       \/ /\ p.cmd = "run"
          /\ SetSite([S EXCEPT
                !.status = IF @ = "rebuilding" THEN @ ELSE "stale",
                !.err = IF @ = "repair_delete" THEN @ ELSE "source_or_storage"])
    /\ Return
    /\ UNCHANGED <<now, src, ver, rows>>

NoHead(s) == [s EXCEPT !.status = IF @ = "rebuilding" THEN @ ELSE "stale",
                       !.shead = 0, !.backlog = FALSE]

\* The rows to examine, and those of them whose marker is not the stored one.
ToExamine(mode, todo, head) ==
    p' = [p EXCEPT !.pc = "load", !.mode = mode, !.todo = todo, !.head = head,
                   !.chg = {c \in todo : Marker(rows[p.v][c]) # Marker(src[c])},
                   !.got = {}, !.exam = {}]

\* incremental_site: what the source has beyond the fast checkpoint.
Incremental ==
    /\ p.pc = "incremental"
    /\ LET head == SourceHead
           todo == First(Bulk, Window(head - Retention, head, S.fast))
       IN  IF head = 0 THEN SetSite(NoHead(S)) /\ Goto("due")
           ELSE ToExamine("inc", todo, head) /\ UNCHANGED site
    /\ UNCHANGED <<now, src, ver, rows>>

\* _materialize_metadata reads the changed rows from one snapshot.
Load ==
    /\ p.pc = "load"
    /\ \E some \in IF HasDeadline THEN Prefixes(First(Bulk, p.chg))
                                   ELSE {First(Bulk, p.chg)} :
          p' = [p EXCEPT !.pc = "write", !.got = {<<c, src[c]>> : c \in some}]
    /\ UNCHANGED <<now, src, store>>

\* _upsert_cycle: the row, the projection's head and the fast checkpoint.
Upsert(s, set) ==
    IF set = {} THEN s
    ELSE [s EXCEPT !.fast = Max(set), !.phead = Larger(@, Max(set)),
                   !.err = Null]

\* What the loop over the metadata has examined when the batch ends early.
Examined(written) == {c \in p.todo : \A d \in p.chg \ written : c < d}

\* upsert_cycles: one transaction, cut off by its deadline but never before
\* its first row.
Write ==
    /\ p.pc = "write"
    /\ \E n \in 0..Cardinality(p.got) :
          LET written == First(n, {g[1] : g \in p.got})
          IN  /\ n = 0 => p.got = {} \/ HasDeadline
              /\ rows' = [rows EXCEPT ![p.v] = [c \in Cycles |->
                    IF c \in written THEN (CHOOSE g \in p.got : g[1] = c)[2]
                                     ELSE @[c]]]
              /\ SetSite(Upsert(S, written))
              /\ p' = [p EXCEPT !.pc = IF p.mode = "inc" THEN "save" ELSE "cursor",
                                !.exam = Examined(written), !.got = {}]
    /\ UNCHANGED <<now, src, ver>>

Exhausted == p.exam # p.todo

SaveIncremental ==
    /\ p.pc = "save"
    /\ SetSite([S EXCEPT !.shead = p.head,
                         !.fast = IF p.exam = {} THEN @ ELSE Max(p.exam),
                         !.backlog = Exhausted \/ Cardinality(p.todo) = Bulk])
    /\ Goto("due")
    /\ UNCHANGED <<now, src, ver, rows>>

\* Variant: a proof lasts for good.
X_DueOnce ==
    /\ p.pc = "due"
    /\ IF S.sweep # Null \/ S.proof = 0
         THEN p' = [p EXCEPT !.pc = "reconcile", !.at = now,
                             !.lim = IF IsTarget(p.v) THEN Bulk ELSE Wide]
         ELSE Return
    /\ UNCHANGED <<now, src, store>>

\* _reconciliation_due: an unfinished sweep or no proof makes it due, the
\* age of the proof may; a target's quantum may also be used up.
Due ==
    /\ p.pc = "due"
    /\ \/ p' = [p EXCEPT !.pc = "reconcile", !.at = now,
                         !.lim = IF IsTarget(p.v) THEN Bulk ELSE Wide]
       \/ /\ (S.sweep = Null /\ S.proof # 0) \/ HasDeadline
          /\ Return
    /\ UNCHANGED <<now, src, store>>

\* reconcile_site: one quantum of a sweep whose window is fixed when it
\* starts.
Sweep(head) ==
    IF S.sweep # Null THEN S.sweep ELSE [head |-> head, from |-> head - Retention]

Reconcile ==
    /\ p.pc = "reconcile"
    /\ LET head == SourceHead
           sweep == Sweep(head)
           todo == First(p.lim, Window(sweep.from, sweep.head, S.cursor))
       IN  IF head = 0 THEN SetSite(NoHead(S)) /\ Return
           ELSE /\ SetSite([S EXCEPT !.sweep = sweep])
                /\ ToExamine("rec", todo, head)
    /\ UNCHANGED <<now, src, ver, rows>>

SaveCursor ==
    /\ p.pc = "cursor"
    /\ SetSite(IF p.exam = {} THEN S
               ELSE [S EXCEPT !.cursor = Max(p.exam), !.shead = p.head])
    /\ Goto("close")
    /\ UNCHANGED <<now, src, ver, rows>>

Stored(v, from, through) ==
    {c \in Cycles : rows[v][c] # Null /\ from <= c /\ c <= through}

Diverge(err) == SetSite([S EXCEPT !.status = "diverged", !.err = err]) /\ Return

Completed == ~Exhausted /\ Cardinality(p.todo) < p.lim

\* The quantum ended the sweep if it saw fewer rows than it asked for; then
\* both databases must hold equally many cycles of the window.
CloseQuantum ==
    /\ p.pc = "close"
    /\ LET w == S.sweep
       IN  \/ /\ ~Completed \/ HasDeadline
              /\ SetSite([S EXCEPT
                    !.status = IF @ = "rebuilding" THEN @ ELSE "catching_up",
                    !.backlog = p.todo # {}, !.shead = p.head])
              /\ Return
           \/ /\ Completed
              /\ IF Cardinality(Window(w.from, w.head, 0))
                    # Cardinality(Stored(p.v, w.from, w.head))
                   THEN Diverge("source_identity")
                   ELSE Goto("audit") /\ UNCHANGED site
    /\ UNCHANGED <<now, src, ver, rows>>

\* _deep_audit compares a sample of stored fingerprints with the source.
AuditWindow(head) == Stored(p.v, head - Retention, head)
Audits(head) ==
    LET all == AuditWindow(head)
    IN  {s \in SUBSET all :
           Cardinality(s) >= Min({Sample, Cardinality(all)})}
Mismatch(sample) == \E c \in sample : rows[p.v][c] # src[c]

Audit ==
    /\ p.pc = "audit"
    /\ \E sample \in Audits(S.sweep.head) :
          IF Mismatch(sample) THEN Diverge("deep_fingerprint")
          ELSE Goto("prove") /\ UNCHANGED site
    /\ UNCHANGED <<now, src, ver, rows>>

Prove ==
    /\ p.pc = "prove"
    /\ SetSite([S EXCEPT !.status = "healthy", !.err = Null, !.sweep = Null,
                         !.cursor = 0, !.proof = S.sweep.head, !.proofAt = p.at,
                         !.shead = p.head, !.bound = p.head, !.backlog = FALSE])
    /\ Return
    /\ UNCHANGED <<now, src, ver, rows>>

-----------------------------------------------------------------------------
(* Repair *)

\* begin_site_repair: every proof is withdrawn before any row is deleted.
BeginRepair(s) == [NewSite EXCEPT !.shead = s.shead, !.err = "repair_delete"]

Resuming(s) ==
    s.status = "rebuilding" /\ (s.err = "repair_delete" \/ s.sweep # Null)

RepairSite ==
    /\ p.pc = "repair"
    /\ SetSite(IF Resuming(S) THEN S ELSE BeginRepair(S))
    /\ Goto("delete")
    /\ UNCHANGED <<now, src, ver, rows>>

\* delete_site_cycles: one chunk; a full chunk ends the quantum.
DeleteSiteCycles ==
    /\ p.pc = "delete"
    /\ LET gone == IF S.err = "repair_delete"
                     THEN First(Bulk, Stored(p.v, 1, MaxTime)) ELSE {}
       IN  /\ rows' = [rows EXCEPT ![p.v] =
                 [c \in Cycles |-> IF c \in gone THEN Null ELSE @[c]]]
           /\ IF Cardinality(gone) = Bulk THEN Return
              ELSE p' = [p EXCEPT !.pc = "reconcile", !.at = now, !.lim = Bulk]
    /\ UNCHANGED <<now, src, ver, site>>

-----------------------------------------------------------------------------
(* Other commands and retention *)

\* rebuild_range reprojects the cycles of a range one by one and then
\* reconciles.
RebuildRange ==
    /\ p.pc = "range"
    /\ S.status # "diverged"
    /\ SetSite([S EXCEPT !.status = "rebuilding"])
    /\ \E from \in Cycles, to \in 2..(MaxTime + 1) :
          /\ from < to
          /\ p' = [p EXCEPT !.pc = "ranging",
                            !.todo = Window(from, to - 1, 0)]
    /\ UNCHANGED <<now, src, ver, rows>>

RangeRow ==
    /\ p.pc = "ranging"
    /\ IF p.todo = {}
         THEN /\ p' = [p EXCEPT !.pc = "reconcile", !.at = now, !.lim = Wide]
              /\ UNCHANGED <<rows, site>>
         ELSE LET c == Min(p.todo)
              IN  /\ rows' = [rows EXCEPT ![p.v][c] = src[c]]
                  /\ SetSite(Upsert(S, {c}))
                  /\ p' = [p EXCEPT !.todo = @ \ {c}]
    /\ UNCHANGED <<now, src, ver>>

\* Variant: the cutoff ignores an unfinished sweep.
X_CutoffMoves(v) == now - Retention

\* Variant: the cutoff keeps one cycle less than the horizon.
X_CutoffOneLate(v) ==
    IF site[v].sweep # Null THEN Min({now - Retention, site[v].sweep.from})
                            ELSE now - Retention + 1

\* _cleanup_cutoff_for_site: never into the window of an unfinished sweep,
\* and not at all during a repair or after a divergence.
Cutoff(v) ==
    IF site[v].sweep # Null THEN Min({now - Retention, site[v].sweep.from})
                            ELSE now - Retention

MayClean(v) ==
    /\ ver[v] \in {"active", "building", "ready"}
    /\ site[v].status # "diverged"
    /\ ~RepairActive(v)
    /\ site[v].err # "repair_delete"

\* delete_before, in chunks that may stop early: ended cycles only.
Cleanup(v) ==
    /\ p.pc = "loop" \/ (p.pc = "cleanup" /\ p.v = v)
    /\ MayClean(v)
    /\ LET old == {c \in Stored(v, 1, Cutoff(v) - 1) :
                     rows[v][c].mark = "ended" /\ rows[v][c].fin < Cutoff(v)}
       IN  \E gone \in Prefixes(old) :
             rows' = [rows EXCEPT ![v] =
                [c \in Cycles |-> IF c \in gone THEN Null ELSE @[c]]]
    /\ Return
    /\ UNCHANGED <<now, src, ver, site>>

\* Variant: a healthy site is ready, proved or not.
X_SiteReadyOnHealth(s, head, at) == s.status = "healthy" /\ s.shead = head

\* _site_ready
SiteReady(s, head, at) ==
    /\ s.status = "healthy" /\ s.err = Null
    /\ s.shead = head /\ s.phead >= head
    /\ s.proof # 0 /\ s.proof <= head
    /\ at - s.proofAt <= MaxAge
    /\ s.sweep = Null /\ s.cursor = 0
    /\ ~s.backlog
    /\ s.bound = head

\* mark_ready: counts, audit, and the transaction that checks the proofs.
MarkReady ==
    /\ p.pc = "mark-ready"
    /\ LET head == SourceHead
       IN  IF head = 0 THEN Return /\ UNCHANGED site
           ELSE IF Cardinality(Window(head - Retention, head, 0))
                   # Cardinality(Stored(p.v, head - Retention, head))
             THEN Diverge("ready_source_identity")
             ELSE p' = [p EXCEPT !.pc = "ready audit", !.head = head]
                  /\ UNCHANGED site
    /\ UNCHANGED <<now, src, ver, rows>>

ReadyAudit ==
    /\ p.pc = "ready audit"
    /\ \E sample \in Audits(p.head) :
          IF Mismatch(sample) THEN Diverge("deep_fingerprint")
          ELSE Goto("set ready") /\ UNCHANGED site
    /\ UNCHANGED <<now, src, ver, rows>>

SetReady ==
    /\ p.pc = "set ready"
    /\ ver' = IF SiteReady(S, p.head, p.at) /\ ver[p.v] = "building"
                THEN [ver EXCEPT ![p.v] = "ready"] ELSE ver
    /\ Return
    /\ UNCHANGED <<now, src, rows, site>>

\* activate: the head is read from the source before the transaction.
Activate ==
    /\ p.pc = "activate"
    /\ IF SourceHead = 0 THEN Return
       ELSE p' = [p EXCEPT !.pc = "set active", !.head = SourceHead]
    /\ UNCHANGED <<now, src, store>>

\* Variant: the active version is retired even if the target is refused.
X_SetActiveFirst ==
    /\ p.pc = "set active"
    /\ ver' = [v \in Versions |->
          IF v = p.v /\ ver[v] = "ready" /\ SiteReady(S, p.head, p.at)
            THEN "active"
          ELSE IF ver[v] = "active" THEN "retired" ELSE ver[v]]
    /\ Return
    /\ UNCHANGED <<now, src, rows, site>>

SetActive ==
    /\ p.pc = "set active"
    /\ ver' = IF SiteReady(S, p.head, p.at) /\ ver[p.v] = "ready"
                THEN [v \in Versions |-> IF v = p.v THEN "active"
                                         ELSE IF ver[v] = "active" THEN "retired"
                                         ELSE ver[v]]
                ELSE ver
    /\ Return
    /\ UNCHANGED <<now, src, rows, site>>

\* fail_version
MarkFailed ==
    /\ p.pc = "mark-failed"
    /\ ver' = IF ver[p.v] \in {"building", "ready"}
                THEN [ver EXCEPT ![p.v] = "failed"] ELSE ver
    /\ Return
    /\ UNCHANGED <<now, src, rows, site>>

Work ==
    \/ \E v \in Versions : Maintain(v)
    \/ Incremental \/ Load \/ Write \/ SaveIncremental \/ Due
    \/ Reconcile \/ SaveCursor \/ CloseQuantum \/ Audit \/ Prove
    \/ RepairSite \/ DeleteSiteCycles

TrafficNext ==
    \/ StartCycle \/ (\E c \in Cycles : StoreAps(c) \/ EndCycle(c)) \/ ClockTick
    \/ \E cmd \in Commands, v \in Versions : Begin(cmd, v)
    \/ Kill \/ StepFails \/ Work
    \/ RebuildRange \/ RangeRow
    \/ (\E v \in Versions : Cleanup(v))
    \/ MarkReady \/ ReadyAudit \/ SetReady
    \/ Activate \/ SetActive \/ MarkFailed

TrafficSpec == TrafficInit /\ [][TrafficNext]_trafficVars

\* A target's deadline did not cut this step short.
Timely ==
    /\ p.pc = "load" /\ p'.pc = "write" =>
          Cardinality(p'.got) = Cardinality(First(Bulk, p.chg))
    /\ p.pc = "write" /\ p'.pc \in {"save", "cursor"} =>
          p'.exam = Examined({g[1] : g \in p.got})
    /\ p.pc = "close" /\ Completed => p'.pc # "loop" \/ site'[p.v].status = "diverged"

\* systemd restarts the worker, which keeps running and whose sweeps become
\* due as time passes; failures, kills and missed deadlines end (a step of
\* Work that merely returns is none of them).
TrafficFairSpec ==
    /\ TrafficSpec
    /\ WF_trafficVars(\E v \in Versions : Begin("run", v))
    /\ WF_trafficVars(Work)
    /\ SF_trafficVars(Due /\ p'.pc = "reconcile")
    /\ <>[][(Kill \/ StepFails => Work) /\ Timely]_trafficVars

-----------------------------------------------------------------------------
(* Properties *)

Statuses == {"healthy", "catching_up", "stale", "rebuilding", "diverged"}
Errors == {Null, "repair_delete", "source_or_storage", "source_identity",
           "deep_fingerprint", "ready_source_identity"}

\* The tables hold what their columns allow, there is never more than one
\* active and one target version, and a sweep's cursor never outlives the
\* sweep (cleanup refuses to work on such a row).
TablesOK ==
    /\ \A v \in Versions :
          /\ site[v].status \in Statuses /\ site[v].err \in Errors
          /\ {site[v].fast, site[v].phead, site[v].shead, site[v].cursor,
              site[v].proof, site[v].bound} \subseteq 0..MaxTime
          /\ site[v].cursor # 0 => site[v].sweep # Null
          /\ ver[v] \in {Null, "building", "ready", "active", "retired", "failed"}
    /\ Cardinality({v \in Versions : ver[v] = "active"}) <= 1
    /\ Cardinality({v \in Versions : ver[v] \in {"building", "ready"}}) <= 1

\* No schedule of sweeps, cleanup, repair, crashes and commands makes the
\* two databases count differently at the end of a sweep: the retention
\* cleanup never reaches into the window of an unfinished sweep (the incident
\* behind the cleanup fence), and a repair never deletes what it rebuilt.
SweepsKeepIdentity == \A v \in Versions : site[v].err # "source_identity"

\* A completed reconciliation is worth its word as long as it stands: every
\* source cycle of the window it proved has a projected row, except those
\* that are old enough for the cleanup.
ProofStands ==
    \A v \in Versions :
       LET h == site[v].proof
       IN  h # 0 => \A c \in Window(h - Retention, h, 0) :
                      rows[v][c] # Null \/ c < now - Retention

\* The word of a sweep is good: it finds no difference the process made itself,
\* and the window it proves is there.
SweepsAreSound == TablesOK /\ SweepsKeepIdentity /\ ProofStands

\* A divergence is latched: only an explicit repair, which withdraws every
\* proof, takes a site out of it.
KeepsDiverged ==
    \A v \in Versions :
       site[v].status = "diverged" =>
          \/ site'[v].status = "diverged" /\ rows'[v] = rows[v]
          \/ site'[v] = BeginRepair(site[v])

\* Once a version serves reads there is one in service for good: a failed or
\* refused activation never leaves the portal without its projection.
KeepsAnActiveVersion ==
    (\E v \in Versions : ver[v] = "active")
    => (\E v \in Versions : ver'[v] = "active")

\* The portal is never left to a version nobody vouches for: neither by a
\* divergence that goes away on its own nor by an activation that fails.
ServiceIsSafe == [][KeepsDiverged /\ KeepsAnActiveVersion]_trafficVars

\* Late evidence arrives: what the source finally says of a cycle is what
\* the projection holds in the end, although the fast checkpoint has passed
\* the cycle and never returns to it.  (Unless the site is diverged, or the
\* cycle leaves the horizon.)
LateEvidenceArrives(v, c) ==
    (v \in WorkerVersions /\ src[c] # Null /\ src[c].mark = "ended") ~>
    \/ v \notin WorkerVersions \/ site[v].status = "diverged"
    \/ rows[v][c] = src[c]
    \/ c < Larger(now, SourceHead) - Retention

\* A version becomes active only with every cycle of the horizon projected
\* (the oldest ones may have been cleaned up).
ActivatedComplete ==
    [][\A v \in Versions :
          (ver[v] # "active" /\ ver'[v] = "active") =>
             \A c \in Window(p.head - Retention, p.head, 0) :
                rows[v][c] # Null \/ c < now - Retention]_trafficVars

\* The deep audit makes a site diverged only if a sampled fingerprint differs
\* although the cycle's revision marker does not: a cycle that merely went on
\* from running to completed is late evidence, which a sweep picks up.
AuditRespectsMarker ==
    [][\A v \in Versions :
          (site[v].err # "deep_fingerprint" /\ site'[v].err = "deep_fingerprint")
          => \E c \in Cycles : /\ rows[v][c] # Null /\ rows[v][c] # src[c]
                               /\ Marker(rows[v][c]) = Marker(src[c])]_trafficVars
=============================================================================
