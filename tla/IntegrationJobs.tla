--------------------------- MODULE IntegrationJobs ---------------------------
(***************************************************************************)
(* Post-authorization device classification                                *)
(* (app/device_fingerprint_integration): jobs enqueued by the portal's     *)
(* authorization worker, claimed under a durable lease by a consumer       *)
(* process, executed against a second database that holds the              *)
(* classifications, and finished by a compare-and-set on the lease token;  *)
(* and the independent, bounded resolution of the job's device and visit.  *)
(*                                                                         *)
(* Times are counted down from the moment that sets them and stop at zero, *)
(* so no clock is bounded.  A run number orders the authorizations.  A     *)
(* lease token is the consumer that holds it: a consumer forgets its claim *)
(* when it crashes, so two tokens of one consumer never coexist.           *)
(***************************************************************************)
EXTENDS Integers, FiniteSets, FiniteSetsExt, Sequences

CONSTANTS
    Runs,           \* authorized runs, numbered in the order of authorization
    Workers,        \* consumer processes
    Devices,        \* device ids of the registry
    Visits,         \* visit ids of the visit store
    Due,            \* time from the authorization to the due time (150 s)
    Lease,          \* LEASE_SECONDS
    MaxAttempts,    \* MAX_ATTEMPTS
    Delays,         \* RETRY_DELAYS
    IdRetry,        \* IDENTITY_RETRY_SECONDS
    Horizon,        \* IDENTITY_HORIZON_SECONDS
    None

ASSUME RunsAssumption == Runs \subseteq Nat
\* An absent value, and an answer that is no device, are told apart from the others.
ASSUME NoneAssumption ==
    /\ None \notin Nat \cup Workers \cup Devices \cup Visits
    /\ None # "mismatch" /\ "mismatch" \notin Devices
ASSUME TimesAssumption ==
    /\ {Due, Lease, IdRetry, Horizon, MaxAttempts} \subseteq Nat \ {0}
    /\ Due < Horizon
    /\ Delays \in Seq(Nat) /\ Len(Delays) = MaxAttempts - 1

VARIABLES
    job,        \* integration_jobs: run |-> row or None
    results,    \* runs whose planned classification is in its database
    assembled,  \* run |-> classifications attempted (history)
    con         \* consumer |-> where its cycle stands

vars == <<job, results, assembled, con>>

Waiting == [pc |-> "idle", run |-> None, recovery |-> FALSE, outcome |-> None]

Init ==
    /\ job = [r \in Runs |-> None]
    /\ results = {}
    /\ assembled = [r \in Runs |-> 0]
    /\ con = [w \in Workers |-> Waiting]

Jobs == {r \in Runs : job[r] # None}

-----------------------------------------------------------------------------
(* Portal side *)

\* Variant: a second submission resets the row.
X_EnqueueRequeues(r) ==
    /\ job' = [job EXCEPT ![r] =
          IF @ # None
          THEN [@ EXCEPT !.state = "PENDING", !.token = None, !.lease = 0]
          ELSE [state |-> "PENDING", attempts |-> 0, wait |-> Due, due |-> Due,
                token |-> None, lease |-> 0, reason |-> None,
                identity |-> "UNRESOLVED", device |-> None, visit |-> None,
                idWait |-> 0, idDone |-> FALSE, horizon |-> Horizon]]
    /\ UNCHANGED <<results, assembled, con>>

\* enqueue: a second submission of the same run finds its row and leaves it.
Enqueue(r) ==
    /\ job' = [job EXCEPT ![r] =
          IF @ # None THEN @
          ELSE [state |-> "PENDING", attempts |-> 0, wait |-> Due, due |-> Due,
                token |-> None, lease |-> 0, reason |-> None,
                identity |-> "UNRESOLVED", device |-> None, visit |-> None,
                idWait |-> 0, idDone |-> FALSE, horizon |-> Horizon]]
    /\ UNCHANGED <<results, assembled, con>>

-----------------------------------------------------------------------------
(* Consumer side *)

Step(w, pc)   == [con EXCEPT ![w].pc = pc]
Holding(w)    == con[w].pc \notin {"idle", "off"}
LockIsFree    == \A w \in Workers : ~Holding(w)

\* Variant: an expired lease is not claimed again.
X_ClaimableOnce ==
    {r \in Jobs : /\ job[r].due = 0
                  /\ job[r].state = "PENDING" /\ job[r].wait = 0
                  /\ job[r].attempts < MaxAttempts}

Claimable ==
    {r \in Jobs :
       /\ job[r].due = 0
       /\ \/ /\ job[r].state = "PENDING" /\ job[r].wait = 0
             /\ job[r].attempts < MaxAttempts
          \/ job[r].state = "LEASED" /\ job[r].lease = 0}

\* Variant: a claim beyond the last attempt classifies again.
X_ClaimRecoversLate(w, r) ==
    /\ job' = [job EXCEPT ![r].state = "LEASED", ![r].token = w,
                          ![r].lease = Lease,
                          ![r].attempts = Min({@ + 1, MaxAttempts})]
    /\ con' = [con EXCEPT ![w] =
          [pc |-> "read", run |-> r, recovery |-> FALSE, outcome |-> None]]

\* claim: the earliest due job, with the attempt counted and a fresh lease.
\* A job that has used its attempts is only looked up, never classified again.
Claim(w, r) ==
    /\ job' = [job EXCEPT ![r].state = "LEASED", ![r].token = w,
                          ![r].lease = Lease,
                          ![r].attempts = Min({@ + 1, MaxAttempts})]
    /\ con' = [con EXCEPT ![w] =
          [pc |-> "read", run |-> r,
           recovery |-> job[r].attempts >= MaxAttempts, outcome |-> None]]

\* One cycle starts when the consumer lock file is locked.
BeginCycle(w) ==
    /\ con[w].pc = "idle"
    /\ LockIsFree
    /\ IF Claimable # {} THEN Claim(w, Min(Claimable))
       ELSE con' = Step(w, "identify") /\ UNCHANGED job
    /\ UNCHANGED <<results, assembled>>

Outcome(w, outcome) ==
    con' = [con EXCEPT ![w].pc = "finish", ![w].outcome = outcome]

\* Variant: the stored classification is not looked up.
X_ReadSkipped(w) ==
    /\ con[w].pc = "read"
    /\ LET r == con[w].run
       IN  IF con[w].recovery
             THEN Outcome(w, IF job[r].reason = None THEN "unavailable"
                                                     ELSE job[r].reason)
             ELSE con' = Step(w, "assemble")
    /\ UNCHANGED <<job, results, assembled>>

\* execute: the planned classification is looked up before anything is
\* assembled.  The lookup may fail, and a stored row of another identity is a
\* conflict.
Read(w) ==
    /\ con[w].pc = "read"
    /\ LET r == con[w].run
       IN  \/ Outcome(w, "unreadable")
           \/ r \in results /\ Outcome(w, "conflict")
           \/ r \in results /\ Outcome(w, "ok")
           \/ /\ r \notin results
              /\ con[w].recovery
              /\ Outcome(w, IF job[r].reason = None THEN "unavailable"
                                                    ELSE job[r].reason)
           \/ /\ r \notin results
              /\ ~con[w].recovery
              /\ con' = Step(w, "assemble")
    /\ UNCHANGED <<job, results, assembled>>

\* preflight, assemble_production and persist: all of it is stored under the
\* planned id, or nothing is.
Assemble(w) ==
    /\ con[w].pc = "assemble"
    /\ LET r == con[w].run
       IN  /\ assembled' = [assembled EXCEPT ![r] = @ + 1]
           /\ \/ r \notin results /\ results' = results \cup {r}
                                  /\ Outcome(w, "ok")
              \/ UNCHANGED results /\ Outcome(w, "unavailable")
              \/ UNCHANGED results /\ Outcome(w, "incompatible")
    /\ UNCHANGED job

Retryable == {"unavailable", "unreadable"}

\* finish: what the outcome makes of the row.
Finished(row, outcome) ==
    LET retry == outcome \in Retryable /\ row.attempts < MaxAttempts
    IN  [row EXCEPT
          !.state = IF outcome = "ok" THEN "CLASSIFIED"
                    ELSE IF retry THEN "PENDING" ELSE "NO_RESULT_FINAL",
          !.reason = IF outcome = "ok" THEN None ELSE outcome,
          !.wait = IF retry THEN Delays[row.attempts] ELSE @,
          !.token = None, !.lease = 0,
          !.identity = IF outcome = "conflict" THEN "CONFLICT" ELSE @]

\* The update takes effect only while the lease is still this consumer's.
Finish(w) ==
    /\ con[w].pc = "finish"
    /\ LET r == con[w].run
           owned == /\ job[r].state = "LEASED" /\ job[r].token = w
                    /\ job[r].lease > 0
       IN  job' = IF owned
                    THEN [job EXCEPT ![r] = Finished(@, con[w].outcome)]
                    ELSE job
    /\ con' = Step(w, "identify")
    /\ UNCHANGED <<results, assembled>>

\* claim, finish or the identity read raises: the cycle ends and the lease,
\* if there is one, stays in the database.
CycleFails(w) ==
    /\ con[w].pc \in {"finish", "identify"}
    /\ con' = [con EXCEPT ![w] = Waiting]
    /\ UNCHANGED <<job, results, assembled>>

\* identity_due
IdentityDue ==
    {r \in Jobs : /\ job[r].identity \in {"UNRESOLVED", "DEVICE_RESOLVED"}
                  /\ job[r].idWait = 0
                  /\ ~job[r].idDone}

\* ExactIdentityResolver.resolve: `device' is what the registry answers
\* (None: no snapshot, "mismatch": another client's), `exact' the visits that
\* this run started with their device ids.
Conflict(row, device) ==
    [row EXCEPT !.identity = "CONFLICT", !.device = device]

\* Variant: the latest answer replaces the device.
X_ResolveLatest(row, device, exact) ==
    IF device \in {None, "mismatch"} THEN row
    ELSE [row EXCEPT !.identity = "DEVICE_RESOLVED", !.device = device]

Resolve(row, device, exact) ==
    CASE device = None -> row
      [] device = "mismatch" -> Conflict(row, row.device)
      [] device \in Devices /\ row.device \notin {None, device}
           -> Conflict(row, row.device)
      [] OTHER ->
           IF Cardinality(exact) > 1 THEN Conflict(row, device)
           ELSE IF exact = {} THEN
             [row EXCEPT !.identity = IF row.visit = None THEN "DEVICE_RESOLVED"
                                      ELSE "DEVICE_AND_VISIT_RESOLVED",
                         !.device = device]
           ELSE LET v == CHOOSE x \in exact : TRUE
                IN  IF \/ v.device \notin {None, device}
                       \/ row.visit \notin {None, v.id}
                      THEN Conflict(row, device)
                      ELSE [row EXCEPT !.identity = "DEVICE_AND_VISIT_RESOLVED",
                                       !.device = device, !.visit = v.id]

VisitAnswers ==
    {s \in SUBSET [id : Visits, device : Devices \cup {None}] :
       \A x, y \in s : x.id = y.id => x = y}

\* Variant: the horizon is never reached.
X_SavedAlways(row, new) ==
    IF row.identity = "CONFLICT" THEN row
    ELSE [new EXCEPT !.idWait = IdRetry]

\* save_identity: a conflict found meanwhile is kept; an attempt at or after
\* the horizon is the last one.
Saved(row, new) ==
    IF row.identity = "CONFLICT" THEN row
    ELSE [new EXCEPT !.idWait = IdRetry, !.idDone = row.horizon = 0]

\* The second half of the cycle; the lock is released at its end.
Identify(w) ==
    /\ con[w].pc = "identify"
    /\ con' = [con EXCEPT ![w] = Waiting]
    /\ IF IdentityDue = {} THEN UNCHANGED job
       ELSE \E r \in IdentityDue :
              IF job[r].horizon = 0
                THEN job' = [job EXCEPT ![r] = Saved(@, @)]
                ELSE \E device \in Devices \cup {None, "mismatch"},
                        exact \in VisitAnswers :
                       job' = [job EXCEPT ![r] =
                                 Saved(@, Resolve(@, device, exact))]
    /\ UNCHANGED <<results, assembled>>

\* The consumer is killed: the kernel releases the lock, the lease remains.
Crash(w) ==
    /\ con[w].pc # "off"
    /\ con' = [con EXCEPT ![w] = [Waiting EXCEPT !.pc = "off"]]
    /\ UNCHANGED <<job, results, assembled>>

Restart(w) ==
    /\ con[w].pc = "off"
    /\ con' = [con EXCEPT ![w] = Waiting]
    /\ UNCHANGED <<job, results, assembled>>

Less(n) == IF n = 0 THEN 0 ELSE n - 1

Tick ==
    /\ job' = [r \in Runs |->
          IF job[r] = None THEN None
          ELSE [job[r] EXCEPT !.due = Less(@), !.wait = Less(@),
                              !.lease = Less(@), !.idWait = Less(@),
                              !.horizon = Less(@)]]
    /\ UNCHANGED <<results, assembled, con>>

Next ==
    \/ \E r \in Runs : Enqueue(r)
    \/ \E w \in Workers :
          \/ BeginCycle(w) \/ Read(w) \/ Assemble(w) \/ Finish(w)
          \/ CycleFails(w) \/ Identify(w) \/ Crash(w) \/ Restart(w)
    \/ Tick

Spec == Init /\ [][Next]_vars

\* A live consumer runs a cycle every second and time passes.  Faults end: it
\* stops crashing, its database answers, and a claim is worked off within its
\* lease.
FairSpec ==
    /\ Spec
    /\ WF_vars(Tick)
    /\ \A w \in Workers :
          /\ WF_vars(BeginCycle(w)) /\ WF_vars(Read(w)) /\ WF_vars(Assemble(w))
          /\ WF_vars(Finish(w)) /\ WF_vars(Identify(w)) /\ WF_vars(Restart(w))
    /\ <>[][\A w \in Workers :
              /\ ~Crash(w)
              /\ ~(CycleFails(w) /\ (con[w].pc = "finish" \/ IdentityDue # {}))
              /\ ~(Tick /\ con[w].run # None /\ Holding(w))]_vars

-----------------------------------------------------------------------------
(* Properties *)

RowType ==
    [state : {"PENDING", "LEASED", "CLASSIFIED", "NO_RESULT_FINAL"},
     attempts : 0..MaxAttempts, wait : Nat, due : 0..Due,
     token : Workers \cup {None}, lease : 0..Lease,
     reason : {None, "unavailable", "unreadable", "incompatible", "conflict"},
     identity : {"UNRESOLVED", "DEVICE_RESOLVED", "DEVICE_AND_VISIT_RESOLVED",
                 "CONFLICT"},
     device : Devices \cup {None}, visit : Visits \cup {None},
     idWait : 0..IdRetry, idDone : BOOLEAN, horizon : 0..Horizon]

ASSUME NoRowAssumption == None \notin RowType

\* Every row satisfies the table's own checks: types, the attempt range, a
\* lease token exactly while leased, and the anchors its identity state needs.
TypeOK ==
    /\ \A r \in Runs : job[r] # None =>
          /\ job[r] \in RowType
          /\ (job[r].state = "LEASED") = (job[r].token # None)
          /\ job[r].identity \in {"DEVICE_RESOLVED", "DEVICE_AND_VISIT_RESOLVED"}
               => job[r].device # None
          /\ job[r].identity = "DEVICE_AND_VISIT_RESOLVED" => job[r].visit # None
    /\ results \subseteq Runs
    /\ assembled \in [Runs -> Nat]
    /\ \A w \in Workers :
          con[w].pc \in {"idle", "off", "read", "assemble", "finish", "identify"}

\* A job is CLASSIFIED only with its classification in the other database,
\* and it is given up without a result only if there is none there, unless
\* the very lookup of it failed at the last attempt or found another identity:
\* a crash between persist and finish never loses the result.
NoResultIsHonest ==
    \A r \in Jobs :
       /\ job[r].state = "CLASSIFIED" => r \in results
       /\ (job[r].state = "NO_RESULT_FINAL" /\ r \in results)
            => job[r].reason \in {"unreadable", "conflict"}

\* However often leases expire and consumers crash, a run is classified at
\* most MAX_ATTEMPTS times: a reclaim beyond it only looks the result up.
BoundedAssembly == \A r \in Runs : assembled[r] <= MaxAttempts

\* A job's row tells the truth about its work (claim, finish).
JobsAreHonest == TypeOK /\ NoResultIsHonest /\ BoundedAssembly

\* A finished job is final: no later claim, late finish of a consumer that
\* lost its lease, or repeated submission changes its classification.
KeepsOutcomes ==
    \A r \in Jobs :
       job[r].state \in {"CLASSIFIED", "NO_RESULT_FINAL"}
       => /\ job'[r].state = job[r].state
          /\ job'[r].reason = job[r].reason
          /\ job'[r].attempts = job[r].attempts

\* The device and the visit a job was once linked to are never replaced, and
\* a conflict is never taken back, whatever the registry and the visit store
\* answer later.
KeepsAnchors ==
    \A r \in Jobs :
       /\ job[r].device # None => job'[r].device = job[r].device
       /\ job[r].visit # None => job'[r].visit = job[r].visit
       /\ job[r].identity = "CONFLICT" => job'[r].identity = "CONFLICT"

\* What a job has found out stays: its outcome, its anchors and its conflict.
OutcomesAreStable == [][KeepsOutcomes /\ KeepsAnchors]_vars

\* What a run shows of its job: its phase or verdict, the classifications attempted and stored.
Work(r) ==
    [phase  |-> IF job[r] = None THEN "none"
                ELSE IF job[r].state = "CLASSIFIED" THEN "classified"
                ELSE IF job[r].state = "NO_RESULT_FINAL" THEN job[r].reason
                ELSE "open",
     tries  |-> assembled[r],
     stored |-> r \in results]

Link(r) ==
    IF job[r] = None
      THEN [identity |-> "UNRESOLVED", device |-> None, visit |-> None, done |-> FALSE]
      ELSE [identity |-> job[r].identity, device |-> job[r].device, visit |-> job[r].visit,
            done |-> job[r].idDone]

Contract == INSTANCE JobContract WITH
    work <- [r \in Runs |-> Work(r)],
    link <- [r \in Runs |-> Link(r)]

\* Whatever leases expire, consumers crash and databases answer, every run sees the contract: one
\* verdict that agrees with what is stored, never taken back by a late finish, a later claim or a
\* repeated submission, and an identity that is only ever added to (claim, finish, save_identity).
ImplementsContract == Contract!Spec

\* Every submitted job is eventually classified or given up.
JobsFinish ==
    \A r \in Runs :
       (job[r] # None) ~>
       (job[r] # None /\ job[r].state \in {"CLASSIFIED", "NO_RESULT_FINAL"})

\* The search for a job's identity ends: resolved, in conflict, or past the
\* horizon.
IdentitySettles ==
    \A r \in Runs :
       (job[r] # None) ~>
       (job[r] # None /\ (\/ job[r].idDone
                          \/ job[r].identity \in {"DEVICE_AND_VISIT_RESOLVED",
                                                  "CONFLICT"}))

\* No job stays in the table unfinished, nor its identity open, for good.
JobsComeToAnEnd == JobsFinish /\ IdentitySettles
=============================================================================
