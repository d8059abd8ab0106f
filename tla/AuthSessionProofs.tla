-------------------------- MODULE AuthSessionProofs --------------------------
(***************************************************************************)
(* Proofs about AuthSession.  Every operation of AuthSessionManager on one *)
(* session object is shown to preserve SessionInv and to be a SessionStep; *)
(* every action then is one such operation on each session and one step of *)
(* a thread.  The theorems on outcomes and the refinement follow from      *)
(* these two facts.  The second part relates each session to the threads   *)
(* of its runs, the queue and the registry: a run that failed or succeeded *)
(* has a thread that calls the controller no more, and a session that has  *)
(* left the registry is finished.                                          *)
(***************************************************************************)
EXTENDS AuthHistory, TLAPS

-----------------------------------------------------------------------------
(* One session object *)

SessionInv(x) ==
    /\ x \in SessionObject
    /\ x.cur > 0 => StatusOfRun(x)
    /\ RetriesOf(x)
    /\ x.old => x.cur > 0

\* The current run of x is unfinished; a worker's write is accepted in this case only.
Writable(x, n) == n \in RunNos /\ x.cur = n /\ x.runs[n].final = "open"

OutcomesKept(x, y) ==
    \A n \in RunNos : n <= x.cur /\ x.runs[n].final # "open" =>
        y.runs[n].final = x.runs[n].final /\ y.runs[n].retryable = x.runs[n].retryable

FinishedKept(x, y) ==
    x.cur > 0 /\ IsFinished(x) =>
        y.cur = x.cur /\ y.mac = x.mac /\ y.status \in {x.status, "EXPIRED"}

\* A step of AuthContract as seen by one session.
ContractStep(x, y) ==
    \/ Outcome(y) = Outcome(x) /\ y.cur = x.cur
    \/ Outcome(x) = "none" /\ Outcome(y) = "active" /\ y.cur = 1
    \/ /\ Outcome(x) = "active" /\ y.cur = x.cur
       /\ Outcome(y) \in {"retryable", "AUTHORIZED", "FAILED", "EXPIRED"}
    \/ Outcome(x) = "retryable" /\ Outcome(y) = "active" /\ y.cur = x.cur + 1
    \/ Outcome(x) # "none" /\ Outcome(y) = "EXPIRED" /\ y.cur = x.cur

SessionStep(x, y) == OutcomesKept(x, y) /\ FinishedKept(x, y) /\ ContractStep(x, y)

\* What a manager operation that turns session x into y has to establish.
Legal(x, y) == SessionInv(y) /\ SessionStep(x, y)

LEMMA Values ==
    /\ "recent" \in Idle
    /\ {"WAITING", "AUTHORIZING", "VERIFYING", "RESETTING"} = ActiveStatuses
    /\ {"AUTHORIZED", "FAILED", "EXPIRED"} = FinalStatuses
    /\ ActiveStatuses \subseteq Statuses /\ FinalStatuses \subseteq Statuses
    /\ ActiveStatuses \intersect FinalStatuses = {}
    /\ "open" \notin FinalStatuses
    /\ RunNos \subseteq 0 .. MaxRuns
    /\ RunNos \subseteq Nat
    /\ 1 \in RunNos
    /\ \A n \in 0 .. MaxRuns : n > 0 => n \in RunNos
  BY MaxRunsAssumption DEF Idle, ActiveStatuses, FinalStatuses, Statuses, RunNos

\* Leaving the session as it is.
LEMMA LegalStay ==
    ASSUME NEW x, SessionInv(x)
    PROVE  Legal(x, x)
  BY DEF Legal, SessionStep, OutcomesKept, FinishedKept, ContractStep

\* Changing neither status, outcomes, requests nor the current run.
LEMMA LegalFrame ==
    ASSUME NEW x, SessionInv(x), NEW y \in SessionObject,
           y.status = x.status, y.retryable = x.retryable, y.cur = x.cur,
           y.mac = x.mac \/ IsActive(x),
           x.old => y.old, y.old => y.cur > 0, y.requests = x.requests,
           \A n \in RunNos : y.runs[n].final = x.runs[n].final /\ y.runs[n].retryable = x.runs[n].retryable
    PROVE  Legal(x, y)
  <1>1. RetriesOf(y)
    BY DEF SessionInv, RetriesOf
  <1>2. ASSUME y.cur > 0 PROVE StatusOfRun(y)
    <2>1. y.cur \in RunNos
      BY <1>2, Values DEF SessionObject
    <2>2. StatusOfRun(x)
      BY <1>2 DEF SessionInv
    <2>. QED
      BY <2>1, <2>2 DEF StatusOfRun, IsActive
  <1>3. SessionInv(y)
    BY <1>1, <1>2 DEF SessionInv
  <1>4. OutcomesKept(x, y)
    BY DEF OutcomesKept
  <1>5. FinishedKept(x, y)
    BY DEF FinishedKept, IsFinished, IsActive, ActiveStatuses
  <1>6. ContractStep(x, y)
    BY DEF ContractStep, Outcome, IsActive, CanRetry
  <1>. QED
    BY <1>3, <1>4, <1>5, <1>6 DEF Legal, SessionStep

LEMMA UpdateActivityLegal ==
    ASSUME NEW x, SessionInv(x)
    PROVE  Legal(x, UpdateActivity(x))
  <1>. DEFINE y == UpdateActivity(x)
  <1>1. y \in SessionObject
    BY Values DEF UpdateActivity, SessionInv, SessionObject
  <1>2. /\ y.status = x.status /\ y.retryable = x.retryable /\ y.cur = x.cur
        /\ y.old = x.old /\ y.requests = x.requests /\ y.runs = x.runs /\ y.mac = x.mac
    BY DEF UpdateActivity, SessionInv, SessionObject
  <1>3. Legal(x, y)
    <2>. HIDE DEF y
    <2>. QED
      BY <1>1, <1>2, LegalFrame DEF SessionInv
  <1>. QED
    BY <1>3

LEMMA SetClientMacLegal ==
    ASSUME NEW x, SessionInv(x), IsActive(x), NEW m \in Macs
    PROVE  Legal(x, SetClientMac(x, m))
  <1>. DEFINE y == SetClientMac(x, m)
  <1>1. y \in SessionObject
    BY Values DEF SetClientMac, UpdateActivity, SessionInv, SessionObject
  <1>2. /\ y.status = x.status /\ y.retryable = x.retryable /\ y.cur = x.cur
        /\ y.old = x.old /\ y.requests = x.requests /\ y.runs = x.runs
    BY DEF SetClientMac, UpdateActivity, SessionInv, SessionObject
  <1>3. Legal(x, y)
    <2>. HIDE DEF y
    <2>. QED
      BY <1>1, <1>2, LegalFrame DEF SessionInv
  <1>. QED
    BY <1>3

LEMMA ClaimRunLegal ==
    ASSUME NEW x, SessionInv(x), NEW n \in RunNos
    PROVE  Legal(x, ClaimRun(x, n))
  <1>. DEFINE r == [x.runs[n] EXCEPT !.workerStarted = TRUE, !.workerFinished = FALSE]
              y == ClaimRun(x, n)
  <1>1. x \in SessionObject /\ x.runs[n] \in AuthRun
    BY DEF SessionInv, SessionObject
  <1>2. r \in AuthRun /\ r.final = x.runs[n].final /\ r.retryable = x.runs[n].retryable
    BY <1>1 DEF AuthRun
  <1>3. /\ y.status = x.status /\ y.retryable = x.retryable /\ y.cur = x.cur /\ y.old = x.old
        /\ y.requests = x.requests /\ y.mac = x.mac
    BY <1>1 DEF ClaimRun, UpdateActivity, SessionObject
  <1>4. y.runs = [x.runs EXCEPT ![n] = r]
    BY <1>1 DEF ClaimRun, UpdateActivity, SessionObject
  <1>5. y \in SessionObject
    BY <1>1, <1>2, Values DEF ClaimRun, UpdateActivity, SessionObject
  <1>6. \A k \in RunNos : y.runs[k].final = x.runs[k].final /\ y.runs[k].retryable = x.runs[k].retryable
    BY <1>1, <1>2, <1>4 DEF SessionObject
  <1>7. Legal(x, y)
    <2>. HIDE DEF y
    <2>. QED
      BY <1>3, <1>5, <1>6, LegalFrame DEF SessionInv
  <1>. QED
    BY <1>7

LEMMA MarkWorkerFinishedLegal ==
    ASSUME NEW x, SessionInv(x), NEW n \in RunNos
    PROVE  Legal(x, MarkWorkerFinished(x, n))
  <1>. DEFINE r == [x.runs[n] EXCEPT !.workerFinished = TRUE]
              y == MarkWorkerFinished(x, n)
  <1>1. x \in SessionObject /\ x.runs[n] \in AuthRun
    BY DEF SessionInv, SessionObject
  <1>2. r \in AuthRun /\ r.final = x.runs[n].final /\ r.retryable = x.runs[n].retryable
    BY <1>1 DEF AuthRun
  <1>3. /\ y.status = x.status /\ y.retryable = x.retryable /\ y.cur = x.cur /\ y.old = x.old
        /\ y.requests = x.requests /\ y.mac = x.mac
    BY <1>1 DEF MarkWorkerFinished, UpdateActivity, SessionObject
  <1>4. y.runs = [x.runs EXCEPT ![n] = r]
    BY <1>1 DEF MarkWorkerFinished, UpdateActivity, SessionObject
  <1>5. y \in SessionObject
    BY <1>1, <1>2, Values DEF MarkWorkerFinished, UpdateActivity, SessionObject
  <1>6. \A k \in RunNos : y.runs[k].final = x.runs[k].final /\ y.runs[k].retryable = x.runs[k].retryable
    BY <1>1, <1>2, <1>4 DEF SessionObject
  <1>7. Legal(x, y)
    <2>. HIDE DEF y
    <2>. QED
      BY <1>3, <1>5, <1>6, LegalFrame DEF SessionInv
  <1>. QED
    BY <1>7

-----------------------------------------------------------------------------
(* Operations guarded by _run_matches_locked: the current run is unfinished *)

LEMMA WritableIsActive ==
    ASSUME NEW x, SessionInv(x), NEW n, Writable(x, n)
    PROVE  IsActive(x) /\ x.cur > 0 /\ Outcome(x) = "active" /\ ~IsFinished(x)
  <1>1. x.cur > 0
    BY DEF Writable, RunNos
  <1>2. IsActive(x)
    BY <1>1 DEF SessionInv, StatusOfRun, Writable
  <1>. QED
    BY <1>1, <1>2 DEF Outcome, IsFinished, IsActive, ActiveStatuses

\* Moving an unfinished run to another active status.
LEMMA LegalActive ==
    ASSUME NEW x, SessionInv(x), NEW n, Writable(x, n), NEW y \in SessionObject,
           y.status \in ActiveStatuses, y.cur = x.cur, y.old = x.old, y.requests = x.requests,
           \A k \in RunNos : y.runs[k].final = x.runs[k].final /\ y.runs[k].retryable = x.runs[k].retryable
    PROVE  Legal(x, y)
  <1>1. IsActive(x) /\ x.cur > 0 /\ Outcome(x) = "active" /\ ~IsFinished(x)
    BY WritableIsActive
  <1>2. RetriesOf(y)
    BY DEF SessionInv, RetriesOf
  <1>3. IsActive(y) /\ y.runs[y.cur].final = "open"
    BY DEF IsActive, Writable
  <1>4. StatusOfRun(y)
    BY <1>3 DEF StatusOfRun, IsActive, ActiveStatuses
  <1>5. SessionInv(y)
    BY <1>1, <1>2, <1>4 DEF SessionInv
  <1>6. OutcomesKept(x, y)
    BY DEF OutcomesKept
  <1>7. FinishedKept(x, y)
    BY <1>1 DEF FinishedKept
  <1>8. Outcome(y) = "active"
    BY <1>1, <1>3 DEF Outcome
  <1>9. ContractStep(x, y)
    BY <1>1, <1>8 DEF ContractStep
  <1>. QED
    BY <1>5, <1>6, <1>7, <1>9 DEF Legal, SessionStep

LEMMA UpdateStatusLegal ==
    ASSUME NEW x, SessionInv(x), NEW n, Writable(x, n), NEW status \in ActiveStatuses
    PROVE  Legal(x, UpdateStatus(x, status))
  <1>. DEFINE y == UpdateStatus(x, status)
  <1>1. y \in SessionObject
    BY Values DEF UpdateStatus, UpdateActivity, SessionInv, SessionObject
  <1>2. /\ y.status = status /\ y.cur = x.cur /\ y.old = x.old
        /\ y.requests = x.requests /\ y.runs = x.runs
    BY DEF UpdateStatus, UpdateActivity, SessionInv, SessionObject
  <1>3. Legal(x, y)
    <2>. HIDE DEF y
    <2>. QED
      BY <1>1, <1>2, LegalActive
  <1>. QED
    BY <1>3

LEMMA BeginAttemptLegal ==
    ASSUME NEW x, SessionInv(x), NEW n, Writable(x, n)
    PROVE  Legal(x, BeginAttempt(x, n))
  <1>. DEFINE r == [x.runs[n] EXCEPT !.mayHaveChanged = TRUE]
              y == BeginAttempt(x, n)
  <1>1. n \in RunNos /\ x \in SessionObject /\ x.runs[n] \in AuthRun
    BY DEF SessionInv, SessionObject, Writable
  <1>2. r \in AuthRun /\ r.final = x.runs[n].final /\ r.retryable = x.runs[n].retryable
    BY <1>1 DEF AuthRun
  <1>3. y.status = "AUTHORIZING" /\ y.cur = x.cur /\ y.old = x.old /\ y.requests = x.requests
    BY <1>1 DEF BeginAttempt, UpdateActivity, SessionObject
  <1>4. y.runs = [x.runs EXCEPT ![n] = r]
    BY <1>1 DEF BeginAttempt, UpdateActivity, SessionObject
  <1>5. "AUTHORIZING" \in ActiveStatuses /\ "AUTHORIZING" \in Statuses
    BY DEF ActiveStatuses, Statuses
  <1>6. y \in SessionObject
    BY <1>1, <1>2, <1>5, Values DEF BeginAttempt, UpdateActivity, SessionObject
  <1>7. \A k \in RunNos : y.runs[k].final = x.runs[k].final /\ y.runs[k].retryable = x.runs[k].retryable
    BY <1>1, <1>2, <1>4 DEF SessionObject
  <1>8. Legal(x, y)
    <2>. HIDE DEF y
    <2>. QED
      BY <1>3, <1>5, <1>6, <1>7, LegalActive
  <1>. QED
    BY <1>8

LEMMA FinishRunLegal ==
    ASSUME NEW x, SessionInv(x), NEW n, Writable(x, n),
           NEW final \in FinalStatuses, NEW retryable \in BOOLEAN,
           final = "EXPIRED" => x.old /\ ~retryable
    PROVE  Legal(x, FinishRun(x, n, final, retryable))
  <1>. DEFINE r == SetFinal(x.runs[n], final, retryable)
              y == FinishRun(x, n, final, retryable)
  <1>1. n \in RunNos /\ x \in SessionObject /\ x.runs[n] \in AuthRun
    BY DEF SessionInv, SessionObject, Writable
  <1>2. r \in AuthRun /\ r.final = final /\ r.retryable = retryable
    BY <1>1 DEF AuthRun, SetFinal
  <1>3. /\ y.status = final /\ y.retryable = retryable /\ y.cur = x.cur /\ y.old = x.old
        /\ y.requests = x.requests
    BY <1>1 DEF FinishRun, UpdateActivity, SessionObject
  <1>4. y.runs = [x.runs EXCEPT ![n] = r]
    BY <1>1 DEF FinishRun, UpdateActivity, SessionObject
  <1>5. y \in SessionObject
    BY <1>1, <1>2, Values DEF FinishRun, UpdateActivity, SessionObject
  <1>6. y.runs[n] = r /\ \A k \in RunNos : k # n => y.runs[k] = x.runs[k]
    BY <1>1, <1>4 DEF SessionObject
  <1>7. IsActive(x) /\ x.cur > 0 /\ Outcome(x) = "active" /\ ~IsFinished(x)
    BY WritableIsActive
  <1>8. Legal(x, y)
    <2>. HIDE DEF y
    <2>1. x.cur = n /\ x.runs[n].final = "open" /\ n \in Nat
      BY <1>1, Values DEF Writable
    <2>2. RetriesOf(y)
      BY <1>3, <1>6, <2>1 DEF SessionInv, RetriesOf
    <2>3. ~IsActive(y) /\ y.runs[y.cur].final = final /\ y.runs[y.cur].retryable = retryable
      BY <1>2, <1>3, <1>6, <2>1, Values DEF IsActive
    <2>4. StatusOfRun(y)
      BY <1>3, <2>3, Values DEF StatusOfRun
    <2>5. SessionInv(y)
      BY <1>3, <1>5, <1>7, <2>2, <2>4 DEF SessionInv
    <2>6. OutcomesKept(x, y)
      BY <1>6, <2>1 DEF OutcomesKept
    <2>7. FinishedKept(x, y)
      BY <1>7 DEF FinishedKept
    <2>8. Outcome(y) \in {"retryable", "AUTHORIZED", "FAILED", "EXPIRED"}
      BY <1>3, <1>7, <2>3 DEF Outcome, FinalStatuses
    <2>9. ContractStep(x, y)
      BY <1>3, <1>7, <2>8 DEF ContractStep
    <2>. QED
      BY <2>5, <2>6, <2>7, <2>9 DEF Legal, SessionStep
  <1>. QED
    BY <1>8

\* Expiry needs no run guard, only that the TTL has passed.
LEMMA ExpireLockedLegal ==
    ASSUME NEW x, SessionInv(x), x.old
    PROVE  Legal(x, ExpireLocked(x))
  <1>1. CASE x.status = "EXPIRED"
    BY <1>1, LegalStay DEF ExpireLocked
  <1>2. CASE x.status # "EXPIRED" /\ CurrentOpen(x)
    <2>1. Writable(x, x.cur)
      BY <1>2, Values DEF Writable, CurrentOpen, SessionInv, SessionObject
    <2>2. "EXPIRED" \in FinalStatuses
      BY DEF FinalStatuses
    <2>3. Legal(x, FinishRun(x, x.cur, "EXPIRED", FALSE))
      BY <2>1, <2>2, FinishRunLegal
    <2>. QED
      BY <1>2, <2>3 DEF ExpireLocked
  <1>3. CASE x.status # "EXPIRED" /\ ~CurrentOpen(x)
    <2>. DEFINE y == [UpdateActivity(x) EXCEPT !.status = "EXPIRED", !.retryable = FALSE]
    <2>1. ExpireLocked(x) = y
      BY <1>3 DEF ExpireLocked
    <2>2. "EXPIRED" \in Statuses
      BY DEF Statuses, FinalStatuses
    <2>3. y \in SessionObject
      BY <2>2, Values DEF UpdateActivity, SessionInv, SessionObject
    <2>4. /\ y.status = "EXPIRED" /\ y.retryable = FALSE /\ y.cur = x.cur /\ y.old = x.old
          /\ y.requests = x.requests /\ y.runs = x.runs /\ y.mac = x.mac
      BY DEF UpdateActivity, SessionInv, SessionObject
    <2>5. x.cur > 0 /\ x.runs[x.cur].final # "open"
      BY <1>3 DEF SessionInv, CurrentOpen
    <2>6. Legal(x, y)
      <3>. HIDE DEF y
      <3>1. RetriesOf(y)
        BY <2>4 DEF SessionInv, RetriesOf
      <3>2. ~IsActive(y)
        BY <2>4 DEF IsActive, ActiveStatuses
      <3>3. StatusOfRun(y)
        BY <2>4, <2>5, <3>2 DEF StatusOfRun
      <3>4. SessionInv(y)
        BY <2>3, <2>4, <2>5, <3>1, <3>3 DEF SessionInv
      <3>5. OutcomesKept(x, y)
        BY <2>4 DEF OutcomesKept
      <3>6. FinishedKept(x, y)
        BY <2>4 DEF FinishedKept
      <3>7. Outcome(y) = "EXPIRED"
        BY <2>4, <2>5, <3>2 DEF Outcome, CanRetry
      <3>8. Outcome(x) # "none"
        BY <2>5 DEF Outcome, IsActive, CanRetry, SessionInv, SessionObject, Statuses, ActiveStatuses, FinalStatuses
      <3>9. ContractStep(x, y)
        BY <2>4, <3>7, <3>8 DEF ContractStep
      <3>. QED
        BY <3>4, <3>5, <3>6, <3>9 DEF Legal, SessionStep
    <2>. QED
      BY <2>1, <2>6
  <1>. QED
    BY <1>1, <1>2, <1>3

-----------------------------------------------------------------------------
(* Creating sessions and runs, binding requests, and the passing of time *)

LEMMA BindRequestLegal ==
    ASSUME NEW x, SessionInv(x), NEW q \in RequestIds, x.requests[q] = 0
    PROVE  Legal(x, BindRequest(x, q, x.cur))
  <1>. DEFINE y == BindRequest(x, q, x.cur)
  <1>1. x \in SessionObject
    BY DEF SessionInv
  <1>2. y \in SessionObject
    BY <1>1 DEF BindRequest, SessionObject
  <1>3. /\ y.status = x.status /\ y.retryable = x.retryable /\ y.cur = x.cur /\ y.old = x.old
        /\ y.runs = x.runs /\ y.mac = x.mac
    BY <1>1 DEF BindRequest, SessionObject
  <1>4. \A p \in RequestIds : x.requests[p] # 0 => y.requests[p] = x.requests[p]
    BY <1>1 DEF BindRequest, SessionObject
  <1>5. Legal(x, y)
    <2>. HIDE DEF y
    <2>1. \A n \in RunNos : n # 0
      BY DEF RunNos
    <2>2. RetriesOf(y)
      <3>1. \A n \in RunNos : n < y.cur => y.runs[n].final = "FAILED" /\ y.runs[n].retryable
        BY <1>3 DEF SessionInv, RetriesOf
      <3>2. ASSUME NEW n \in RunNos, 1 < n /\ n <= y.cur
            PROVE  \E p \in RequestIds : y.requests[p] = n
        <4>1. PICK p \in RequestIds : x.requests[p] = n
          BY <1>3, <3>2 DEF SessionInv, RetriesOf
        <4>. QED
          BY <1>4, <2>1, <4>1
      <3>. QED
        BY <3>1, <3>2 DEF RetriesOf
    <2>3. x.cur > 0 => StatusOfRun(y)
      BY <1>3 DEF SessionInv, StatusOfRun, IsActive
    <2>4. SessionInv(y)
      BY <1>2, <1>3, <2>2, <2>3 DEF SessionInv
    <2>5. OutcomesKept(x, y) /\ FinishedKept(x, y)
      BY <1>3 DEF OutcomesKept, FinishedKept
    <2>6. ContractStep(x, y)
      BY <1>3 DEF ContractStep, Outcome, IsActive, CanRetry
    <2>. QED
      BY <2>4, <2>5, <2>6 DEF Legal, SessionStep
  <1>. QED
    BY <1>5

LEMMA NewRunType == NewRun \in AuthRun
  BY DEF NewRun, AuthRun

\* prepare_retry: the next run of a session whose current run failed and may be retried.
LEMMA CreateRetryLegal ==
    ASSUME NEW x, SessionInv(x), CanRetry(x), x.cur + 1 \in RunNos,
           NEW q \in RequestIds, x.requests[q] = 0
    PROVE  Legal(x, BindRequest(CreateRun(x, x.cur + 1), q, x.cur + 1))
  <1>. DEFINE n == x.cur + 1
              z == CreateRun(x, n)
              y == BindRequest(z, q, n)
  <1>1. x \in SessionObject /\ n \in 0 .. MaxRuns /\ x.cur \in Nat
    BY Values DEF SessionInv, SessionObject
  <1>2. "WAITING" \in Statuses /\ "WAITING" \in ActiveStatuses
    BY DEF Statuses, ActiveStatuses
  <1>3. z \in SessionObject
    BY <1>1, <1>2, NewRunType, Values DEF CreateRun, UpdateActivity, SessionObject
  <1>4. /\ z.status = "WAITING" /\ z.retryable = FALSE /\ z.cur = n /\ z.old = x.old
        /\ z.requests = x.requests /\ z.runs = [x.runs EXCEPT ![n] = NewRun]
    BY <1>1 DEF CreateRun, UpdateActivity, SessionObject
  <1>5. y \in SessionObject
    <2>. HIDE DEF z, n
    <2>. QED
      BY <1>1, <1>3 DEF BindRequest, SessionObject
  <1>6. /\ y.status = z.status /\ y.retryable = z.retryable /\ y.cur = z.cur /\ y.old = z.old
        /\ y.runs = z.runs /\ y.requests = [z.requests EXCEPT ![q] = n]
    <2>. HIDE DEF z, n
    <2>. QED
      BY <1>3 DEF BindRequest, SessionObject
  <1>7. /\ y.status = "WAITING" /\ y.cur = n /\ y.old = x.old
        /\ y.runs = [x.runs EXCEPT ![n] = NewRun] /\ y.requests = [x.requests EXCEPT ![q] = n]
    BY <1>4, <1>6
  <1>8. Legal(x, y)
    <2>. HIDE DEF y, z
    <2>1. /\ y.runs[n] = NewRun /\ \A k \in RunNos : k # n => y.runs[k] = x.runs[k]
      BY <1>1, <1>7 DEF SessionObject
    <2>2. y.requests[q] = n /\ \A p \in RequestIds : p # q => y.requests[p] = x.requests[p]
      BY <1>1, <1>7 DEF SessionObject
    <2>3. RetriesOf(y)
      <3>1. ASSUME NEW k \in RunNos, k < y.cur
            PROVE  y.runs[k].final = "FAILED" /\ y.runs[k].retryable
        <4>1. k # n /\ (k < x.cur \/ k = x.cur) /\ k > 0
          BY <1>1, <1>7, <3>1, Values DEF RunNos
        <4>2. CASE k < x.cur
          BY <2>1, <4>1, <4>2 DEF SessionInv, RetriesOf
        <4>3. CASE k = x.cur
          BY <2>1, <4>1, <4>3 DEF SessionInv, StatusOfRun, CanRetry
        <4>. QED
          BY <4>1, <4>2, <4>3
      <3>2. ASSUME NEW k \in RunNos, 1 < k /\ k <= y.cur
            PROVE  \E p \in RequestIds : y.requests[p] = k
        <4>1. CASE k = n
          BY <2>2, <4>1
        <4>2. CASE k # n
          <5>1. k <= x.cur
            BY <1>1, <1>7, <3>2, <4>2, Values
          <5>2. PICK p \in RequestIds : x.requests[p] = k
            BY <3>2, <5>1 DEF SessionInv, RetriesOf
          <5>3. k # 0
            BY <3>2
          <5>. QED
            BY <2>2, <5>2, <5>3
        <4>. QED
          BY <4>1, <4>2
      <3>. QED
        BY <3>1, <3>2 DEF RetriesOf
    <2>4. IsActive(y) /\ y.runs[y.cur].final = "open"
      BY <1>2, <1>7, <2>1 DEF IsActive, NewRun
    <2>5. StatusOfRun(y)
      BY <1>7, <2>4 DEF StatusOfRun
    <2>6. SessionInv(y)
      BY <1>1, <1>5, <1>7, <2>3, <2>5 DEF SessionInv
    <2>7. OutcomesKept(x, y)
      BY <1>1, <2>1 DEF OutcomesKept
    <2>8. FinishedKept(x, y)
      BY DEF FinishedKept, IsFinished, CanRetry
    <2>9. Outcome(y) = "active"
      BY <1>1, <1>7, <2>4 DEF Outcome
    <2>10. x.cur # 0 => Outcome(x) = "retryable"
      BY DEF Outcome, CanRetry, IsActive, ActiveStatuses
    <2>11. x.cur = 0 => Outcome(x) = "none"
      BY DEF Outcome
    <2>12. ContractStep(x, y)
      BY <1>1, <1>7, <2>9, <2>10, <2>11 DEF ContractStep
    <2>. QED
      BY <2>6, <2>7, <2>8, <2>12 DEF Legal, SessionStep
  <1>. QED
    BY <1>8

LEMMA CreateFirstLegal ==
    ASSUME NEW x, SessionInv(x), x.cur = 0, NEW c \in Contexts
    PROVE  Legal(x, CreateRun(NewSession(c), 1))
  <1>. DEFINE y == CreateRun(NewSession(c), 1)
  <1>1. c.mac \in Macs \union {NoMac} /\ c.ip \in Ips \union {NoIp}
    BY ContextsAssumption
  <1>2. "WAITING" \in Statuses /\ "WAITING" \in ActiveStatuses /\ 0 \in 0 .. MaxRuns /\ 1 \in 0 .. MaxRuns
    BY Values, MaxRunsAssumption DEF Statuses, ActiveStatuses
  <1>3. NewSession(c) \in SessionObject
    BY <1>1, <1>2, NewRunType, Values DEF NewSession, SessionObject
  <1>4. y \in SessionObject
    <2>. DEFINE z == NewSession(c)
    <2>. HIDE DEF z
    <2>1. z \in SessionObject
      BY <1>3 DEF z
    <2>2. CreateRun(z, 1) \in SessionObject
      BY <1>2, <2>1, NewRunType, Values DEF CreateRun, UpdateActivity, SessionObject
    <2>. QED
      BY <2>2 DEF z
  <1>5. /\ y.status = "WAITING" /\ y.cur = 1 /\ y.runs[1] = NewRun
    BY Values DEF CreateRun, UpdateActivity, NewSession
  <1>6. Legal(x, y)
    <2>. HIDE DEF y
    <2>1. RetriesOf(y)
      BY <1>5 DEF RetriesOf, RunNos
    <2>2. IsActive(y) /\ y.runs[y.cur].final = "open"
      BY <1>2, <1>5 DEF IsActive, NewRun
    <2>3. StatusOfRun(y)
      BY <1>5, <2>2 DEF StatusOfRun
    <2>4. SessionInv(y)
      BY <1>4, <1>5, <2>1, <2>3 DEF SessionInv
    <2>5. OutcomesKept(x, y) /\ FinishedKept(x, y)
      BY DEF OutcomesKept, FinishedKept, RunNos
    <2>6. ContractStep(x, y)
      BY <1>5, <2>2 DEF ContractStep, Outcome
    <2>. QED
      BY <2>4, <2>5, <2>6 DEF Legal, SessionStep
  <1>. QED
    BY <1>6

LEMMA GrowOldLegal ==
    ASSUME NEW x, SessionInv(x), x.cur > 0
    PROVE  Legal(x, [x EXCEPT !.old = TRUE])
  <1>. DEFINE y == [x EXCEPT !.old = TRUE]
  <1>1. y \in SessionObject
    BY DEF SessionInv, SessionObject
  <1>2. /\ y.status = x.status /\ y.retryable = x.retryable /\ y.cur = x.cur
        /\ y.old = TRUE /\ y.requests = x.requests /\ y.runs = x.runs /\ y.mac = x.mac
    BY DEF SessionInv, SessionObject
  <1>3. Legal(x, y)
    <2>. HIDE DEF y
    <2>. QED
      BY <1>1, <1>2, LegalFrame
  <1>. QED
    BY <1>3

LEMMA GrowIdleLegal ==
    ASSUME NEW x, SessionInv(x), NEW idle \in Idle
    PROVE  Legal(x, [x EXCEPT !.idle = idle])
  <1>. DEFINE y == [x EXCEPT !.idle = idle]
  <1>1. y \in SessionObject
    BY DEF SessionInv, SessionObject
  <1>2. /\ y.status = x.status /\ y.retryable = x.retryable /\ y.cur = x.cur
        /\ y.old = x.old /\ y.requests = x.requests /\ y.runs = x.runs /\ y.mac = x.mac
    BY DEF SessionInv, SessionObject
  <1>3. Legal(x, y)
    <2>. HIDE DEF y
    <2>. QED
      BY <1>1, <1>2, LegalFrame DEF SessionInv
  <1>. QED
    BY <1>3

-----------------------------------------------------------------------------
(* All sessions, all threads and the remaining variables *)

SessionsInv ==
    /\ sess \in [Sessions -> SessionObject]
    /\ \A s \in Sessions : SessionInv(sess[s])

\* Before the first attempt: the readiness phase.
Early(t) ==
    \/ t.pc \in {"started", "initialDelay", "ready", "poll"}
    \/ t.pc \in {"lookup", "read", "handle"} /\ t.phase = "readiness"

\* The attempt counter starts at zero and an attempt begins only below MAX_AUTH_ATTEMPTS.
ThreadInv(t) ==
    /\ t \in Thread
    /\ Early(t) => t.attempt = 0
    /\ t.pc = "attempt" => t.attempt < MaxAttempts

ThreadsInv ==
    /\ wk \in [Sessions -> [RunNos -> Thread]]
    /\ \A s \in Sessions, n \in RunNos : ThreadInv(wk[s][n])

RestType ==
    /\ byId \in SUBSET Sessions
    /\ byKey \in [Keys -> Sessions \union {NoSession}]
    /\ queue \in Seq(Sessions \X RunNos)
    /\ accepting \in BOOLEAN
    /\ omada \in [Macs -> BOOLEAN]
    /\ runFinished \in [Sessions -> SUBSET RunNos]
    /\ sessionFinished \in [Sessions -> Statuses \union {"none"}]
    /\ visits \in SUBSET (Sessions \X RunNos)

IInv == SessionsInv /\ ThreadsInv /\ RestType

\* Every session makes a legal step.
SessionsStep ==
    /\ sess' \in [Sessions -> SessionObject]
    /\ \A s \in Sessions : Legal(sess[s], sess'[s])

\* What is shown of every action.
GoodStep == SessionsStep /\ ThreadsInv' /\ RestType'

LEMMA NoSessionMoves ==
    ASSUME SessionsInv, sess' = sess
    PROVE  SessionsStep
  BY LegalStay DEF SessionsInv, SessionsStep

LEMMA OneSessionMoves ==
    ASSUME SessionsInv, NEW s \in Sessions, NEW y, Legal(sess[s], y), sess' = [sess EXCEPT ![s] = y]
    PROVE  SessionsStep
  <1>1. y \in SessionObject
    BY DEF Legal, SessionInv
  <1>2. sess' \in [Sessions -> SessionObject]
    BY <1>1 DEF SessionsInv
  <1>3. ASSUME NEW t \in Sessions PROVE Legal(sess[t], sess'[t])
    <2>1. CASE t = s
      BY <2>1 DEF SessionsInv
    <2>2. CASE t # s
      BY <2>2, LegalStay DEF SessionsInv
    <2>. QED
      BY <2>1, <2>2
  <1>. QED
    BY <1>2, <1>3 DEF SessionsStep

LEMMA ExpiredLegal ==
    ASSUME SessionsInv
    PROVE  /\ Expired \in [Sessions -> SessionObject]
           /\ \A s \in Sessions : Legal(sess[s], Expired[s])
  <1>1. ASSUME NEW s \in Sessions PROVE Legal(sess[s], Expired[s])
    <2>1. SessionInv(sess[s])
      BY DEF SessionsInv
    <2>2. CASE s \in byId /\ sess[s].old
      <3>1. Expired[s] = ExpireLocked(sess[s])
        BY <2>2 DEF Expired
      <3>. QED
        BY <2>1, <2>2, <3>1, ExpireLockedLegal
    <2>3. CASE ~(s \in byId /\ sess[s].old)
      <3>1. Expired[s] = sess[s]
        BY <2>3 DEF Expired
      <3>. QED
        BY <2>1, <3>1, LegalStay
    <2>. QED
      BY <2>2, <2>3
  <1>2. \A s \in Sessions : Expired[s] \in SessionObject
    BY <1>1 DEF Legal, SessionInv
  <1>3. Expired = [s \in Sessions |-> Expired[s]]
    BY DEF Expired
  <1>4. Expired \in [Sessions -> SessionObject]
    <2>. HIDE DEF Expired
    <2>. QED
      BY <1>2, <1>3
  <1>. QED
    BY <1>1, <1>4

LEMMA RunMatchesWritable ==
    ASSUME SessionsInv, NEW s \in Sessions, NEW n \in RunNos, RunMatches(s, n)
    PROVE  SessionInv(sess[s]) /\ Writable(sess[s], n) /\ IsActive(sess[s])
  <1>1. SessionInv(sess[s]) /\ Writable(sess[s], n)
    BY DEF SessionsInv, RunMatches, Writable
  <1>. QED
    BY <1>1, WritableIsActive

LEMMA OneThreadMoves ==
    ASSUME ThreadsInv, NEW s \in Sessions, NEW n \in RunNos, NEW t, ThreadInv(t),
           wk' = [wk EXCEPT ![s][n] = t]
    PROVE  ThreadsInv'
  <1>1. t \in Thread
    BY DEF ThreadInv
  <1>2. wk' \in [Sessions -> [RunNos -> Thread]]
    BY <1>1 DEF ThreadsInv
  <1>3. ASSUME NEW u \in Sessions, NEW k \in RunNos PROVE ThreadInv(wk'[u][k])
    <2>1. CASE u = s /\ k = n
      BY <2>1 DEF ThreadsInv
    <2>2. CASE ~(u = s /\ k = n)
      <3>1. wk'[u][k] = wk[u][k]
        BY <2>2 DEF ThreadsInv
      <3>. QED
        BY <3>1 DEF ThreadsInv
    <2>. QED
      BY <2>1, <2>2
  <1>. QED
    BY <1>2, <1>3 DEF ThreadsInv

\* A thread record with another pc.
LEMMA ThreadGoto ==
    ASSUME NEW t, ThreadInv(t), NEW pc \in Pcs,
           pc \in {"started", "initialDelay", "ready", "poll"} => t.attempt = 0,
           pc \in {"lookup", "read", "handle"} /\ t.phase = "readiness" => t.attempt = 0,
           pc = "attempt" => t.attempt < MaxAttempts
    PROVE  ThreadInv([t EXCEPT !.pc = pc])
  BY DEF ThreadInv, Thread, Early

LEMMA GotoInv ==
    ASSUME ThreadsInv, NEW s \in Sessions, NEW n \in RunNos, NEW pc \in Pcs, Goto(s, n, pc),
           pc \in {"started", "initialDelay", "ready", "poll"} => wk[s][n].attempt = 0,
           pc \in {"lookup", "read", "handle"} /\ wk[s][n].phase = "readiness" => wk[s][n].attempt = 0,
           pc = "attempt" => wk[s][n].attempt < MaxAttempts
    PROVE  ThreadsInv'
  <1>1. ThreadInv(wk[s][n])
    BY DEF ThreadsInv
  <1>2. ThreadInv([wk[s][n] EXCEPT !.pc = pc])
    BY <1>1, ThreadGoto
  <1>3. wk' = [wk EXCEPT ![s][n] = [wk[s][n] EXCEPT !.pc = pc]]
    BY DEF Goto
  <1>. QED
    BY <1>2, <1>3, OneThreadMoves

\* A thread record reset to its initial locals.
LEMMA FreshThread ==
    ASSUME NEW pc \in Pcs \ {"attempt"}
    PROVE  ThreadInv([NoThread EXCEPT !.pc = pc])
  BY MaxAttemptsAssumption DEF ThreadInv, Thread, Early, NoThread, Phases, Failures, Replies

LEMMA QuitInv ==
    ASSUME ThreadsInv, NEW s \in Sessions, NEW n \in RunNos, Quit(s, n)
    PROVE  ThreadsInv'
  <1>1. "finally" \in Pcs \ {"attempt"}
    BY DEF Pcs, TailPcs
  <1>2. ThreadInv([NoThread EXCEPT !.pc = "finally"])
    BY <1>1, FreshThread
  <1>. QED
    BY <1>2, OneThreadMoves DEF Quit

LEMMA ReadFromInv ==
    ASSUME ThreadsInv, NEW s \in Sessions, NEW n \in RunNos, NEW phase \in Phases,
           ReadFrom(s, n, phase), phase = "readiness" => wk[s][n].attempt = 0
    PROVE  ThreadsInv'
  <1>. DEFINE pc == IF sess[s].mac = NoMac THEN "lookup" ELSE "read"
              t  == [wk[s][n] EXCEPT !.phase = phase, !.pc = pc]
  <1>1. ThreadInv(wk[s][n])
    BY DEF ThreadsInv
  <1>2. pc \in Pcs /\ pc # "attempt" /\ pc \notin {"started", "initialDelay", "ready", "poll"}
    BY DEF Pcs, CallPcs
  <1>3. ThreadInv(t)
    <2>. HIDE DEF pc
    <2>. QED
      BY <1>1, <1>2 DEF ThreadInv, Thread, Early
  <1>4. wk' = [wk EXCEPT ![s][n] = t]
    BY DEF ReadFrom, ThreadsInv
  <1>. QED
    BY <1>3, <1>4, OneThreadMoves

LEMMA ReplyInv ==
    ASSUME ThreadsInv, NEW s \in Sessions, NEW n \in RunNos, NEW reply \in Replies,
           NEW pc \in Pcs \ {"attempt", "started", "initialDelay", "ready", "poll"},
           pc \in {"lookup", "read", "handle"} /\ wk[s][n].phase = "readiness" => wk[s][n].attempt = 0,
           wk' = [wk EXCEPT ![s][n].pc = pc, ![s][n].reply = reply]
    PROVE  ThreadsInv'
  <1>. DEFINE t == [wk[s][n] EXCEPT !.pc = pc, !.reply = reply]
  <1>1. ThreadInv(wk[s][n])
    BY DEF ThreadsInv
  <1>2. ThreadInv(t)
    BY <1>1 DEF ThreadInv, Thread, Early
  <1>3. wk' = [wk EXCEPT ![s][n] = t]
    BY DEF ThreadsInv
  <1>. QED
    BY <1>2, <1>3, OneThreadMoves

LEMMA ClassifyType ==
    ASSUME NEW reply, NEW last \in Failures
    PROVE  ClassifyFailure(reply, last) \in Failures
  BY DEF ClassifyFailure, Failures

\* Consuming a reply.
LEMMA NoteReplyInv ==
    ASSUME NEW t, ThreadInv(t), NEW pc \in Pcs,
           pc \notin {"started", "initialDelay", "ready", "lookup", "read", "handle"},
           pc = "poll" => t.attempt = 0,
           pc = "attempt" => t.attempt < MaxAttempts
    PROVE  ThreadInv(NoteReply(t, pc))
  <1>1. ClassifyFailure(t.reply, t.lastFailure) \in Failures
    BY ClassifyType DEF ThreadInv, Thread
  <1>2. "readiness" \in Phases /\ "none" \in Replies
    BY DEF Phases, Replies
  <1>. QED
    BY <1>1, <1>2 DEF NoteReply, ThreadInv, Thread, Early

LEMMA HandleOtherInv ==
    ASSUME IInv, NEW s \in Sessions, NEW n \in RunNos, NEW phase, NEW pc \in Pcs,
           HandleOther(s, n, phase, pc),
           pc \notin {"started", "initialDelay", "ready", "lookup", "read", "handle"},
           pc = "poll" => wk[s][n].attempt = 0,
           pc = "attempt" => wk[s][n].attempt < MaxAttempts
    PROVE  ThreadsInv' /\ RestType'
  <1>1. ThreadInv(wk[s][n])
    BY DEF IInv, ThreadsInv
  <1>2. ThreadInv(NoteReply(wk[s][n], pc))
    BY <1>1, NoteReplyInv
  <1>3. wk' = [wk EXCEPT ![s][n] = NoteReply(wk[s][n], pc)]
    BY DEF HandleOther
  <1>4. ThreadsInv'
    BY <1>2, <1>3, OneThreadMoves DEF IInv
  <1>5. RestType'
    BY DEF HandleOther, IInv, RestType
  <1>. QED
    BY <1>4, <1>5

-----------------------------------------------------------------------------
(* Every action is a good step *)

LEMMA DetachType ==
    ASSUME NEW keys \in [Keys -> Sessions \union {NoSession}], NEW gone
    PROVE  Detach(keys, gone) \in [Keys -> Sessions \union {NoSession}]
  BY DEF Detach

LEMMA CleanupGood ==
    ASSUME IInv, sess' = Expired, byId' = byId \ Retired, byKey' = Detach(byKey, Retired),
           UNCHANGED <<wk, queue, accepting, omada, runFinished, sessionFinished, visits>>
    PROVE  GoodStep
  <1>1. SessionsStep
    BY ExpiredLegal DEF IInv, SessionsStep
  <1>2. ThreadsInv'
    BY DEF IInv, ThreadsInv
  <1>3. byKey' \in [Keys -> Sessions \union {NoSession}]
    BY DetachType DEF IInv, RestType
  <1>4. RestType'
    BY <1>3 DEF IInv, RestType
  <1>. QED
    BY <1>1, <1>2, <1>4 DEF GoodStep

LEMMA CreateSessionGood ==
    ASSUME IInv, NEW c \in Contexts, NEW s \in Sessions, CreateSession(c, s)
    PROVE  GoodStep
  <1>. DEFINE y == CreateRun(NewSession(c), 1)
              keys == Detach(byKey, Retired \union {Existing(c)})
  <1>1. SessionsInv /\ SessionInv(sess[s])
    BY DEF IInv, SessionsInv
  <1>2. sess[s].cur = 0 /\ sess' = [Expired EXCEPT ![s] = y]
    BY DEF CreateSession
  <1>3. Legal(sess[s], y)
    BY <1>1, <1>2, CreateFirstLegal
  <1>4. Expired \in [Sessions -> SessionObject] /\ \A t \in Sessions : Legal(sess[t], Expired[t])
    BY <1>1, ExpiredLegal
  <1>5. SessionsStep
    <2>. HIDE DEF y
    <2>1. y \in SessionObject
      BY <1>3 DEF Legal, SessionInv
    <2>. QED
      BY <1>2, <1>3, <1>4, <2>1 DEF SessionsStep
  <1>6. "created" \in Pcs \ {"attempt"}
    BY DEF Pcs, WebPcs
  <1>7. ThreadInv([NoThread EXCEPT !.pc = "created"])
    BY <1>6, FreshThread
  <1>8. ThreadsInv'
    BY <1>7, OneThreadMoves, Values DEF CreateSession, IInv
  <1>9. keys \in [Keys -> Sessions \union {NoSession}]
    BY DetachType DEF IInv, RestType
  <1>10. byKey' = [k \in Keys |-> IF k = SessionKey(c.mac, c.ip) \/ (c.ip # NoIp /\ k = <<"ip", c.ip>>)
                                  THEN s ELSE keys[k]]
    BY DEF CreateSession
  <1>11. byKey' \in [Keys -> Sessions \union {NoSession}]
    <2>. HIDE DEF keys
    <2>. QED
      BY <1>9, <1>10
  <1>12. byId' \in SUBSET Sessions
    BY DEF CreateSession, IInv, RestType
  <1>13. RestType'
    BY <1>11, <1>12 DEF CreateSession, IInv, RestType
  <1>. QED
    BY <1>5, <1>8, <1>13 DEF GoodStep

LEMMA EmitSessionFinishedType ==
    ASSUME RestType, NEW s \in Sessions, NEW final \in Statuses, EmitSessionFinished(s, final)
    PROVE  sessionFinished' \in [Sessions -> Statuses \union {"none"}]
  BY DEF EmitSessionFinished, RestType

\* The status poll and a retry of an overdue session.
LEMMA ExpiryByWebGood ==
    ASSUME IInv, NEW s \in Sessions, sess[s].old, sess' = [sess EXCEPT ![s] = ExpireLocked(@)],
           EmitSessionFinished(s, "EXPIRED"),
           UNCHANGED <<byId, byKey, wk, queue, accepting, omada, runFinished, visits>>
    PROVE  GoodStep
  <1>1. SessionInv(sess[s])
    BY DEF IInv, SessionsInv
  <1>2. Legal(sess[s], ExpireLocked(sess[s]))
    BY <1>1, ExpireLockedLegal
  <1>3. SessionsStep
    BY <1>2, OneSessionMoves DEF IInv
  <1>4. ThreadsInv'
    BY DEF IInv, ThreadsInv
  <1>5. "EXPIRED" \in Statuses
    BY DEF Statuses, FinalStatuses
  <1>6. sessionFinished' \in [Sessions -> Statuses \union {"none"}]
    BY <1>5, EmitSessionFinishedType DEF IInv
  <1>7. RestType'
    BY <1>6 DEF IInv, RestType
  <1>. QED
    BY <1>3, <1>4, <1>7 DEF GoodStep

LEMMA RetryWhileActiveGood ==
    ASSUME IInv, NEW s \in Sessions, NEW q \in RequestIds, RetryWhileActive(s, q)
    PROVE  GoodStep
  <1>1. SessionInv(sess[s]) /\ sess[s].requests[q] = 0
    BY DEF IInv, SessionsInv, RetryWhileActive
  <1>2. Legal(sess[s], BindRequest(sess[s], q, sess[s].cur))
    BY <1>1, BindRequestLegal
  <1>3. SessionsStep
    BY <1>2, OneSessionMoves DEF IInv, RetryWhileActive
  <1>4. ThreadsInv' /\ RestType'
    BY DEF RetryWhileActive, IInv, ThreadsInv, RestType
  <1>. QED
    BY <1>3, <1>4 DEF GoodStep

LEMMA RetryCreatesRunGood ==
    ASSUME IInv, NEW s \in Sessions, NEW q \in RequestIds, RetryCreatesRun(s, q)
    PROVE  GoodStep
  <1>1. /\ SessionInv(sess[s]) /\ sess[s].requests[q] = 0 /\ CanRetry(sess[s])
        /\ sess[s].cur + 1 \in RunNos
    BY DEF IInv, SessionsInv, RetryCreatesRun
  <1>2. Legal(sess[s], BindRequest(CreateRun(sess[s], sess[s].cur + 1), q, sess[s].cur + 1))
    BY <1>1, CreateRetryLegal
  <1>3. SessionsStep
    BY <1>2, OneSessionMoves DEF IInv, RetryCreatesRun
  <1>4. "created" \in Pcs \ {"attempt"}
    BY DEF Pcs, WebPcs
  <1>5. ThreadInv([NoThread EXCEPT !.pc = "created"])
    BY <1>4, FreshThread
  <1>6. ThreadsInv'
    BY <1>1, <1>5, OneThreadMoves DEF RetryCreatesRun, IInv
  <1>7. RestType'
    BY DEF RetryCreatesRun, IInv, RestType
  <1>. QED
    BY <1>3, <1>6, <1>7 DEF GoodStep

LEMMA TimeGood ==
    ASSUME IInv, NEW s \in Sessions, GrowOld(s) \/ GrowIdle(s)
    PROVE  GoodStep
  <1>1. SessionInv(sess[s])
    BY DEF IInv, SessionsInv
  <1>2. CASE GrowOld(s)
    <2>1. Legal(sess[s], [sess[s] EXCEPT !.old = TRUE])
      BY <1>1, <1>2, GrowOldLegal DEF GrowOld
    <2>2. sess' = [sess EXCEPT ![s] = [sess[s] EXCEPT !.old = TRUE]]
      BY <1>2 DEF GrowOld
    <2>3. SessionsStep
      BY <2>1, <2>2, OneSessionMoves DEF IInv
    <2>. QED
      BY <1>2, <2>3 DEF GrowOld, GoodStep, IInv, ThreadsInv, RestType
  <1>3. CASE GrowIdle(s)
    <2>1. PICK i \in Idle : sess' = [sess EXCEPT ![s].idle = i]
      BY <1>3 DEF GrowIdle, Idle
    <2>2. Legal(sess[s], [sess[s] EXCEPT !.idle = i])
      BY <1>1, GrowIdleLegal
    <2>3. sess' = [sess EXCEPT ![s] = [sess[s] EXCEPT !.idle = i]]
      BY <2>1
    <2>4. SessionsStep
      BY <2>2, <2>3, OneSessionMoves DEF IInv
    <2>. QED
      BY <1>3, <2>4 DEF GrowIdle, GoodStep, IInv, ThreadsInv, RestType
  <1>. QED
    BY <1>2, <1>3

\* pcs from which neither the attempt counter nor the readiness phase matters.
LEMMA PlainPcs ==
    {"claimed", "refused", "queued", "rejected", "refusedMark", "rejectedMark", "refusedEmit",
     "rejectedEmit", "emit", "done", "submit", "finally"}
      \subseteq Pcs \ {"started", "initialDelay", "ready", "poll", "lookup", "read", "handle", "attempt"}
  BY DEF Pcs, WebPcs, TailPcs

LEMMA PlainGoto ==
    ASSUME ThreadsInv, NEW s \in Sessions, NEW n \in RunNos,
           NEW pc \in {"claimed", "refused", "queued", "rejected", "refusedMark", "rejectedMark",
                       "refusedEmit", "rejectedEmit", "emit", "done", "submit", "finally"},
           Goto(s, n, pc)
    PROVE  ThreadsInv'
  BY PlainPcs, GotoInv

LEMMA StartStepGood ==
    ASSUME IInv, NEW s \in Sessions, NEW n \in RunNos, StartStep(s, n)
    PROVE  GoodStep
  <1>1. SessionsInv /\ SessionInv(sess[s]) /\ ThreadsInv /\ RestType
    BY DEF IInv, SessionsInv
  <1>2. CASE ClaimWorker(s, n)
    <2>1. RestType'
      BY <1>1, <1>2 DEF ClaimWorker, RestType
    <2>2. ThreadsInv'
      BY <1>1, <1>2, PlainGoto DEF ClaimWorker
    <2>3. Legal(sess[s], ClaimRun(sess[s], n))
      BY <1>1, ClaimRunLegal
    <2>4. sess' = [sess EXCEPT ![s] = ClaimRun(sess[s], n)] \/ sess' = sess
      BY <1>2 DEF ClaimWorker
    <2>5. SessionsStep
      BY <1>1, <2>3, <2>4, OneSessionMoves, NoSessionMoves
    <2>. QED
      BY <2>1, <2>2, <2>5 DEF GoodStep
  <1>3. CASE SubmitWorker(s, n)
    <2>1. <<s, n>> \in Sessions \X RunNos
      OBVIOUS
    <2>2. queue' \in Seq(Sessions \X RunNos)
      <3>. DEFINE runs == Sessions \X RunNos
                  e == <<s, n>>
      <3>1. queue' = Append(queue, e) \/ queue' = queue
        BY <1>3 DEF SubmitWorker
      <3>2. queue \in Seq(runs) /\ e \in runs
        BY <1>1, <2>1 DEF RestType
      <3>3. queue' \in Seq(runs)
        <4>. HIDE DEF runs, e
        <4>. QED
          BY <3>1, <3>2
      <3>. QED
        BY <3>3
    <2>3. RestType'
      BY <1>1, <1>3, <2>2 DEF SubmitWorker, RestType
    <2>4. ThreadsInv'
      BY <1>1, <1>3, PlainGoto DEF SubmitWorker
    <2>5. SessionsStep
      BY <1>1, <1>3, NoSessionMoves DEF SubmitWorker
    <2>. QED
      BY <2>3, <2>4, <2>5 DEF GoodStep
  <1>4. CASE FailStart(s, n)
    <2>1. RestType'
      BY <1>1, <1>4 DEF FailStart, RestType
    <2>2. ThreadsInv'
      BY <1>1, <1>4, PlainGoto DEF FailStart
    <2>3. CASE RunMatches(s, n)
      <3>1. At(s, n, "rejected") \in BOOLEAN /\ "FAILED" \in FinalStatuses
        BY DEF At, FinalStatuses
      <3>2. Legal(sess[s], FinishRun(sess[s], n, "FAILED", At(s, n, "rejected")))
        BY <1>1, <2>3, <3>1, RunMatchesWritable, FinishRunLegal
      <3>3. sess' = [sess EXCEPT ![s] = FinishRun(sess[s], n, "FAILED", At(s, n, "rejected"))]
        BY <1>4, <2>3 DEF FailStart
      <3>. QED
        BY <1>1, <2>1, <2>2, <3>2, <3>3, OneSessionMoves DEF GoodStep
    <2>4. CASE ~RunMatches(s, n)
      BY <1>1, <1>4, <2>1, <2>2, <2>4, NoSessionMoves DEF FailStart, GoodStep
    <2>. QED
      BY <2>3, <2>4
  <1>5. CASE EmitStartFailure(s, n)
    <2>1. sess[s].status \in Statuses
      BY <1>1 DEF SessionInv, SessionObject
    <2>2. sessionFinished' \in [Sessions -> Statuses \union {"none"}]
      <3>1. CASE At(s, n, "refusedEmit")
        BY <1>1, <1>5, <2>1, <3>1, EmitSessionFinishedType DEF EmitStartFailure
      <3>2. CASE ~At(s, n, "refusedEmit")
        BY <1>1, <1>5, <3>2 DEF EmitStartFailure, RestType
      <3>. QED
        BY <3>1, <3>2
    <2>3. RestType'
      BY <1>1, <1>5, <2>2 DEF EmitStartFailure, EmitRunFinished, RestType
    <2>4. ThreadsInv'
      BY <1>1, <1>5, PlainGoto DEF EmitStartFailure
    <2>5. SessionsStep
      BY <1>1, <1>5, NoSessionMoves DEF EmitStartFailure
    <2>. QED
      BY <2>3, <2>4, <2>5 DEF GoodStep
  <1>. QED
    BY <1>2, <1>3, <1>4, <1>5 DEF StartStep

LEMMA MarkFinishedGood ==
    ASSUME IInv, NEW s \in Sessions, NEW n \in RunNos, MarkFinished(s, n)
    PROVE  GoodStep
  <1>1. SessionsInv /\ SessionInv(sess[s]) /\ ThreadsInv /\ RestType
    BY DEF IInv, SessionsInv
  <1>2. RestType'
    BY <1>1 DEF MarkFinished, RestType
  <1>3. ThreadsInv'
    BY <1>1, PlainGoto DEF MarkFinished
  <1>4. Legal(sess[s], MarkWorkerFinished(sess[s], n))
    BY <1>1, MarkWorkerFinishedLegal
  <1>5. SessionsStep
    BY <1>1, <1>4, OneSessionMoves, NoSessionMoves DEF MarkFinished
  <1>. QED
    BY <1>2, <1>3, <1>5 DEF GoodStep

LEMMA StartWorkerGood ==
    ASSUME IInv, StartWorker
    PROVE  GoodStep
  <1>. DEFINE s == Head(queue)[1]
              n == Head(queue)[2]
              pc == IF RunMatches(s, n) THEN "started" ELSE "lost"
  <1>1. Head(queue) \in Sessions \X RunNos /\ Tail(queue) \in Seq(Sessions \X RunNos)
    BY DEF StartWorker, IInv, RestType
  <1>2. s \in Sessions /\ n \in RunNos
    BY <1>1
  <1>3. pc \in Pcs \ {"attempt"}
    BY DEF Pcs, CallPcs
  <1>4. ThreadInv([NoThread EXCEPT !.pc = pc])
    BY <1>3, FreshThread
  <1>5. wk' = [wk EXCEPT ![s][n] = [NoThread EXCEPT !.pc = pc]]
    BY DEF StartWorker
  <1>6. ThreadsInv'
    <2>. HIDE DEF s, n, pc
    <2>. QED
      BY <1>2, <1>4, <1>5, OneThreadMoves DEF IInv
  <1>7. SessionsStep
    BY NoSessionMoves DEF StartWorker, IInv
  <1>8. RestType'
    BY <1>1 DEF StartWorker, IInv, RestType
  <1>. QED
    BY <1>6, <1>7, <1>8 DEF GoodStep

LEMMA ShutdownGood ==
    ASSUME IInv, Shutdown
    PROVE  GoodStep
  <1>1. SessionsStep
    BY NoSessionMoves DEF Shutdown, IInv
  <1>2. ThreadsInv' /\ RestType'
    BY DEF Shutdown, IInv, ThreadsInv, RestType
  <1>. QED
    BY <1>1, <1>2 DEF GoodStep

-----------------------------------------------------------------------------
(* The steps of AuthWorker.process *)

\* The guarded writes of a worker, one lemma for each shape.
LEMMA TouchStep ==
    ASSUME SessionsInv, NEW s \in Sessions, sess' = [sess EXCEPT ![s] = UpdateActivity(@)]
    PROVE  SessionsStep
  <1>1. Legal(sess[s], UpdateActivity(sess[s]))
    BY UpdateActivityLegal DEF SessionsInv
  <1>. QED
    BY <1>1, OneSessionMoves

LEMMA StatusStep ==
    ASSUME SessionsInv, NEW s \in Sessions, NEW n \in RunNos, RunMatches(s, n),
           NEW status \in {"WAITING", "AUTHORIZING", "VERIFYING", "RESETTING"},
           sess' = [sess EXCEPT ![s] = UpdateStatus(@, status)]
    PROVE  SessionsStep
  <1>1. status \in ActiveStatuses
    BY DEF ActiveStatuses
  <1>2. Legal(sess[s], UpdateStatus(sess[s], status))
    BY <1>1, RunMatchesWritable, UpdateStatusLegal
  <1>. QED
    BY <1>2, OneSessionMoves

LEMMA FinishStep ==
    ASSUME SessionsInv, NEW s \in Sessions, NEW n \in RunNos, RunMatches(s, n),
           NEW final \in {"AUTHORIZED", "FAILED", "EXPIRED"}, NEW retryable \in BOOLEAN,
           final = "EXPIRED" => sess[s].old /\ ~retryable,
           sess' = [sess EXCEPT ![s] = FinishRun(@, n, final, retryable)]
    PROVE  SessionsStep
  <1>1. final \in FinalStatuses
    BY DEF FinalStatuses
  <1>2. SessionInv(sess[s]) /\ Writable(sess[s], n)
    BY RunMatchesWritable
  <1>3. Legal(sess[s], FinishRun(sess[s], n, final, retryable))
    BY <1>1, <1>2, FinishRunLegal
  <1>. QED
    BY <1>3, OneSessionMoves

\* Steps that leave all sessions alone.
LEMMA ReadingStepGood ==
    ASSUME IInv, NEW s \in Sessions, NEW n \in RunNos,
           \/ StaleWorker(s, n) \/ CheckReady(s, n) \/ LookupFails(s, n) \/ ReadClient(s, n)
           \/ CallAuthorize(s, n) \/ CallUnauthorize(s, n) \/ SubmitAuthorized(s, n)
           \/ EmitFinished(s, n)
    PROVE  GoodStep
  <1>1. SessionsInv /\ SessionInv(sess[s]) /\ ThreadsInv /\ RestType /\ ThreadInv(wk[s][n])
    BY DEF IInv, SessionsInv, ThreadsInv
  <1>2. sess' = sess
    BY DEF StaleWorker, CheckReady, LookupFails, ReadClient, CallAuthorize, CallUnauthorize,
           SubmitAuthorized, EmitFinished
  <1>3. SessionsStep
    BY <1>1, <1>2, NoSessionMoves
  <1>4. \A pc \in {"handle", "authReply", "resetReply"} :
            pc \in Pcs \ {"attempt", "started", "initialDelay", "ready", "poll"}
    BY DEF Pcs, CallPcs
  <1>5. ControllerFailures \subseteq Replies /\ {"ok", "authorized", "active", "inactive", "notFound", "fatal"} \subseteq Replies
    BY FailuresAssumption DEF Replies
  <1>6. CASE StaleWorker(s, n)
    <2>1. ThreadsInv'
      BY <1>1, <1>6, QuitInv DEF StaleWorker
    <2>. QED
      BY <1>1, <1>3, <1>6, <2>1 DEF GoodStep, StaleWorker, RestType
  <1>7. CASE CheckReady(s, n)
    <2>1. wk[s][n].attempt = 0 /\ "readiness" \in Phases
      BY <1>1, <1>7 DEF CheckReady, At, ThreadInv, Early, Phases
    <2>2. ThreadsInv'
      BY <1>1, <1>7, <2>1, ReadFromInv DEF CheckReady
    <2>. QED
      BY <1>1, <1>3, <1>7, <2>2 DEF GoodStep, CheckReady, RestType
  <1>8. CASE LookupFails(s, n)
    <2>1. PICK r \in Replies : wk' = [wk EXCEPT ![s][n].pc = "handle", ![s][n].reply = r]
      BY <1>5, <1>8 DEF LookupFails, ReadFailures
    <2>2. wk[s][n].phase = "readiness" => wk[s][n].attempt = 0
      BY <1>1, <1>8 DEF LookupFails, At, ThreadInv, Early
    <2>3. ThreadsInv'
      BY <1>1, <1>4, <2>1, <2>2, ReplyInv
    <2>. QED
      BY <1>1, <1>3, <1>8, <2>3 DEF GoodStep, LookupFails, RestType
  <1>9. CASE ReadClient(s, n)
    <2>1. PICK r \in Replies : wk' = [wk EXCEPT ![s][n].pc = "handle", ![s][n].reply = r]
      BY <1>5, <1>9 DEF ReadClient, ReadFailures
    <2>2. wk[s][n].phase = "readiness" => wk[s][n].attempt = 0
      BY <1>1, <1>9 DEF ReadClient, At, ThreadInv, Early
    <2>3. ThreadsInv'
      BY <1>1, <1>4, <2>1, <2>2, ReplyInv
    <2>. QED
      BY <1>1, <1>3, <1>9, <2>3 DEF GoodStep, ReadClient, RestType
  <1>10. CASE CallAuthorize(s, n)
    <2>1. PICK r \in Replies : wk' = [wk EXCEPT ![s][n].pc = "authReply", ![s][n].reply = r]
      BY <1>5, <1>10 DEF CallAuthorize
    <2>2. ThreadsInv'
      <3>1. "authReply" \notin {"lookup", "read", "handle"}
        OBVIOUS
      <3>. QED
        BY <1>1, <1>4, <2>1, <3>1, ReplyInv
    <2>3. omada' \in [Macs -> BOOLEAN]
      BY <1>1, <1>10 DEF CallAuthorize, RestType
    <2>. QED
      BY <1>1, <1>3, <1>10, <2>2, <2>3 DEF GoodStep, CallAuthorize, RestType
  <1>11. CASE CallUnauthorize(s, n)
    <2>1. PICK r \in Replies : wk' = [wk EXCEPT ![s][n].pc = "resetReply", ![s][n].reply = r]
      BY <1>5, <1>11 DEF CallUnauthorize
    <2>2. ThreadsInv'
      <3>1. "resetReply" \notin {"lookup", "read", "handle"}
        OBVIOUS
      <3>. QED
        BY <1>1, <1>4, <2>1, <3>1, ReplyInv
    <2>3. omada' \in [Macs -> BOOLEAN]
      BY <1>1, <1>11 DEF CallUnauthorize, RestType
    <2>. QED
      BY <1>1, <1>3, <1>11, <2>2, <2>3 DEF GoodStep, CallUnauthorize, RestType
  <1>12. CASE SubmitAuthorized(s, n)
    <2>1. ThreadsInv'
      BY <1>1, <1>12, PlainGoto DEF SubmitAuthorized
    <2>2. visits' \in SUBSET (Sessions \X RunNos)
      BY <1>1, <1>12 DEF SubmitAuthorized, RestType
    <2>. QED
      BY <1>1, <1>3, <1>12, <2>1, <2>2 DEF GoodStep, SubmitAuthorized, RestType
  <1>13. CASE EmitFinished(s, n)
    <2>1. ThreadsInv'
      BY <1>1, <1>13, PlainGoto DEF EmitFinished
    <2>2. sess[s].runs[n].final # "open" => sess[s].runs[n].final \in Statuses
      BY <1>1 DEF SessionInv, SessionObject, AuthRun, Statuses
    <2>3. runFinished' \in [Sessions -> SUBSET RunNos]
      BY <1>1, <1>13 DEF EmitFinished, EmitRunFinished, RestType
    <2>4. sessionFinished' \in [Sessions -> Statuses \union {"none"}]
      <3>1. CASE sessionFinished' = sessionFinished
        BY <1>1, <3>1 DEF RestType
      <3>2. CASE sessionFinished' # sessionFinished
        <4>1. EmitSessionFinished(s, sess[s].runs[n].final) /\ sess[s].runs[n].final # "open"
          BY <1>13, <3>2 DEF EmitFinished
        <4>. QED
          BY <1>1, <2>2, <4>1, EmitSessionFinishedType
      <3>. QED
        BY <3>1, <3>2
    <2>. QED
      BY <1>1, <1>3, <1>13, <2>1, <2>3, <2>4 DEF GoodStep, EmitFinished, RestType
  <1>. QED
    BY <1>6, <1>7, <1>8, <1>9, <1>10, <1>11, <1>12, <1>13

LEMMA WaitingStepGood ==
    ASSUME IInv, NEW s \in Sessions, NEW n \in RunNos,
           \/ BeginWaiting(s, n) \/ SleepDone(s, n) \/ SleepExpired(s, n) \/ ExpireIfNeeded(s, n)
           \/ \E m \in Macs : ResolveMac(s, n, m)
    PROVE  GoodStep
  <1>1. SessionsInv /\ SessionInv(sess[s]) /\ ThreadsInv /\ RestType /\ ThreadInv(wk[s][n])
    BY DEF IInv, SessionsInv, ThreadsInv
  <1>2. {"initialDelay", "ready", "read"} \subseteq Pcs /\ "verify" \in Phases
    BY DEF Pcs, CallPcs, Phases
  <1>3. CASE BeginWaiting(s, n)
    <2>1. wk[s][n].attempt = 0
      BY <1>1, <1>3 DEF BeginWaiting, At, ThreadInv, Early
    <2>2. ThreadsInv'
      BY <1>1, <1>2, <1>3, <2>1, GotoInv DEF BeginWaiting
    <2>3. SessionsStep
      BY <1>1, <1>3, StatusStep DEF BeginWaiting
    <2>. QED
      BY <1>1, <1>3, <2>2, <2>3 DEF GoodStep, BeginWaiting, RestType
  <1>4. CASE SleepDone(s, n)
    <2>1. SessionsStep
      BY <1>1, <1>4, TouchStep DEF SleepDone
    <2>2. CASE (At(s, n, "initialDelay") \/ At(s, n, "poll")) /\ Goto(s, n, "ready")
      <3>1. wk[s][n].attempt = 0
        BY <1>1, <2>2 DEF At, ThreadInv, Early
      <3>. QED
        BY <1>1, <1>2, <1>4, <2>1, <2>2, <3>1, GotoInv DEF GoodStep, SleepDone, RestType
    <2>3. CASE ReadFrom(s, n, "verify")
      <3>1. ThreadsInv'
        BY <1>1, <1>2, <2>3, ReadFromInv
      <3>. QED
        BY <1>1, <1>4, <2>1, <3>1 DEF GoodStep, SleepDone, RestType
    <2>. QED
      BY <1>4, <2>2, <2>3 DEF SleepDone
  <1>5. CASE SleepExpired(s, n)
    <2>1. SessionsStep
      BY <1>1, <1>5, FinishStep DEF SleepExpired
    <2>2. ThreadsInv'
      BY <1>1, <1>5, QuitInv DEF SleepExpired
    <2>. QED
      BY <1>1, <1>5, <2>1, <2>2 DEF GoodStep, SleepExpired, RestType
  <1>6. CASE ExpireIfNeeded(s, n)
    <2>1. ThreadsInv'
      BY <1>1, <1>6, QuitInv DEF ExpireIfNeeded
    <2>2. CASE RunMatches(s, n)
      <3>1. sess[s].old
        BY <1>6, <2>2 DEF ExpireIfNeeded, RunMatches
      <3>2. Legal(sess[s], ExpireLocked(sess[s]))
        BY <1>1, <3>1, ExpireLockedLegal
      <3>3. SessionsStep
        BY <1>1, <1>6, <2>2, <3>2, OneSessionMoves DEF ExpireIfNeeded
      <3>. QED
        BY <1>1, <1>6, <2>1, <3>3 DEF GoodStep, ExpireIfNeeded, RestType
    <2>3. CASE ~RunMatches(s, n)
      <3>1. SessionsStep
        BY <1>1, <1>6, <2>3, NoSessionMoves DEF ExpireIfNeeded
      <3>. QED
        BY <1>1, <1>6, <2>1, <3>1 DEF GoodStep, ExpireIfNeeded, RestType
    <2>. QED
      BY <2>2, <2>3
  <1>7. ASSUME NEW m \in Macs, ResolveMac(s, n, m) PROVE GoodStep
    <2>1. Legal(sess[s], SetClientMac(sess[s], m))
      BY <1>1, <1>7, RunMatchesWritable, SetClientMacLegal DEF ResolveMac
    <2>2. SessionsStep
      BY <1>1, <1>7, <2>1, OneSessionMoves DEF ResolveMac
    <2>3. wk[s][n].phase = "readiness" => wk[s][n].attempt = 0
      BY <1>1, <1>7 DEF ResolveMac, At, ThreadInv, Early
    <2>4. ThreadsInv'
      BY <1>1, <1>2, <1>7, <2>3, GotoInv DEF ResolveMac
    <2>5. byKey' \in [Keys -> Sessions \union {NoSession}]
      BY <1>1, <1>7 DEF ResolveMac, RestType
    <2>. QED
      BY <1>1, <1>7, <2>2, <2>4, <2>5 DEF GoodStep, ResolveMac, RestType
  <1>. QED
    BY <1>3, <1>4, <1>5, <1>6, <1>7

LEMMA GiveUpGood ==
    ASSUME IInv, NEW s \in Sessions, NEW n \in RunNos, NEW phase, GiveUp(s, n, phase)
    PROVE  GoodStep
  <1>1. SessionsStep
    BY FinishStep DEF GiveUp, IInv
  <1>2. ThreadsInv'
    BY QuitInv DEF GiveUp, IInv
  <1>. QED
    BY <1>1, <1>2 DEF GoodStep, GiveUp, IInv, RestType

LEMMA HandlingStepGood ==
    ASSUME IInv, NEW s \in Sessions, NEW n \in RunNos,
           \/ HandleAuthorized(s, n) \/ HandleReadiness(s, n) \/ HandleVerify(s, n) \/ HandleFinal(s, n)
    PROVE  GoodStep
  <1>1. SessionsInv /\ ThreadsInv /\ RestType /\ ThreadInv(wk[s][n])
    BY DEF IInv, SessionsInv, ThreadsInv
  <1>2. {"submit", "attempt", "poll", "finalCheck", "reset"} \subseteq Pcs
    BY DEF Pcs, CallPcs, TailPcs
  <1>3. CASE HandleAuthorized(s, n)
    <2>. DEFINE t == [NoThread EXCEPT !.pc = "submit", !.reply = wk[s][n].reply]
    <2>1. SessionsStep
      BY <1>1, <1>3, FinishStep DEF HandleAuthorized
    <2>2. wk[s][n].reply \in Replies
      BY <1>1 DEF ThreadInv, Thread
    <2>3. ThreadInv(t)
      <3>. DEFINE u == [NoThread EXCEPT !.pc = "submit"]
      <3>1. ThreadInv(u)
        BY <1>2, FreshThread
      <3>2. t = [u EXCEPT !.reply = wk[s][n].reply]
        BY DEF NoThread
      <3>. HIDE DEF t, u
      <3>. QED
        BY <2>2, <3>1, <3>2 DEF ThreadInv, Thread, Early
    <2>4. wk' = [wk EXCEPT ![s][n] = t]
      BY <1>3 DEF HandleAuthorized
    <2>5. ThreadsInv'
      <3>. HIDE DEF t
      <3>. QED
        BY <1>1, <2>3, <2>4, OneThreadMoves
    <2>. QED
      BY <1>1, <1>3, <2>1, <2>5 DEF GoodStep, HandleAuthorized, RestType
  <1>4. ASSUME NEW pc \in {"attempt", "poll"}, HandleOther(s, n, "readiness", pc),
               sess' = [sess EXCEPT ![s] = UpdateActivity(@)]
        PROVE  GoodStep
    <2>1. wk[s][n].attempt = 0 /\ wk[s][n].attempt < MaxAttempts
      BY <1>1, <1>4, MaxAttemptsAssumption DEF HandleOther, At, ThreadInv, Early
    <2>2. ThreadsInv' /\ RestType'
      BY <1>2, <1>4, <2>1, HandleOtherInv
    <2>. QED
      BY <1>1, <1>4, <2>2, TouchStep DEF GoodStep
  <1>5. CASE HandleReadiness(s, n)
    BY <1>4, <1>5, GiveUpGood DEF HandleReadiness
  <1>6. CASE HandleVerify(s, n)
    <2>. DEFINE pc == IF wk[s][n].attempt < MaxAttempts THEN "attempt" ELSE "finalCheck"
    <2>1. pc \in Pcs /\ pc \notin {"started", "initialDelay", "ready", "lookup", "read", "handle", "poll"}
      BY <1>2
    <2>2. pc = "attempt" => wk[s][n].attempt < MaxAttempts
      OBVIOUS
    <2>3. HandleOther(s, n, "verify", pc)
      BY <1>6 DEF HandleVerify
    <2>4. ThreadsInv' /\ RestType'
      <3>. HIDE DEF pc
      <3>. QED
        BY <2>1, <2>2, <2>3, HandleOtherInv
    <2>. QED
      BY <1>1, <1>6, <2>4, TouchStep DEF GoodStep, HandleVerify
  <1>7. CASE HandleFinal(s, n)
    <2>1. CASE GiveUp(s, n, "final")
      BY <2>1, GiveUpGood
    <2>2. CASE HandleOther(s, n, "final", "reset") /\ sess' = [sess EXCEPT ![s] = UpdateStatus(@, "RESETTING")]
      <3>1. ThreadsInv' /\ RestType'
        BY <1>2, <2>2, HandleOtherInv
      <3>2. SessionsStep
        BY <1>1, <2>2, StatusStep DEF HandleOther
      <3>. QED
        BY <3>1, <3>2 DEF GoodStep
    <2>. QED
      BY <1>7, <2>1, <2>2 DEF HandleFinal
  <1>. QED
    BY <1>3, <1>5, <1>6, <1>7

LEMMA AttemptStepGood ==
    ASSUME IInv, NEW s \in Sessions, NEW n \in RunNos,
           \/ StartAttempt(s, n) \/ HandleAuthReply(s, n) \/ FinalCheck(s, n)
           \/ HandleResetReply(s, n) \/ WorkerException(s, n)
    PROVE  GoodStep
  <1>1. SessionsInv /\ ThreadsInv /\ RestType /\ ThreadInv(wk[s][n])
    BY DEF IInv, SessionsInv, ThreadsInv
  <1>2. {"authorize", "verifyDelay"} \subseteq Pcs /\ "final" \in Phases
    BY DEF Pcs, CallPcs, Phases
  <1>3. CASE StartAttempt(s, n)
    <2>. DEFINE t == [wk[s][n] EXCEPT !.pc = "authorize", !.attempt = wk[s][n].attempt + 1]
    <2>1. wk[s][n].attempt + 1 \in 0 .. MaxAttempts
      BY <1>1, <1>3, MaxAttemptsAssumption DEF StartAttempt, At, ThreadInv, Thread
    <2>2. ThreadInv(t)
      BY <1>1, <1>2, <2>1 DEF ThreadInv, Thread, Early
    <2>3. wk' = [wk EXCEPT ![s][n] = t]
      BY <1>1, <1>3 DEF StartAttempt, ThreadsInv
    <2>4. ThreadsInv'
      BY <1>1, <2>2, <2>3, OneThreadMoves
    <2>5. Legal(sess[s], BeginAttempt(sess[s], n))
      BY <1>1, <1>3, RunMatchesWritable, BeginAttemptLegal DEF StartAttempt
    <2>6. SessionsStep
      BY <1>1, <1>3, <2>5, OneSessionMoves DEF StartAttempt
    <2>. QED
      BY <1>1, <1>3, <2>4, <2>6 DEF GoodStep, StartAttempt, RestType
  <1>4. CASE HandleAuthReply(s, n)
    <2>1. ThreadInv(NoteReply(wk[s][n], "verifyDelay"))
      BY <1>1, <1>2, NoteReplyInv
    <2>2. ThreadsInv'
      BY <1>1, <1>4, <2>1, OneThreadMoves DEF HandleAuthReply
    <2>3. SessionsStep
      BY <1>1, <1>4, StatusStep DEF HandleAuthReply
    <2>. QED
      BY <1>1, <1>4, <2>2, <2>3 DEF GoodStep, HandleAuthReply, RestType
  <1>5. CASE FinalCheck(s, n)
    <2>1. ThreadsInv'
      BY <1>1, <1>2, <1>5, ReadFromInv DEF FinalCheck
    <2>2. SessionsStep
      BY <1>1, <1>5, StatusStep DEF FinalCheck
    <2>. QED
      BY <1>1, <1>5, <2>1, <2>2 DEF GoodStep, FinalCheck, RestType
  <1>6. CASE HandleResetReply(s, n)
    <2>. DEFINE b == wk[s][n].reply = "ok" /\ wk[s][n].lastFailure \in {"none", "transient"}
    <2>1. b \in BOOLEAN
      OBVIOUS
    <2>2. RunMatches(s, n) /\ sess' = [sess EXCEPT ![s] = FinishRun(@, n, "FAILED", b)]
      BY <1>6 DEF HandleResetReply
    <2>3. SessionsStep
      <3>. HIDE DEF b
      <3>. QED
        BY <1>1, <2>1, <2>2, FinishStep
    <2>4. ThreadsInv'
      BY <1>1, <1>6, QuitInv DEF HandleResetReply
    <2>. QED
      BY <1>1, <1>6, <2>3, <2>4 DEF GoodStep, HandleResetReply, RestType
  <1>7. CASE WorkerException(s, n)
    <2>1. SessionsStep
      BY <1>1, <1>7, FinishStep DEF WorkerException
    <2>2. ThreadsInv'
      BY <1>1, <1>7, QuitInv DEF WorkerException
    <2>. QED
      BY <1>1, <1>7, <2>1, <2>2 DEF GoodStep, WorkerException, RestType
  <1>. QED
    BY <1>3, <1>4, <1>5, <1>6, <1>7

-----------------------------------------------------------------------------
(* The theorems *)

LEMMA InitIInv == Init => IInv
  <1>. SUFFICES ASSUME Init PROVE IInv
    OBVIOUS
  <1>. DEFINE x == NewSession([mac |-> NoMac, ip |-> NoIp])
  <1>1. "WAITING" \in Statuses /\ "recent" \in Idle /\ 0 \in 0 .. MaxRuns
    BY MaxRunsAssumption DEF Statuses, ActiveStatuses, Idle
  <1>2. x \in SessionObject
    BY <1>1, NewRunType DEF NewSession, SessionObject
  <1>3. x.cur = 0 /\ x.old = FALSE
    BY DEF NewSession
  <1>4. SessionInv(x)
    <2>. HIDE DEF x
    <2>1. RetriesOf(x)
      BY <1>3 DEF RetriesOf, RunNos
    <2>. QED
      BY <1>2, <1>3, <2>1 DEF SessionInv
  <1>5. SessionsInv
    <2>. HIDE DEF x
    <2>1. sess = [s \in Sessions |-> x]
      BY DEF Init, x
    <2>. QED
      BY <1>2, <1>4, <2>1 DEF SessionsInv
  <1>6. NoThread \in Thread
    BY MaxAttemptsAssumption DEF NoThread, Thread, Pcs, Phases, Failures, Replies
  <1>7. ThreadInv(NoThread)
    BY <1>6 DEF ThreadInv, Early, NoThread
  <1>8. ThreadsInv
    BY <1>6, <1>7 DEF Init, ThreadsInv
  <1>9. RestType
    BY DEF Init, RestType
  <1>. QED
    BY <1>5, <1>8, <1>9 DEF IInv

LEMMA WorkerStepGood ==
    ASSUME IInv, NEW s \in Sessions, NEW n \in RunNos, WorkerStep(s, n)
    PROVE  GoodStep
  BY ReadingStepGood, WaitingStepGood, HandlingStepGood, AttemptStepGood DEF WorkerStep

LEMMA NextGood ==
    ASSUME IInv, Next
    PROVE  GoodStep
  <1>1. ASSUME NEW c \in Contexts, ReuseSession(c) PROVE GoodStep
    BY <1>1, CleanupGood DEF ReuseSession
  <1>2. ASSUME NEW c \in Contexts, NEW s \in Sessions, CreateSession(c, s) PROVE GoodStep
    BY <1>2, CreateSessionGood
  <1>3. CASE Cleanup
    BY <1>3, CleanupGood DEF Cleanup
  <1>4. ASSUME NEW s \in Sessions, PollStatus(s) \/ RetryExpired(s) PROVE GoodStep
    BY <1>4, ExpiryByWebGood DEF PollStatus, RetryExpired
  <1>5. ASSUME NEW s \in Sessions, NEW q \in RequestIds, RetryWhileActive(s, q) PROVE GoodStep
    BY <1>5, RetryWhileActiveGood
  <1>6. ASSUME NEW s \in Sessions, NEW q \in RequestIds, RetryCreatesRun(s, q) PROVE GoodStep
    BY <1>6, RetryCreatesRunGood
  <1>7. ASSUME NEW s \in Sessions, GrowOld(s) \/ GrowIdle(s) PROVE GoodStep
    BY <1>7, TimeGood
  <1>8. ASSUME NEW s \in Sessions, NEW n \in RunNos,
               StartStep(s, n) \/ MarkFinished(s, n) \/ WorkerStep(s, n)
        PROVE  GoodStep
    BY <1>8, StartStepGood, MarkFinishedGood, WorkerStepGood
  <1>9. CASE StartWorker
    BY <1>9, StartWorkerGood
  <1>10. CASE Shutdown
    BY <1>10, ShutdownGood
  <1>. QED
    BY <1>1, <1>2, <1>3, <1>4, <1>5, <1>6, <1>7, <1>8, <1>9, <1>10 DEF Next

LEMMA StutterGood ==
    ASSUME IInv, UNCHANGED vars
    PROVE  GoodStep
  <1>1. SessionsStep
    BY NoSessionMoves DEF vars, IInv
  <1>2. ThreadsInv' /\ RestType'
    BY DEF vars, IInv, ThreadsInv, RestType
  <1>. QED
    BY <1>1, <1>2 DEF GoodStep

LEMMA GoodKeepsIInv == ASSUME IInv, GoodStep PROVE IInv'
  <1>1. SessionsInv'
    BY DEF GoodStep, SessionsStep, SessionsInv, Legal
  <1>. QED
    BY <1>1 DEF GoodStep, IInv

\* The inductive invariant holds in every reachable state.
THEOREM Invariance == Spec => []IInv
  <1>1. Init => IInv
    BY InitIInv
  <1>2. IInv /\ [Next]_vars => IInv'
    BY NextGood, StutterGood, GoodKeepsIInv
  <1>. QED
    BY <1>1, <1>2, PTL DEF Spec

\* Every step of every behaviour is a legal step of each session.
LEMMA AlwaysGood == IInv /\ [Next]_vars => GoodStep
  BY NextGood, StutterGood

\* Every variable keeps the shape the code gives it; in particular an authorization attempt is
\* never started beyond MAX_AUTH_ATTEMPTS.
THEOREM TypeCorrectness == Spec => []TypeOK
  <1>1. IInv => TypeOK
    BY DEF IInv, SessionsInv, ThreadsInv, RestType, TypeOK
  <1>. QED
    BY <1>1, Invariance, PTL

\* The public status and the run history agree in every reachable state.
THEOREM StatusCorrectness == Spec => []StatusAgrees
  <1>1. IInv => StatusAgrees
    BY DEF IInv, SessionsInv, SessionInv, StatusAgrees
  <1>. QED
    BY <1>1, Invariance, PTL

\* prepare_retry opens a run only after a retryable failure and for a request of its own.
THEOREM RetryCorrectness == Spec => []RetryOnlyAfterRetryableFailure
  <1>1. IInv => RetryOnlyAfterRetryableFailure
    BY DEF IInv, SessionsInv, SessionInv, RetryOnlyAfterRetryableFailure
  <1>. QED
    BY <1>1, Invariance, PTL

\* Status, runs and retry requests tell one history in every reachable state.
THEOREM HistoryConsistency == Spec => []HistoryIsConsistent
  BY TypeCorrectness, StatusCorrectness, RetryCorrectness, PTL DEF HistoryIsConsistent

\* No late answer, expiry or retry changes the outcome of a finished run.
THEOREM OutcomeStability == Spec => RunOutcomeIsFinal
  <1>. DEFINE A == \A s \in Sessions, n \in RunNos :
                      n <= sess[s].cur /\ sess[s].runs[n].final # "open" =>
                          /\ sess'[s].runs[n].final = sess[s].runs[n].final
                          /\ sess'[s].runs[n].retryable = sess[s].runs[n].retryable
  <1>1. IInv /\ [Next]_vars => A
    BY AlwaysGood DEF GoodStep, SessionsStep, Legal, SessionStep, OutcomesKept
  <1>2. IInv /\ [Next]_vars => [A]_vars
    BY <1>1
  <1>. QED
    BY <1>2, Invariance, PTL DEF Spec, RunOutcomeIsFinal

\* A finished session is never reopened, rebound to another client or given another outcome but EXPIRED.
THEOREM FinishedStability == Spec => FinishedIsFinal
  <1>. DEFINE A == \A s \in Sessions : sess[s].cur > 0 /\ IsFinished(sess[s]) =>
                      /\ sess'[s].cur = sess[s].cur
                      /\ sess'[s].mac = sess[s].mac
                      /\ sess'[s].status \in {sess[s].status, "EXPIRED"}
  <1>1. IInv /\ [Next]_vars => A
    BY AlwaysGood DEF GoodStep, SessionsStep, Legal, SessionStep, FinishedKept
  <1>2. IInv /\ [Next]_vars => [A]_vars
    BY <1>1
  <1>. QED
    BY <1>2, Invariance, PTL DEF Spec, FinishedIsFinal

\* Outcomes and run numbers as the contract sees them.
LEMMA ContractInit == Init => Contract!Init
  <1>. SUFFICES ASSUME Init PROVE Contract!Init
    OBVIOUS
  <1>1. \A s \in Sessions : sess[s].cur = 0
    BY DEF Init, NewSession
  <1>. QED
    BY <1>1 DEF Contract!Init, Outcome

\* The refinement: what a client sees of a session obeys AuthContract.
THEOREM Refinement == Spec => ImplementsContract
  <1>1. Init => Contract!Init
    BY ContractInit
  <1>2. ASSUME IInv, [Next]_vars
        PROVE  [Contract!Next]_<<[s \in Sessions |-> Outcome(sess[s])], [s \in Sessions |-> sess[s].cur]>>
    <2>1. \A s \in Sessions : ContractStep(sess[s], sess'[s])
      BY <1>2, AlwaysGood DEF GoodStep, SessionsStep, Legal, SessionStep
    <2>2. Contract!Next
      BY <2>1 DEF ContractStep, Contract!Next, Contract!Stay, Contract!Open, Contract!Finish,
                  Contract!Retry, Contract!Expire
    <2>. QED
      BY <2>2
  <1>. QED
    BY <1>1, <1>2, Invariance, PTL DEF Spec, ImplementsContract, Contract!Spec

-----------------------------------------------------------------------------
(* Runs and their threads, the executor's queue, the registry and its keys *)

\* A thread is before the end of its run, after it, or has also reported the worker's end.
BeforePcs == {"created", "claimed", "refused", "rejected", "queued"} \union CallPcs
MarkedPcs == {"refusedEmit", "rejectedEmit", "emit", "done"}
AfterPcs  == {"submit", "finally", "refusedMark", "rejectedMark"} \union MarkedPcs

\* Run n of session x and its thread t agree.
RunInv(x, n, t) ==
    /\ n > x.cur => t.pc = "none"
    /\ n <= x.cur => t.pc # "none"
    /\ n <= x.cur /\ x.runs[n].final = "AUTHORIZED" => t.reply = "authorized"
    /\ n <= x.cur /\ x.runs[n].final \in {"AUTHORIZED", "FAILED"} => t.pc \in AfterPcs
    /\ n = x.cur /\ x.workerFinished => t.pc \in MarkedPcs
    /\ t.pc \in {"refusedMark", "refusedEmit"} => IsFinished(x)
    /\ n = x.cur /\ x.runs[n].final = "open" /\ t.pc = "lookup" => x.mac = NoMac

RunsInv == \A s \in Sessions, n \in RunNos : RunInv(sess[s], n, wk[s][n])

\* A session leaves the registry, and is reported as finished, only when it is finished.
ListedInv ==
    \A s \in Sessions :
        /\ s \in byId => sess[s].cur > 0
        /\ sess[s].cur > 0 /\ s \notin byId => IsFinished(sess[s])
        /\ sessionFinished[s] # "none" => sess[s].cur > 0 /\ IsFinished(sess[s])

\* A submitted run waits in the queue once.
QueueInv ==
    /\ \A j \in DOMAIN queue : wk[queue[j][1]][queue[j][2]].pc = "queued"
    /\ \A j, k \in DOMAIN queue : queue[j] = queue[k] => j = k

JointInv == IInv /\ RunsInv /\ ListedInv /\ QueueInv /\ KeysResolve

\* Changes of a session that say nothing about its workers: no run but an expired one ends.
Mild(x, y) ==
    /\ y.cur = x.cur /\ y.mac = x.mac /\ y.ip = x.ip
    /\ y.workerFinished => x.workerFinished
    /\ \A n \in RunNos : n <= x.cur /\ x.runs[n].final = "open" => y.runs[n].final \in {"open", "EXPIRED"}

LEMMA FinishedStays ==
    ASSUME NEW x, SessionInv(x), NEW y, Legal(x, y), x.cur > 0, IsFinished(x)
    PROVE  y.cur > 0 /\ IsFinished(y)
  <1>1. y.cur = x.cur /\ y.status \in {x.status, "EXPIRED"}
    BY DEF Legal, SessionStep, FinishedKept
  <1>2. CASE y.status \in {"AUTHORIZED", "EXPIRED"}
    BY <1>1, <1>2 DEF IsFinished
  <1>3. CASE y.status \notin {"AUTHORIZED", "EXPIRED"}
    <2>1. x.status = "FAILED" /\ y.status = "FAILED" /\ ~x.retryable
      BY <1>1, <1>3 DEF IsFinished
    <2>2. x.cur \in RunNos
      BY Values DEF SessionInv, SessionObject
    <2>3. x.runs[x.cur].final = "FAILED" /\ x.retryable = x.runs[x.cur].retryable
      BY <2>1 DEF SessionInv, StatusOfRun
    <2>4. y.runs[x.cur].retryable = x.runs[x.cur].retryable
      <3>1. x.cur <= x.cur
        BY MaxRunsAssumption DEF SessionInv, SessionObject
      <3>2. x.runs[x.cur].final # "open"
        BY <2>3
      <3>. QED
        BY <2>2, <3>1, <3>2 DEF Legal, SessionStep, OutcomesKept
    <2>5. y.retryable = y.runs[y.cur].retryable
      BY <1>1, <2>1 DEF Legal, SessionInv, StatusOfRun
    <2>. QED
      BY <1>1, <2>1, <2>3, <2>4, <2>5 DEF IsFinished
  <1>. QED
    BY <1>2, <1>3

LEMMA CurGrows ==
    ASSUME NEW x, SessionInv(x), NEW y, Legal(x, y)
    PROVE  x.cur \in Nat /\ y.cur \in Nat /\ x.cur <= y.cur
  <1>1. x.cur \in Nat /\ y.cur \in Nat
    BY MaxRunsAssumption DEF Legal, SessionInv, SessionObject
  <1>2. Outcome(x) = "none" => x.cur = 0 \/ y.cur = x.cur \/ x.status = "none"
    BY DEF Outcome, CanRetry
  <1>3. x.status # "none"
    BY DEF SessionInv, SessionObject, Statuses, ActiveStatuses, FinalStatuses
  <1>. QED
    BY <1>1, <1>2, <1>3 DEF Legal, SessionStep, ContractStep

LEMMA MildKeeps ==
    ASSUME NEW x, SessionInv(x), NEW y, Legal(x, y), Mild(x, y), NEW n \in RunNos, NEW t, RunInv(x, n, t)
    PROVE  RunInv(y, n, t)
  <1>1. y.cur = x.cur /\ y.mac = x.mac /\ (y.workerFinished => x.workerFinished)
    BY DEF Mild
  <1>2. x.cur \in Nat /\ n \in Nat /\ n > 0
    BY Values, CurGrows DEF RunNos
  <1>3. n <= x.cur /\ y.runs[n].final \in {"AUTHORIZED", "FAILED"} => y.runs[n].final = x.runs[n].final
    BY DEF Mild, Legal, SessionStep, OutcomesKept
  <1>4. n <= x.cur /\ y.runs[n].final = "open" => x.runs[n].final = "open"
    BY DEF Legal, SessionStep, OutcomesKept
  <1>5. t.pc \in {"refusedMark", "refusedEmit"} => IsFinished(y)
    <2>1. t.pc \in {"refusedMark", "refusedEmit"} => x.cur > 0 /\ IsFinished(x)
      BY <1>2 DEF RunInv
    <2>. QED
      BY <2>1, FinishedStays
  <1>. QED
    BY <1>1, <1>2, <1>3, <1>4, <1>5 DEF RunInv

LEMMA MildStay == ASSUME NEW x PROVE Mild(x, x)
  BY DEF Mild

LEMMA MildOperations ==
    ASSUME NEW x, SessionInv(x)
    PROVE  /\ Mild(x, UpdateActivity(x))
           /\ \A status : Mild(x, UpdateStatus(x, status))
           /\ \A q, k : Mild(x, BindRequest(x, q, k))
           /\ Mild(x, [x EXCEPT !.old = TRUE])
           /\ \A idle : Mild(x, [x EXCEPT !.idle = idle])
  BY DEF Mild, UpdateActivity, UpdateStatus, BindRequest, SessionInv, SessionObject

LEMMA MildRunOperations ==
    ASSUME NEW x, SessionInv(x), NEW n \in RunNos
    PROVE  /\ Mild(x, BeginAttempt(x, n))
           /\ Mild(x, ClaimRun(x, n))
           /\ \A retryable : Mild(x, FinishRun(x, n, "EXPIRED", retryable))
  <1>1. x \in SessionObject /\ x.runs[n] \in AuthRun
    BY DEF SessionInv, SessionObject
  <1>2. Mild(x, BeginAttempt(x, n))
    <2>. DEFINE r == [x.runs[n] EXCEPT !.mayHaveChanged = TRUE]
                y == BeginAttempt(x, n)
    <2>1. /\ y.cur = x.cur /\ y.mac = x.mac /\ y.ip = x.ip /\ y.workerFinished = x.workerFinished
          /\ y.runs = [x.runs EXCEPT ![n] = r]
      BY <1>1 DEF BeginAttempt, UpdateActivity, SessionObject
    <2>2. r.final = x.runs[n].final
      BY <1>1 DEF AuthRun
    <2>. HIDE DEF y, r
    <2>3. \A k \in RunNos : y.runs[k].final = x.runs[k].final
      BY <1>1, <2>1, <2>2 DEF SessionObject
    <2>. QED
      BY <2>1, <2>3 DEF Mild, y
  <1>3. Mild(x, ClaimRun(x, n))
    <2>. DEFINE r == [x.runs[n] EXCEPT !.workerStarted = TRUE, !.workerFinished = FALSE]
                y == ClaimRun(x, n)
    <2>1. /\ y.cur = x.cur /\ y.mac = x.mac /\ y.ip = x.ip /\ ~y.workerFinished
          /\ y.runs = [x.runs EXCEPT ![n] = r]
      BY <1>1 DEF ClaimRun, UpdateActivity, SessionObject
    <2>2. r.final = x.runs[n].final
      BY <1>1 DEF AuthRun
    <2>. HIDE DEF y, r
    <2>3. \A k \in RunNos : y.runs[k].final = x.runs[k].final
      BY <1>1, <2>1, <2>2 DEF SessionObject
    <2>. QED
      BY <2>1, <2>3 DEF Mild, y
  <1>4. ASSUME NEW retryable
        PROVE  Mild(x, FinishRun(x, n, "EXPIRED", retryable))
    <2>. DEFINE r == SetFinal(x.runs[n], "EXPIRED", retryable)
                y == FinishRun(x, n, "EXPIRED", retryable)
    <2>1. /\ y.cur = x.cur /\ y.mac = x.mac /\ y.ip = x.ip /\ y.workerFinished = x.workerFinished
          /\ y.runs = [x.runs EXCEPT ![n] = r]
      BY <1>1 DEF FinishRun, UpdateActivity, SessionObject
    <2>2. r.final = "EXPIRED"
      BY <1>1 DEF AuthRun, SetFinal
    <2>. HIDE DEF y, r
    <2>3. \A k \in RunNos : y.runs[k].final \in {x.runs[k].final, "EXPIRED"}
      BY <1>1, <2>1, <2>2 DEF SessionObject
    <2>. QED
      BY <2>1, <2>3 DEF Mild, y
  <1>. QED
    BY <1>2, <1>3, <1>4

LEMMA MildExpiry ==
    ASSUME NEW x, SessionInv(x)
    PROVE  Mild(x, ExpireLocked(x))
  <1>1. CASE x.status = "EXPIRED"
    BY <1>1, MildStay DEF ExpireLocked
  <1>2. CASE x.status # "EXPIRED" /\ CurrentOpen(x)
    <2>1. x.cur \in RunNos
      BY <1>2, Values DEF CurrentOpen, SessionInv, SessionObject
    <2>. QED
      BY <1>2, <2>1, MildRunOperations DEF ExpireLocked
  <1>3. CASE x.status # "EXPIRED" /\ ~CurrentOpen(x)
    BY <1>3 DEF ExpireLocked, Mild, UpdateActivity, SessionInv, SessionObject
  <1>. QED
    BY <1>1, <1>2, <1>3

LEMMA MildExpired ==
    ASSUME SessionsInv
    PROVE  \A s \in Sessions : Mild(sess[s], Expired[s])
  BY MildExpiry, MildStay DEF SessionsInv, Expired

\* No thread is both before and after the end of its run.
LEMMA PcsAreApart ==
    /\ BeforePcs \intersect AfterPcs = {}
    /\ "none" \notin BeforePcs \union AfterPcs /\ MarkedPcs \subseteq AfterPcs
    /\ CallPcs \subseteq BeforePcs
    /\ "lost" \notin BeforePcs \union AfterPcs
  BY DEF BeforePcs, AfterPcs, MarkedPcs, CallPcs

\* A thread before the end of its run goes on.
LEMMA BeforeMoves ==
    ASSUME NEW x, SessionInv(x), NEW n \in RunNos, NEW t, RunInv(x, n, t), t.pc \in BeforePcs,
           NEW u, u.pc \in BeforePcs \union {"lost", "finally"}, u.pc = "lookup" => x.mac = NoMac
    PROVE  RunInv(x, n, u)
  <1>1. x.cur \in Nat /\ n \in Nat
    BY Values, MaxRunsAssumption DEF SessionInv, SessionObject
  <1>2. t.pc # "none" /\ t.pc \notin AfterPcs /\ t.pc \notin MarkedPcs
    BY PcsAreApart
  <1>3. n <= x.cur /\ x.runs[n].final \notin {"AUTHORIZED", "FAILED"} /\ ~(n = x.cur /\ x.workerFinished)
    BY <1>1, <1>2 DEF RunInv
  <1>4. u.pc # "none" /\ u.pc \notin {"refusedMark", "refusedEmit"}
    BY PcsAreApart DEF AfterPcs, MarkedPcs
  <1>. QED
    BY <1>1, <1>3, <1>4 DEF RunInv

\* One thread and its session move, other sessions only in ways that say nothing about workers.
LEMMA RunsMove ==
    ASSUME JointInv, SessionsStep, NEW s \in Sessions, NEW n \in RunNos, NEW u,
           wk' = [wk EXCEPT ![s][n] = u],
           \A t \in Sessions : t # s => Mild(sess[t], sess'[t]),
           \A k \in RunNos : k # n => RunInv(sess'[s], k, wk[s][k]),
           RunInv(sess'[s], n, u)
    PROVE  RunsInv'
  <1>1. SUFFICES ASSUME NEW t \in Sessions, NEW k \in RunNos
                 PROVE  RunInv(sess'[t], k, wk'[t][k])
    BY DEF RunsInv
  <1>2. wk \in [Sessions -> [RunNos -> Thread]]
    BY DEF JointInv, IInv, ThreadsInv
  <1>3. CASE t = s /\ k = n
    BY <1>2, <1>3
  <1>4. CASE t = s /\ k # n
    BY <1>2, <1>4
  <1>5. CASE t # s
    <2>1. wk'[t][k] = wk[t][k]
      BY <1>2, <1>5
    <2>2. SessionInv(sess[t]) /\ Legal(sess[t], sess'[t]) /\ RunInv(sess[t], k, wk[t][k])
      BY DEF JointInv, IInv, SessionsInv, SessionsStep, RunsInv
    <2>. QED
      BY <1>5, <2>1, <2>2, MildKeeps
  <1>. QED
    BY <1>3, <1>4, <1>5

LEMMA RunsStay ==
    ASSUME JointInv, SessionsStep, wk' = wk, \A t \in Sessions : Mild(sess[t], sess'[t])
    PROVE  RunsInv'
  <1>1. \A t \in Sessions, k \in RunNos : RunInv(sess'[t], k, wk[t][k])
    BY MildKeeps DEF JointInv, IInv, SessionsInv, SessionsStep, RunsInv
  <1>. QED
    BY <1>1 DEF RunsInv

\* A session's identity and its place in the registry and the keys stay.
LEMMA KeysStay ==
    ASSUME JointInv, byId' = byId, byKey' = byKey,
           \A t \in Sessions : sess'[t].mac = sess[t].mac /\ sess'[t].ip = sess[t].ip
    PROVE  KeysResolve'
  <1>1. byKey \in [Keys -> Sessions \union {NoSession}]
    BY DEF JointInv, IInv, RestType
  <1>. QED
    BY <1>1 DEF JointInv, KeysResolve

\* Nothing is reported of a session and none joins or leaves.
LEMMA ListedStays ==
    ASSUME JointInv, SessionsStep, byId' = byId, sessionFinished' = sessionFinished,
           \A t \in Sessions : sess'[t].cur > 0 => sess[t].cur > 0
    PROVE  ListedInv'
  <1>1. SUFFICES ASSUME NEW t \in Sessions
                 PROVE  /\ t \in byId => sess'[t].cur > 0
                        /\ sess'[t].cur > 0 /\ t \notin byId => IsFinished(sess'[t])
                        /\ sessionFinished[t] # "none" => sess'[t].cur > 0 /\ IsFinished(sess'[t])
    BY DEF ListedInv, IsFinished
  <1>2. SessionInv(sess[t]) /\ Legal(sess[t], sess'[t])
    BY DEF JointInv, IInv, SessionsInv, SessionsStep
  <1>3. sess[t].cur > 0 => sess'[t].cur > 0
    BY <1>2, CurGrows
  <1>4. sess[t].cur > 0 /\ IsFinished(sess[t]) => IsFinished(sess'[t])
    BY <1>2, FinishedStays
  <1>. QED
    BY <1>3, <1>4 DEF JointInv, ListedInv

\* A thread that does not wait in the queue moves.
LEMMA QueueStays ==
    ASSUME JointInv, NEW s \in Sessions, NEW n \in RunNos, NEW u, wk[s][n].pc # "queued",
           wk' = [wk EXCEPT ![s][n] = u], queue' = queue
    PROVE  QueueInv'
  <1>1. wk \in [Sessions -> [RunNos -> Thread]] /\ queue \in Seq(Sessions \X RunNos) /\ QueueInv
    BY DEF JointInv, IInv, ThreadsInv, RestType
  <1>2. ASSUME NEW j \in DOMAIN queue
        PROVE  wk'[queue[j][1]][queue[j][2]] = wk[queue[j][1]][queue[j][2]]
    <2>1. queue[j] \in Sessions \X RunNos
      BY <1>1
    <2>2. queue[j][1] \in Sessions /\ queue[j][2] \in RunNos
      BY <2>1
    <2>3. wk[queue[j][1]][queue[j][2]].pc = "queued"
      BY <1>1 DEF QueueInv
    <2>. QED
      BY <1>1, <2>2, <2>3
  <1>. QED
    BY <1>1, <1>2 DEF QueueInv

\* What is left to show of an action that is a good step.
LinksKept == RunsInv' /\ ListedInv' /\ QueueInv' /\ KeysResolve'

\* One session at most changes, and mildly.
MildStep(s) == sess' = sess \/ (\E y : Mild(sess[s], y) /\ sess' = [sess EXCEPT ![s] = y])

LEMMA AllMild ==
    ASSUME JointInv, NEW s \in Sessions, MildStep(s)
    PROVE  \A t \in Sessions : Mild(sess[t], sess'[t])
  <1>1. CASE sess' = sess
    BY <1>1, MildStay
  <1>2. ASSUME NEW y, Mild(sess[s], y), sess' = [sess EXCEPT ![s] = y], NEW t \in Sessions
        PROVE  Mild(sess[t], sess'[t])
    <2>1. sess'[t] = IF t = s THEN y ELSE sess[t]
      BY <1>2 DEF JointInv, IInv, SessionsInv
    <2>. QED
      BY <1>2, <2>1, MildStay
  <1>. QED
    BY <1>1, <1>2 DEF MildStep

\* A thread before the end of its run makes a step that does not end the run but by expiry.
LEMMA CallStep ==
    ASSUME JointInv, SessionsStep, NEW s \in Sessions, NEW n \in RunNos, NEW u,
           wk' = [wk EXCEPT ![s][n] = u],
           wk[s][n].pc \in BeforePcs \ {"queued"},
           u.pc \in BeforePcs \union {"lost", "finally"}, u.pc = "lookup" => sess[s].mac = NoMac,
           MildStep(s), UNCHANGED <<byId, byKey, queue, sessionFinished>>
    PROVE  LinksKept
  <1>1. \A t \in Sessions : Mild(sess[t], sess'[t])
    BY AllMild
  <1>2. SessionInv(sess[s]) /\ Legal(sess[s], sess'[s]) /\ \A k \in RunNos : RunInv(sess[s], k, wk[s][k])
    BY DEF JointInv, IInv, SessionsInv, SessionsStep, RunsInv
  <1>3. \A k \in RunNos : k # n => RunInv(sess'[s], k, wk[s][k])
    BY <1>1, <1>2, MildKeeps
  <1>4. RunInv(sess[s], n, u)
    BY <1>2, BeforeMoves
  <1>5. RunInv(sess'[s], n, u)
    BY <1>1, <1>2, <1>4, MildKeeps
  <1>6. RunsInv'
    BY <1>1, <1>3, <1>5, RunsMove
  <1>7. ListedInv' /\ KeysResolve'
    BY <1>1, ListedStays, KeysStay DEF Mild
  <1>8. QueueInv'
    BY QueueStays
  <1>. QED
    BY <1>6, <1>7, <1>8 DEF LinksKept

\* The same where only the pc is known to change ...
LEMMA GotoStep ==
    ASSUME JointInv, SessionsStep, NEW s \in Sessions, NEW n \in RunNos,
           NEW pc \in (BeforePcs \ {"lookup"}) \union {"lost", "finally"}, Goto(s, n, pc),
           wk[s][n].pc \in BeforePcs \ {"queued"},
           MildStep(s), UNCHANGED <<byId, byKey, queue, sessionFinished>>
    PROVE  LinksKept
  <1>1. wk' = [wk EXCEPT ![s][n] = [wk[s][n] EXCEPT !.pc = pc]]
    BY DEF Goto
  <1>2. wk[s][n] \in Thread
    BY DEF JointInv, IInv, ThreadsInv
  <1>3. [wk[s][n] EXCEPT !.pc = pc].pc = pc
    BY <1>2 DEF Thread
  <1>. QED
    BY <1>1, <1>3, CallStep

\* ... where a reply comes in ...
LEMMA ReplyStep ==
    ASSUME JointInv, SessionsStep, NEW s \in Sessions, NEW n \in RunNos, NEW reply,
           NEW pc \in CallPcs \ {"lookup"}, wk' = [wk EXCEPT ![s][n].pc = pc, ![s][n].reply = reply],
           wk[s][n].pc \in CallPcs,
           MildStep(s), UNCHANGED <<byId, byKey, queue, sessionFinished>>
    PROVE  LinksKept
  <1>1. wk' = [wk EXCEPT ![s][n] = [wk[s][n] EXCEPT !.pc = pc, !.reply = reply]]
    BY DEF JointInv, IInv, ThreadsInv
  <1>2. wk[s][n] \in Thread
    BY DEF JointInv, IInv, ThreadsInv
  <1>3. [wk[s][n] EXCEPT !.pc = pc, !.reply = reply].pc = pc
    BY <1>2 DEF Thread
  <1>4. wk[s][n].pc \in BeforePcs \ {"queued"} /\ pc \in BeforePcs \ {"lookup"}
    BY DEF BeforePcs, CallPcs
  <1>. QED
    BY <1>1, <1>3, <1>4, CallStep

\* ... where a read goes out ...
LEMMA ReadStep ==
    ASSUME JointInv, SessionsStep, NEW s \in Sessions, NEW n \in RunNos, NEW phase,
           ReadFrom(s, n, phase), wk[s][n].pc \in CallPcs,
           MildStep(s), UNCHANGED <<byId, byKey, queue, sessionFinished>>
    PROVE  LinksKept
  <1>. DEFINE pc == IF sess[s].mac = NoMac THEN "lookup" ELSE "read"
              u  == [wk[s][n] EXCEPT !.phase = phase, !.pc = pc]
  <1>1. wk' = [wk EXCEPT ![s][n] = u]
    BY DEF JointInv, IInv, ThreadsInv, ReadFrom
  <1>2. wk[s][n] \in Thread
    BY DEF JointInv, IInv, ThreadsInv
  <1>3. u.pc = pc
    BY <1>2 DEF Thread
  <1>4. wk[s][n].pc \in BeforePcs \ {"queued"} /\ {"lookup", "read"} \subseteq BeforePcs
    BY DEF BeforePcs, CallPcs
  <1>5. u.pc \in BeforePcs \union {"lost", "finally"} /\ (u.pc = "lookup" => sess[s].mac = NoMac)
    BY <1>3, <1>4
  <1>. HIDE DEF u
  <1>. QED
    BY <1>1, <1>4, <1>5, CallStep

\* ... where the worker leaves the try block, and where it has dealt with a reply.
LEMMA QuitStep ==
    ASSUME JointInv, SessionsStep, NEW s \in Sessions, NEW n \in RunNos,
           Quit(s, n), wk[s][n].pc \in CallPcs,
           MildStep(s), UNCHANGED <<byId, byKey, queue, sessionFinished>>
    PROVE  LinksKept
  <1>1. [NoThread EXCEPT !.pc = "finally"].pc = "finally"
    BY DEF NoThread
  <1>2. wk[s][n].pc \in BeforePcs \ {"queued"}
    BY DEF BeforePcs, CallPcs
  <1>. QED
    BY <1>1, <1>2, CallStep DEF Quit

LEMMA NoteStep ==
    ASSUME JointInv, SessionsStep, NEW s \in Sessions, NEW n \in RunNos, NEW pc \in CallPcs \ {"lookup"},
           wk' = [wk EXCEPT ![s][n] = NoteReply(@, pc)], wk[s][n].pc \in CallPcs,
           MildStep(s), UNCHANGED <<byId, byKey, queue, sessionFinished>>
    PROVE  LinksKept
  <1>1. wk[s][n] \in Thread
    BY DEF JointInv, IInv, ThreadsInv
  <1>2. NoteReply(wk[s][n], pc).pc = pc
    BY <1>1 DEF Thread, NoteReply
  <1>3. wk[s][n].pc \in BeforePcs \ {"queued"} /\ pc \in BeforePcs \ {"lookup"}
    BY DEF BeforePcs, CallPcs
  <1>. QED
    BY <1>2, <1>3, CallStep

LEMMA MildWrites ==
    ASSUME JointInv, NEW s \in Sessions, NEW n \in RunNos,
           \/ sess' = sess
           \/ sess' = [sess EXCEPT ![s] = UpdateActivity(@)]
           \/ \E status : sess' = [sess EXCEPT ![s] = UpdateStatus(@, status)]
           \/ sess' = [sess EXCEPT ![s] = BeginAttempt(@, n)]
           \/ sess' = [sess EXCEPT ![s] = ClaimRun(@, n)]
           \/ sess' = [sess EXCEPT ![s] = ExpireLocked(@)]
           \/ sess' = [sess EXCEPT ![s] = FinishRun(@, n, "EXPIRED", FALSE)]
           \/ sess' = [sess EXCEPT ![s].old = TRUE]
           \/ \E idle : sess' = [sess EXCEPT ![s].idle = idle]
           \/ \E q, k : sess' = [sess EXCEPT ![s] = BindRequest(@, q, k)]
    PROVE  MildStep(s)
  <1>1. SessionInv(sess[s])
    BY DEF JointInv, IInv, SessionsInv
  <1>. QED
    BY <1>1, MildOperations, MildRunOperations, MildExpiry DEF MildStep

\* Steps of the worker that end no run but by expiry.
LEMMA WorkingLinked ==
    ASSUME JointInv, SessionsStep, NEW s \in Sessions, NEW n \in RunNos,
           \/ StaleWorker(s, n) \/ BeginWaiting(s, n) \/ SleepDone(s, n) \/ SleepExpired(s, n)
           \/ CheckReady(s, n) \/ ExpireIfNeeded(s, n) \/ LookupFails(s, n) \/ ReadClient(s, n)
           \/ StartAttempt(s, n) \/ CallAuthorize(s, n) \/ HandleAuthReply(s, n) \/ FinalCheck(s, n)
           \/ CallUnauthorize(s, n)
    PROVE  LinksKept
  <1>1. CASE StaleWorker(s, n)
    <2>1. MildStep(s) /\ wk[s][n].pc \in CallPcs
      BY <1>1, MildWrites DEF StaleWorker, CallPcs
    <2>. QED
      BY <1>1, <2>1, QuitStep DEF StaleWorker
  <1>2. CASE BeginWaiting(s, n)
    <2>1. MildStep(s)
      BY <1>2, MildWrites DEF BeginWaiting
    <2>2. wk[s][n].pc \in BeforePcs \ {"queued"} /\ "initialDelay" \in BeforePcs \ {"lookup"}
      BY <1>2 DEF BeginWaiting, At, BeforePcs, CallPcs
    <2>. QED
      BY <1>2, <2>1, <2>2, GotoStep DEF BeginWaiting
  <1>3. CASE SleepDone(s, n)
    <2>1. MildStep(s)
      BY <1>3, MildWrites DEF SleepDone
    <2>2. CASE Goto(s, n, "ready") /\ (At(s, n, "initialDelay") \/ At(s, n, "poll"))
      <3>1. wk[s][n].pc \in BeforePcs \ {"queued"} /\ "ready" \in BeforePcs \ {"lookup"}
        BY <2>2 DEF At, BeforePcs, CallPcs
      <3>. QED
        BY <1>3, <2>1, <2>2, <3>1, GotoStep DEF SleepDone
    <2>3. CASE ReadFrom(s, n, "verify") /\ At(s, n, "verifyDelay")
      <3>1. wk[s][n].pc \in CallPcs
        BY <2>3 DEF At, CallPcs
      <3>. QED
        BY <1>3, <2>1, <2>3, <3>1, ReadStep DEF SleepDone
    <2>. QED
      BY <1>3, <2>2, <2>3 DEF SleepDone
  <1>4. CASE SleepExpired(s, n)
    <2>1. MildStep(s) /\ wk[s][n].pc \in CallPcs
      BY <1>4, MildWrites DEF SleepExpired, CallPcs
    <2>. QED
      BY <1>4, <2>1, QuitStep DEF SleepExpired
  <1>5. CASE CheckReady(s, n)
    <2>1. MildStep(s) /\ wk[s][n].pc \in CallPcs
      BY <1>5, MildWrites DEF CheckReady, At, CallPcs
    <2>. QED
      BY <1>5, <2>1, ReadStep DEF CheckReady
  <1>6. CASE ExpireIfNeeded(s, n)
    <2>1. sess' = sess \/ sess' = [sess EXCEPT ![s] = ExpireLocked(@)]
      BY <1>6 DEF ExpireIfNeeded
    <2>2. MildStep(s) /\ wk[s][n].pc \in CallPcs
      BY <1>6, <2>1, MildWrites DEF ExpireIfNeeded, CallPcs
    <2>. QED
      BY <1>6, <2>2, QuitStep DEF ExpireIfNeeded
  <1>7. CASE LookupFails(s, n)
    <2>1. MildStep(s) /\ wk[s][n].pc \in CallPcs /\ "handle" \in CallPcs \ {"lookup"}
      BY <1>7, MildWrites DEF LookupFails, At, CallPcs
    <2>2. PICK r : wk' = [wk EXCEPT ![s][n].pc = "handle", ![s][n].reply = r]
      BY <1>7 DEF LookupFails
    <2>. QED
      BY <1>7, <2>1, <2>2, ReplyStep DEF LookupFails
  <1>8. CASE ReadClient(s, n)
    <2>1. MildStep(s) /\ wk[s][n].pc \in CallPcs /\ "handle" \in CallPcs \ {"lookup"}
      BY <1>8, MildWrites DEF ReadClient, At, CallPcs
    <2>2. PICK r : wk' = [wk EXCEPT ![s][n].pc = "handle", ![s][n].reply = r]
      BY <1>8 DEF ReadClient
    <2>. QED
      BY <1>8, <2>1, <2>2, ReplyStep DEF ReadClient
  <1>9. CASE StartAttempt(s, n)
    <2>. DEFINE u == [wk[s][n] EXCEPT !.pc = "authorize", !.attempt = @ + 1]
    <2>1. MildStep(s) /\ wk[s][n].pc \in BeforePcs \ {"queued"} /\ "authorize" \in BeforePcs \ {"lookup"}
      BY <1>9, MildWrites DEF StartAttempt, At, BeforePcs, CallPcs
    <2>2. wk' = [wk EXCEPT ![s][n] = u] /\ u.pc = "authorize"
      BY <1>9 DEF StartAttempt, JointInv, IInv, ThreadsInv, Thread
    <2>. HIDE DEF u
    <2>. QED
      BY <1>9, <2>1, <2>2, CallStep DEF StartAttempt
  <1>10. CASE CallAuthorize(s, n)
    <2>1. MildStep(s) /\ wk[s][n].pc \in CallPcs /\ "authReply" \in CallPcs \ {"lookup"}
      BY <1>10, MildWrites DEF CallAuthorize, At, CallPcs
    <2>2. PICK r : wk' = [wk EXCEPT ![s][n].pc = "authReply", ![s][n].reply = r]
      BY <1>10 DEF CallAuthorize
    <2>. QED
      BY <1>10, <2>1, <2>2, ReplyStep DEF CallAuthorize
  <1>11. CASE HandleAuthReply(s, n)
    <2>1. MildStep(s) /\ wk[s][n].pc \in CallPcs /\ "verifyDelay" \in CallPcs \ {"lookup"}
      BY <1>11, MildWrites DEF HandleAuthReply, At, CallPcs
    <2>. QED
      BY <1>11, <2>1, NoteStep DEF HandleAuthReply
  <1>12. CASE FinalCheck(s, n)
    <2>1. MildStep(s) /\ wk[s][n].pc \in CallPcs
      BY <1>12, MildWrites DEF FinalCheck, At, CallPcs
    <2>. QED
      BY <1>12, <2>1, ReadStep DEF FinalCheck
  <1>13. CASE CallUnauthorize(s, n)
    <2>1. MildStep(s) /\ wk[s][n].pc \in CallPcs /\ "resetReply" \in CallPcs \ {"lookup"}
      BY <1>13, MildWrites DEF CallUnauthorize, At, CallPcs
    <2>2. PICK r : wk' = [wk EXCEPT ![s][n].pc = "resetReply", ![s][n].reply = r]
      BY <1>13 DEF CallUnauthorize
    <2>. QED
      BY <1>13, <2>1, <2>2, ReplyStep DEF CallUnauthorize
  <1>. QED
    BY <1>1, <1>2, <1>3, <1>4, <1>5, <1>6, <1>7, <1>8, <1>9, <1>10, <1>11, <1>12, <1>13

\* A reply that is not `authorized'.
LEMMA HandleOtherLinked ==
    ASSUME JointInv, SessionsStep, NEW s \in Sessions, NEW n \in RunNos, NEW phase,
           NEW pc \in {"poll", "attempt", "finalCheck", "reset"}, HandleOther(s, n, phase, pc), MildStep(s)
    PROVE  LinksKept
  <1>1. wk[s][n].pc \in CallPcs /\ pc \in CallPcs \ {"lookup"}
    BY DEF HandleOther, At, CallPcs
  <1>. QED
    BY <1>1, NoteStep DEF HandleOther

LEMMA FinishRunFields ==
    ASSUME NEW x \in SessionObject, NEW n \in RunNos, NEW final, NEW retryable
    PROVE  LET y == FinishRun(x, n, final, retryable) IN
           /\ y.cur = x.cur /\ y.mac = x.mac /\ y.ip = x.ip /\ y.workerFinished = x.workerFinished
           /\ y.status = final /\ y.retryable = retryable
           /\ y.runs[n].final = final
           /\ \A k \in RunNos : k # n => y.runs[k] = x.runs[k]
  <1>. DEFINE r == SetFinal(x.runs[n], final, retryable)
              y == FinishRun(x, n, final, retryable)
  <1>1. x.runs[n] \in AuthRun
    BY DEF SessionObject
  <1>2. r.final = final
    BY <1>1 DEF AuthRun, SetFinal
  <1>3. /\ y.cur = x.cur /\ y.mac = x.mac /\ y.ip = x.ip /\ y.workerFinished = x.workerFinished
        /\ y.status = final /\ y.retryable = retryable
    BY <1>1 DEF FinishRun, UpdateActivity, SessionObject
  <1>4. y.runs = [x.runs EXCEPT ![n] = r]
    BY <1>1 DEF FinishRun, UpdateActivity, SessionObject
  <1>. HIDE DEF y, r
  <1>5. y.runs[n].final = final /\ \A k \in RunNos : k # n => y.runs[k] = x.runs[k]
    BY <1>2, <1>4 DEF SessionObject
  <1>. QED
    BY <1>3, <1>5 DEF y

\* The end of a run by the thread that carries it: no other run of the session has a say.
LEMMA EndStep ==
    ASSUME JointInv, SessionsStep, NEW s \in Sessions, NEW n \in RunNos, RunMatches(s, n),
           NEW final \in {"AUTHORIZED", "FAILED"}, NEW retryable, NEW u,
           sess' = [sess EXCEPT ![s] = FinishRun(@, n, final, retryable)],
           wk' = [wk EXCEPT ![s][n] = u],
           wk[s][n].pc \in BeforePcs \ {"queued"},
           u.pc \in {"submit", "finally", "refusedMark", "rejectedMark"},
           final = "AUTHORIZED" => u.reply = "authorized",
           u.pc = "refusedMark" => final = "FAILED" /\ ~retryable,
           UNCHANGED <<byId, byKey, queue, sessionFinished>>
    PROVE  LinksKept
  <1>. DEFINE x == sess[s]
              y == FinishRun(x, n, final, retryable)
  <1>1. SessionInv(x) /\ Writable(x, n) /\ IsActive(x)
    BY RunMatchesWritable DEF JointInv, IInv
  <1>2. \A k \in RunNos : RunInv(x, k, wk[s][k])
    BY DEF JointInv, RunsInv
  <1>3. x \in SessionObject /\ x.cur = n /\ n \in Nat
    BY <1>1, Values DEF SessionInv, Writable
  <1>4. /\ y.cur = x.cur /\ y.mac = x.mac /\ y.ip = x.ip /\ y.workerFinished = x.workerFinished
        /\ y.status = final /\ y.retryable = retryable /\ y.runs[n].final = final
        /\ \A k \in RunNos : k # n => y.runs[k] = x.runs[k]
    BY <1>3, FinishRunFields
  <1>5. sess'[s] = y /\ \A t \in Sessions : t # s => sess'[t] = sess[t]
    BY DEF JointInv, IInv, SessionsInv
  <1>6. \A t \in Sessions : sess'[t].cur = sess[t].cur /\ sess'[t].mac = sess[t].mac /\ sess'[t].ip = sess[t].ip
    BY <1>4, <1>5
  <1>. HIDE DEF y
  <1>7. ASSUME NEW k \in RunNos, k # n PROVE RunInv(y, k, wk[s][k])
    <2>1. ~IsFinished(x)
      BY <1>1 DEF IsActive, IsFinished, ActiveStatuses
    <2>2. k # x.cur
      BY <1>3, <1>7
    <2>. QED
      BY <1>2, <1>4, <1>7, <2>1, <2>2 DEF RunInv
  <1>8. RunInv(y, n, u)
    <2>1. ~x.workerFinished
      BY <1>2, <1>3, PcsAreApart DEF RunInv
    <2>2. u.pc \in AfterPcs /\ u.pc \notin {"none", "lookup", "refusedEmit"}
      BY DEF AfterPcs
    <2>3. u.pc = "refusedMark" => IsFinished(y)
      BY <1>4 DEF IsFinished
    <2>. QED
      BY <1>3, <1>4, <2>1, <2>2, <2>3 DEF RunInv
  <1>9. RunsInv'
    <2>1. \A t \in Sessions : t # s => Mild(sess[t], sess'[t])
      BY <1>5, MildStay
    <2>2. RunInv(sess'[s], n, u) /\ \A k \in RunNos : k # n => RunInv(sess'[s], k, wk[s][k])
      BY <1>5, <1>7, <1>8
    <2>. QED
      BY <2>1, <2>2, RunsMove
  <1>10. ListedInv' /\ KeysResolve'
    BY <1>6, ListedStays, KeysStay
  <1>11. QueueInv'
    BY QueueStays
  <1>. QED
    BY <1>9, <1>10, <1>11 DEF LinksKept

LEMMA QuitEnds ==
    ASSUME JointInv, SessionsStep, NEW s \in Sessions, NEW n \in RunNos, RunMatches(s, n), NEW retryable,
           sess' = [sess EXCEPT ![s] = FinishRun(@, n, "FAILED", retryable)],
           Quit(s, n), wk[s][n].pc \in CallPcs,
           UNCHANGED <<byId, byKey, queue, sessionFinished>>
    PROVE  LinksKept
  <1>1. [NoThread EXCEPT !.pc = "finally"].pc = "finally"
    BY DEF NoThread
  <1>2. wk[s][n].pc \in BeforePcs \ {"queued"}
    BY DEF BeforePcs, CallPcs
  <1>. QED
    BY <1>1, <1>2, EndStep DEF Quit

LEMMA EndingLinked ==
    ASSUME JointInv, SessionsStep, NEW s \in Sessions, NEW n \in RunNos,
           \/ HandleAuthorized(s, n) \/ (\E phase : GiveUp(s, n, phase))
           \/ HandleResetReply(s, n) \/ WorkerException(s, n)
    PROVE  LinksKept
  <1>1. CASE HandleAuthorized(s, n)
    <2>. DEFINE u == [NoThread EXCEPT !.pc = "submit", !.reply = wk[s][n].reply]
    <2>1. u.pc = "submit" /\ u.reply = wk[s][n].reply
      BY DEF NoThread
    <2>2. /\ RunMatches(s, n) /\ wk[s][n].reply = "authorized" /\ wk' = [wk EXCEPT ![s][n] = u]
          /\ sess' = [sess EXCEPT ![s] = FinishRun(@, n, "AUTHORIZED", FALSE)]
          /\ UNCHANGED <<byId, byKey, queue, sessionFinished>>
      BY <1>1 DEF HandleAuthorized
    <2>3. wk[s][n].pc \in BeforePcs \ {"queued"}
      BY <1>1 DEF HandleAuthorized, At, BeforePcs, CallPcs
    <2>. HIDE DEF u
    <2>. QED
      BY <2>1, <2>2, <2>3, EndStep
  <1>2. ASSUME NEW phase, GiveUp(s, n, phase) PROVE LinksKept
    BY <1>2, QuitEnds DEF GiveUp, At, CallPcs
  <1>3. CASE HandleResetReply(s, n)
    BY <1>3, QuitEnds DEF HandleResetReply, At, CallPcs
  <1>4. CASE WorkerException(s, n)
    BY <1>4, QuitEnds DEF WorkerException
  <1>. QED
    BY <1>1, <1>2, <1>3, <1>4

LEMMA HandlingLinked ==
    ASSUME JointInv, SessionsStep, NEW s \in Sessions, NEW n \in RunNos,
           HandleReadiness(s, n) \/ HandleVerify(s, n) \/ HandleFinal(s, n)
    PROVE  LinksKept
  <1>1. ASSUME NEW phase, GiveUp(s, n, phase) PROVE LinksKept
    BY <1>1, EndingLinked
  <1>2. ASSUME NEW phase, NEW pc \in {"poll", "attempt", "finalCheck", "reset"}, HandleOther(s, n, phase, pc),
               \/ sess' = [sess EXCEPT ![s] = UpdateActivity(@)]
               \/ sess' = [sess EXCEPT ![s] = UpdateStatus(@, "RESETTING")]
        PROVE  LinksKept
    <2>1. MildStep(s)
      BY <1>2, MildWrites
    <2>. QED
      BY <1>2, <2>1, HandleOtherLinked
  <1>3. CASE HandleReadiness(s, n)
    BY <1>1, <1>2, <1>3 DEF HandleReadiness
  <1>4. CASE HandleVerify(s, n)
    BY <1>2, <1>4 DEF HandleVerify
  <1>5. CASE HandleFinal(s, n)
    BY <1>1, <1>2, <1>5 DEF HandleFinal
  <1>. QED
    BY <1>3, <1>4, <1>5

\* A thread at or past the end of its run goes on.
LEMMA AfterMoves ==
    ASSUME NEW x, SessionInv(x), NEW n \in RunNos, NEW t, RunInv(x, n, t), t.pc \in BeforePcs \union AfterPcs,
           NEW u, u.pc \in AfterPcs, u.reply = t.reply,
           t.pc \in MarkedPcs => u.pc \in MarkedPcs,
           u.pc \in {"refusedMark", "refusedEmit"} => IsFinished(x)
    PROVE  RunInv(x, n, u)
  <1>1. x.cur \in Nat /\ n \in Nat
    BY Values, MaxRunsAssumption DEF SessionInv, SessionObject
  <1>2. n <= x.cur
    BY <1>1, PcsAreApart DEF RunInv
  <1>3. u.pc # "none" /\ u.pc # "lookup"
    BY DEF AfterPcs, MarkedPcs
  <1>. QED
    BY <1>1, <1>2, <1>3 DEF RunInv

\* A session may be reported as finished once it is.
LEMMA ListedReports ==
    ASSUME JointInv, SessionsStep, byId' = byId, NEW s \in Sessions, NEW final,
           sessionFinished' = sessionFinished
             \/ (EmitSessionFinished(s, final) /\ sess'[s].cur > 0 /\ IsFinished(sess'[s])),
           \A t \in Sessions : sess'[t].cur > 0 => sess[t].cur > 0
    PROVE  ListedInv'
  <1>1. SUFFICES ASSUME NEW t \in Sessions
                 PROVE  /\ t \in byId => sess'[t].cur > 0
                        /\ sess'[t].cur > 0 /\ t \notin byId => IsFinished(sess'[t])
                        /\ sessionFinished'[t] # "none" => sess'[t].cur > 0 /\ IsFinished(sess'[t])
    BY DEF ListedInv, IsFinished
  <1>2. SessionInv(sess[t]) /\ Legal(sess[t], sess'[t])
    BY DEF JointInv, IInv, SessionsInv, SessionsStep
  <1>3. sess[t].cur > 0 => sess'[t].cur > 0
    BY <1>2, CurGrows
  <1>4. sess[t].cur > 0 /\ IsFinished(sess[t]) => IsFinished(sess'[t])
    BY <1>2, FinishedStays
  <1>5. sessionFinished'[t] = sessionFinished[t] \/ (t = s /\ sess'[s].cur > 0 /\ IsFinished(sess'[s]))
    BY DEF JointInv, IInv, RestType, EmitSessionFinished
  <1>. QED
    BY <1>3, <1>4, <1>5 DEF JointInv, ListedInv

\* A step of a thread past the end of its run, which leaves the session alone.
LEMMA AfterStep ==
    ASSUME JointInv, SessionsStep, sess' = sess, NEW s \in Sessions, NEW n \in RunNos,
           NEW pc \in AfterPcs, Goto(s, n, pc),
           wk[s][n].pc \in (BeforePcs \ {"queued"}) \union AfterPcs,
           wk[s][n].pc \in MarkedPcs => pc \in MarkedPcs,
           pc \in {"refusedMark", "refusedEmit"} => IsFinished(sess[s]),
           UNCHANGED <<byId, byKey, queue>>
    PROVE  RunsInv' /\ QueueInv' /\ KeysResolve'
  <1>. DEFINE u == [wk[s][n] EXCEPT !.pc = pc]
  <1>1. wk' = [wk EXCEPT ![s][n] = u] /\ u.pc = pc /\ u.reply = wk[s][n].reply
    BY DEF Goto, JointInv, IInv, ThreadsInv, Thread
  <1>2. SessionInv(sess[s]) /\ \A k \in RunNos : RunInv(sess[s], k, wk[s][k])
    BY DEF JointInv, IInv, SessionsInv, RunsInv
  <1>. HIDE DEF u
  <1>3. RunInv(sess[s], n, u)
    BY <1>1, <1>2, AfterMoves
  <1>4. RunsInv'
    <2>1. \A t \in Sessions : t # s => Mild(sess[t], sess'[t])
      BY MildStay
    <2>2. RunInv(sess'[s], n, u) /\ \A k \in RunNos : k # n => RunInv(sess'[s], k, wk[s][k])
      BY <1>2, <1>3
    <2>. QED
      BY <1>1, <2>1, <2>2, RunsMove
  <1>5. QueueInv'
    <2>1. wk[s][n].pc # "queued"
      BY DEF AfterPcs, MarkedPcs
    <2>. QED
      BY <1>1, <2>1, QueueStays
  <1>6. KeysResolve'
    BY KeysStay
  <1>. QED
    BY <1>4, <1>5, <1>6

\* What StatusOfRun says of a run that is over.
LEMMA OverIsFinished ==
    ASSUME NEW x, SessionInv(x), x.cur > 0, x.runs[x.cur].final # "open",
           ~(x.runs[x.cur].final = "FAILED" /\ x.runs[x.cur].retryable)
    PROVE  IsFinished(x)
  <1>1. StatusOfRun(x) /\ x.status \in Statuses
    BY DEF SessionInv, SessionObject
  <1>. QED
    BY <1>1 DEF StatusOfRun, IsActive, IsFinished, Statuses, FinalStatuses

LEMMA ClaimLinked ==
    ASSUME JointInv, SessionsStep, NEW s \in Sessions, NEW n \in RunNos, ClaimWorker(s, n)
    PROVE  LinksKept
  <1>1. MildStep(s)
    <2>1. sess' = sess \/ sess' = [sess EXCEPT ![s] = ClaimRun(@, n)]
      BY DEF ClaimWorker
    <2>. QED
      BY <2>1, MildWrites
  <1>2. wk[s][n].pc \in BeforePcs \ {"queued"} /\ {"claimed", "refused"} \subseteq BeforePcs \ {"lookup"}
    BY DEF ClaimWorker, At, BeforePcs, CallPcs
  <1>. QED
    BY <1>1, <1>2, GotoStep DEF ClaimWorker

LEMMA SubmitLinked ==
    ASSUME JointInv, SessionsStep, NEW s \in Sessions, NEW n \in RunNos, SubmitWorker(s, n)
    PROVE  LinksKept
  <1>1. sess' = sess /\ byId' = byId /\ byKey' = byKey /\ sessionFinished' = sessionFinished
    BY DEF SubmitWorker
  <1>2. wk[s][n].pc = "claimed" /\ wk[s][n].pc \in BeforePcs \ {"queued"}
        /\ {"queued", "rejected"} \subseteq BeforePcs \ {"lookup"}
    BY DEF SubmitWorker, At, BeforePcs, CallPcs
  <1>3. CASE Goto(s, n, "rejected") /\ queue' = queue
    BY <1>1, <1>2, <1>3, GotoStep DEF MildStep
  <1>4. CASE Goto(s, n, "queued") /\ queue' = Append(queue, <<s, n>>)
    <2>. DEFINE u == [wk[s][n] EXCEPT !.pc = "queued"]
                e == <<s, n>>
    <2>1. wk \in [Sessions -> [RunNos -> Thread]] /\ queue \in Seq(Sessions \X RunNos) /\ QueueInv
      BY DEF JointInv, IInv, ThreadsInv, RestType
    <2>2. wk' = [wk EXCEPT ![s][n] = u] /\ u.pc = "queued"
      BY <1>4, <2>1 DEF Goto, Thread
    <2>3. SessionInv(sess[s]) /\ \A k \in RunNos : RunInv(sess[s], k, wk[s][k])
      BY DEF JointInv, IInv, SessionsInv, RunsInv
    <2>. HIDE DEF u
    <2>4. RunInv(sess[s], n, u)
      BY <1>2, <2>2, <2>3, BeforeMoves
    <2>5. RunsInv'
      <3>1. \A t \in Sessions : t # s => Mild(sess[t], sess'[t])
        BY <1>1, MildStay
      <3>2. RunInv(sess'[s], n, u) /\ \A k \in RunNos : k # n => RunInv(sess'[s], k, wk[s][k])
        BY <1>1, <2>3, <2>4
      <3>. QED
        BY <2>2, <3>1, <3>2, RunsMove
    <2>6. ListedInv' /\ KeysResolve'
      BY <1>1, ListedStays, KeysStay
    <2>7. ASSUME NEW j \in DOMAIN queue
          PROVE  queue[j] # e /\ wk'[queue[j][1]][queue[j][2]].pc = "queued"
      <3>1. /\ queue[j] \in Sessions \X RunNos /\ queue[j][1] \in Sessions /\ queue[j][2] \in RunNos
            /\ queue[j] = <<queue[j][1], queue[j][2]>>
        BY <2>1
      <3>2. wk[queue[j][1]][queue[j][2]].pc = "queued"
        BY <2>1 DEF QueueInv
      <3>. QED
        BY <1>2, <2>1, <2>2, <3>1, <3>2
    <2>8. wk'[s][n].pc = "queued"
      BY <2>1, <2>2
    <2>9. /\ DOMAIN queue = 1 .. Len(queue) /\ Len(queue) \in Nat
          /\ DOMAIN queue' = 1 .. (Len(queue) + 1)
          /\ queue'[Len(queue) + 1] = e
          /\ \A j \in 1 .. Len(queue) : queue'[j] = queue[j]
      <3>. DEFINE S == Sessions \X RunNos
      <3>1. queue \in Seq(S) /\ e \in S /\ queue' = Append(queue, e)
        BY <1>4, <2>1
      <3>. HIDE DEF S, e
      <3>. QED
        BY <3>1
    <2>10. e[1] = s /\ e[2] = n
      OBVIOUS
    <2>. HIDE DEF e
    <2>11. ASSUME NEW j \in DOMAIN queue'
           PROVE  (j \in DOMAIN queue /\ queue'[j] = queue[j]) \/ (j = Len(queue) + 1 /\ queue'[j] = e)
      BY <2>9
    <2>12. QueueInv'
      BY <2>1, <2>7, <2>8, <2>10, <2>11 DEF QueueInv
    <2>. QED
      BY <2>5, <2>6, <2>12 DEF LinksKept
  <1>. QED
    BY <1>3, <1>4 DEF SubmitWorker

LEMMA FailStartLinked ==
    ASSUME JointInv, SessionsStep, NEW s \in Sessions, NEW n \in RunNos, FailStart(s, n)
    PROVE  LinksKept
  <1>1. PICK pc \in {"refusedMark", "rejectedMark"} :
            /\ Goto(s, n, pc)
            /\ pc = "refusedMark" => At(s, n, "refused")
            /\ pc = "rejectedMark" => At(s, n, "rejected")
    BY DEF FailStart
  <1>2. wk[s][n].pc \in BeforePcs \ {"queued"} /\ wk[s][n].pc \notin MarkedPcs /\ pc \in AfterPcs
    BY <1>1 DEF At, BeforePcs, MarkedPcs, AfterPcs
  <1>3. byId' = byId /\ byKey' = byKey /\ queue' = queue /\ sessionFinished' = sessionFinished
    BY DEF FailStart
  <1>4. CASE RunMatches(s, n)
    <2>. DEFINE u == [wk[s][n] EXCEPT !.pc = pc]
    <2>1. wk' = [wk EXCEPT ![s][n] = u] /\ u.pc = pc
      BY <1>1 DEF Goto, JointInv, IInv, ThreadsInv, Thread
    <2>2. PICK retryable : /\ retryable = At(s, n, "rejected")
                           /\ sess' = [sess EXCEPT ![s] = FinishRun(@, n, "FAILED", retryable)]
      BY <1>4 DEF FailStart
    <2>3. u.pc = "refusedMark" => ~retryable
      BY <1>1, <2>1, <2>2 DEF At
    <2>. HIDE DEF u
    <2>. QED
      BY <1>1, <1>2, <1>3, <1>4, <2>1, <2>2, <2>3, EndStep
  <1>5. CASE ~RunMatches(s, n)
    <2>1. sess' = sess
      BY <1>5 DEF FailStart
    <2>2. SessionInv(sess[s]) /\ RunInv(sess[s], n, wk[s][n])
      BY DEF JointInv, IInv, SessionsInv, RunsInv
    <2>3. sess[s].cur \in Nat /\ n \in Nat /\ n > 0 /\ n <= sess[s].cur
      <3>1. wk[s][n].pc # "none" /\ sess[s].cur \in Nat /\ n \in Nat /\ n > 0
        BY <1>2, <2>2, PcsAreApart, CurGrows, Values, MaxRunsAssumption DEF RunNos, SessionInv, SessionObject
      <3>. QED
        BY <2>2, <3>1 DEF RunInv
    <2>4. sess[s].runs[n].final \notin {"AUTHORIZED", "FAILED"}
      BY <1>2, <2>2, <2>3, PcsAreApart DEF RunInv
    <2>5. n = sess[s].cur
      BY <2>2, <2>3, <2>4 DEF SessionInv, RetriesOf
    <2>6. IsFinished(sess[s])
      <3>1. CASE s \notin byId
        BY <2>3, <3>1 DEF JointInv, ListedInv
      <3>2. CASE s \in byId
        <4>1. sess[s].runs[n].final # "open"
          BY <1>5, <2>5, <3>2 DEF RunMatches
        <4>. QED
          BY <2>2, <2>3, <2>4, <2>5, <4>1, OverIsFinished
      <3>. QED
        BY <3>1, <3>2
    <2>7. RunsInv' /\ QueueInv' /\ KeysResolve'
      BY <1>1, <1>2, <1>3, <2>1, <2>6, AfterStep
    <2>8. ListedInv'
      BY <1>3, <2>1, ListedStays
    <2>. QED
      BY <2>7, <2>8 DEF LinksKept
  <1>. QED
    BY <1>4, <1>5

\* The reports of a thread past the end of its run.
LEMMA ReportingLinked ==
    ASSUME JointInv, SessionsStep, NEW s \in Sessions, NEW n \in RunNos,
           EmitStartFailure(s, n) \/ SubmitAuthorized(s, n) \/ EmitFinished(s, n)
    PROVE  LinksKept
  <1>1. sess' = sess /\ byId' = byId /\ byKey' = byKey /\ queue' = queue
    BY DEF EmitStartFailure, SubmitAuthorized, EmitFinished
  <1>2. SessionInv(sess[s]) /\ RunInv(sess[s], n, wk[s][n])
    BY DEF JointInv, IInv, SessionsInv, RunsInv
  <1>3. sess[s].cur \in Nat /\ n \in Nat /\ n > 0
    BY <1>2, Values, CurGrows, MaxRunsAssumption DEF RunNos, SessionInv, SessionObject
  <1>4. CASE EmitStartFailure(s, n)
    <2>1. wk[s][n].pc \in {"refusedEmit", "rejectedEmit"} /\ Goto(s, n, "done")
      BY <1>4 DEF EmitStartFailure, At
    <2>2. wk[s][n].pc \in (BeforePcs \ {"queued"}) \union AfterPcs /\ "done" \in MarkedPcs /\ "done" \in AfterPcs
      BY <2>1 DEF MarkedPcs, AfterPcs
    <2>3. RunsInv' /\ QueueInv' /\ KeysResolve'
      BY <1>1, <2>1, <2>2, AfterStep
    <2>4. wk[s][n].pc = "refusedEmit" => sess[s].cur > 0 /\ IsFinished(sess[s])
      BY <1>2, <1>3 DEF RunInv
    <2>5. \/ sessionFinished' = sessionFinished
          \/ EmitSessionFinished(s, sess[s].status) /\ sess'[s].cur > 0 /\ IsFinished(sess'[s])
      BY <1>1, <1>4, <2>4 DEF EmitStartFailure, At
    <2>6. ListedInv'
      BY <1>1, <2>5, ListedReports
    <2>. QED
      BY <2>3, <2>6 DEF LinksKept
  <1>5. CASE SubmitAuthorized(s, n)
    <2>1. wk[s][n].pc = "submit" /\ Goto(s, n, "finally") /\ sessionFinished' = sessionFinished
      BY <1>5 DEF SubmitAuthorized, At
    <2>2. "submit" \in AfterPcs /\ "finally" \in AfterPcs /\ "submit" \notin MarkedPcs
      BY DEF MarkedPcs, AfterPcs
    <2>3. RunsInv' /\ QueueInv' /\ KeysResolve'
      BY <1>1, <2>1, <2>2, AfterStep
    <2>4. ListedInv'
      BY <1>1, <2>1, ListedStays
    <2>. QED
      BY <2>3, <2>4 DEF LinksKept
  <1>6. CASE EmitFinished(s, n)
    <2>1. wk[s][n].pc = "emit" /\ Goto(s, n, "done")
      BY <1>6 DEF EmitFinished, At
    <2>2. "emit" \in AfterPcs /\ "done" \in MarkedPcs /\ "done" \in AfterPcs
      BY DEF MarkedPcs, AfterPcs
    <2>3. RunsInv' /\ QueueInv' /\ KeysResolve'
      BY <1>1, <2>1, <2>2, AfterStep
    <2>4. \/ sessionFinished' = sessionFinished
          \/ /\ EmitSessionFinished(s, sess[s].runs[n].final) /\ sess[s].cur = n
             /\ sess[s].runs[n].final # "open"
             /\ ~(sess[s].runs[n].final = "FAILED" /\ sess[s].runs[n].retryable)
      BY <1>6 DEF EmitFinished
    <2>5. \/ sessionFinished' = sessionFinished
          \/ EmitSessionFinished(s, sess[s].runs[n].final) /\ sess'[s].cur > 0 /\ IsFinished(sess'[s])
      BY <1>1, <1>2, <1>3, <2>4, OverIsFinished
    <2>6. ListedInv'
      BY <1>1, <2>5, ListedReports
    <2>. QED
      BY <2>3, <2>6 DEF LinksKept
  <1>. QED
    BY <1>4, <1>5, <1>6

LEMMA MarkWorkerFinishedFields ==
    ASSUME NEW x \in SessionObject, NEW n \in RunNos
    PROVE  LET y == MarkWorkerFinished(x, n) IN
           /\ y.cur = x.cur /\ y.mac = x.mac /\ y.ip = x.ip
           /\ y.status = x.status /\ y.retryable = x.retryable
           /\ y.workerFinished => (x.workerFinished \/ x.cur = n)
           /\ \A k \in RunNos : y.runs[k].final = x.runs[k].final
  <1>. DEFINE r == [x.runs[n] EXCEPT !.workerFinished = TRUE]
              y == MarkWorkerFinished(x, n)
  <1>1. x.runs[n] \in AuthRun
    BY DEF SessionObject
  <1>2. r.final = x.runs[n].final
    BY <1>1 DEF AuthRun
  <1>3. /\ y.cur = x.cur /\ y.mac = x.mac /\ y.ip = x.ip
        /\ y.status = x.status /\ y.retryable = x.retryable
        /\ y.workerFinished => (x.workerFinished \/ x.cur = n)
    BY <1>1 DEF MarkWorkerFinished, UpdateActivity, SessionObject
  <1>4. y.runs = [x.runs EXCEPT ![n] = r]
    BY <1>1 DEF MarkWorkerFinished, UpdateActivity, SessionObject
  <1>. HIDE DEF y, r
  <1>5. \A k \in RunNos : y.runs[k].final = x.runs[k].final
    BY <1>2, <1>4 DEF SessionObject
  <1>. QED
    BY <1>3, <1>5 DEF y

LEMMA MarkFinishedLinked ==
    ASSUME JointInv, SessionsStep, NEW s \in Sessions, NEW n \in RunNos, MarkFinished(s, n)
    PROVE  LinksKept
  <1>. DEFINE x == sess[s]
              y == MarkWorkerFinished(x, n)
  <1>1. PICK pc \in {"refusedEmit", "rejectedEmit", "emit"} :
            /\ Goto(s, n, pc)
            /\ wk[s][n].pc \in {"refusedMark", "rejectedMark", "finally"}
            /\ pc = "refusedEmit" => wk[s][n].pc = "refusedMark"
    BY DEF MarkFinished, At
  <1>2. wk[s][n].pc \in AfterPcs /\ wk[s][n].pc # "queued" /\ pc \in MarkedPcs /\ pc \in AfterPcs
    BY <1>1 DEF AfterPcs, MarkedPcs
  <1>3. byId' = byId /\ byKey' = byKey /\ queue' = queue /\ sessionFinished' = sessionFinished
    BY DEF MarkFinished
  <1>4. SessionInv(x) /\ x \in SessionObject /\ \A k \in RunNos : RunInv(x, k, wk[s][k])
    BY DEF JointInv, IInv, SessionsInv, SessionInv, RunsInv
  <1>5. pc = "refusedEmit" => IsFinished(x)
    BY <1>1, <1>4 DEF RunInv
  <1>6. CASE s \notin byId
    <2>1. sess' = sess
      BY <1>6 DEF MarkFinished
    <2>2. RunsInv' /\ QueueInv' /\ KeysResolve'
      BY <1>1, <1>2, <1>3, <1>5, <2>1, AfterStep
    <2>3. ListedInv'
      BY <1>3, <2>1, ListedStays
    <2>. QED
      BY <2>2, <2>3 DEF LinksKept
  <1>7. CASE s \in byId
    <2>. DEFINE u == [wk[s][n] EXCEPT !.pc = pc]
    <2>1. wk' = [wk EXCEPT ![s][n] = u] /\ u.pc = pc /\ u.reply = wk[s][n].reply
      BY <1>1 DEF Goto, JointInv, IInv, ThreadsInv, Thread
    <2>2. sess' = [sess EXCEPT ![s] = y]
      BY <1>7 DEF MarkFinished
    <2>3. /\ y.cur = x.cur /\ y.mac = x.mac /\ y.ip = x.ip
          /\ y.status = x.status /\ y.retryable = x.retryable
          /\ y.workerFinished => (x.workerFinished \/ x.cur = n)
          /\ \A k \in RunNos : y.runs[k].final = x.runs[k].final
      BY <1>4, MarkWorkerFinishedFields
    <2>. HIDE DEF y, u
    <2>4. sess'[s] = y /\ \A t \in Sessions : t # s => sess'[t] = sess[t]
      BY <2>2 DEF JointInv, IInv, SessionsInv
    <2>5. IsFinished(y) <=> IsFinished(x)
      BY <2>3 DEF IsFinished
    <2>6. ASSUME NEW k \in RunNos, k # n PROVE RunInv(y, k, wk[s][k])
      <3>1. RunInv(x, k, wk[s][k])
        BY <1>4
      <3>2. k = x.cur => (y.workerFinished => x.workerFinished)
        BY <2>3, <2>6
      <3>. QED
        BY <2>3, <2>5, <3>1, <3>2 DEF RunInv
    <2>7. RunInv(y, n, u)
      <3>1. RunInv(x, n, u)
        BY <1>2, <1>4, <1>5, <2>1, AfterMoves
      <3>. QED
        BY <1>2, <2>1, <2>3, <2>5, <3>1 DEF RunInv
    <2>8. RunsInv'
      <3>1. \A t \in Sessions : t # s => Mild(sess[t], sess'[t])
        BY <2>4, MildStay
      <3>2. RunInv(sess'[s], n, u) /\ \A k \in RunNos : k # n => RunInv(sess'[s], k, wk[s][k])
        BY <2>4, <2>6, <2>7
      <3>. QED
        BY <2>1, <3>1, <3>2, RunsMove
    <2>9. \A t \in Sessions : sess'[t].cur = sess[t].cur /\ sess'[t].mac = sess[t].mac /\ sess'[t].ip = sess[t].ip
      BY <2>3, <2>4
    <2>10. ListedInv' /\ KeysResolve'
      BY <1>3, <2>9, ListedStays, KeysStay
    <2>11. QueueInv'
      BY <1>2, <1>3, <2>1, QueueStays
    <2>. QED
      BY <2>8, <2>10, <2>11 DEF LinksKept
  <1>. QED
    BY <1>6, <1>7

LEMMA StartWorkerLinked ==
    ASSUME JointInv, SessionsStep, StartWorker
    PROVE  LinksKept
  <1>. DEFINE s == Head(queue)[1]
              n == Head(queue)[2]
              pc == IF RunMatches(s, n) THEN "started" ELSE "lost"
              u == [NoThread EXCEPT !.pc = pc]
  <1>1. /\ sess' = sess /\ byId' = byId /\ byKey' = byKey /\ sessionFinished' = sessionFinished
        /\ queue # <<>> /\ queue' = Tail(queue) /\ wk' = [wk EXCEPT ![s][n] = u]
    BY DEF StartWorker
  <1>2. u.pc \in {"started", "lost"}
    BY DEF NoThread
  <1>3. /\ queue \in Seq(Sessions \X RunNos) /\ QueueInv
        /\ wk \in [Sessions -> [RunNos -> Thread]]
    BY DEF JointInv, IInv, RestType, ThreadsInv
  <1>4. Len(queue) \in Nat /\ Len(queue) > 0 /\ DOMAIN queue = 1 .. Len(queue) /\ 1 \in DOMAIN queue
    BY <1>1, <1>3
  <1>5. Head(queue) = queue[1] /\ queue[1] \in Sessions \X RunNos
    BY <1>1, <1>3, <1>4
  <1>6. s \in Sessions /\ n \in RunNos /\ wk[s][n].pc = "queued"
    BY <1>3, <1>4, <1>5 DEF QueueInv
  <1>7. /\ DOMAIN queue' = 1 .. (Len(queue) - 1)
        /\ \A j \in DOMAIN queue' : j + 1 \in DOMAIN queue /\ j + 1 # 1 /\ queue'[j] = queue[j + 1]
    <2>. DEFINE S == Sessions \X RunNos
    <2>1. queue \in Seq(S)
      BY <1>3
    <2>. HIDE DEF S
    <2>. QED
      BY <1>1, <1>4, <2>1
  <1>8. ASSUME NEW j \in DOMAIN queue' PROVE wk'[queue'[j][1]][queue'[j][2]].pc = "queued"
    <2>. DEFINE e == queue[j + 1]
    <2>1. e \in Sessions \X RunNos /\ wk[e[1]][e[2]].pc = "queued" /\ e # queue[1] /\ queue'[j] = e
      <3>1. PICK i \in DOMAIN queue : i = j + 1 /\ i # 1 /\ queue'[j] = queue[i]
        BY <1>7
      <3>2. queue[i] \in Sessions \X RunNos
        BY <1>3
      <3>3. wk[queue[i][1]][queue[i][2]].pc = "queued" /\ queue[i] # queue[1]
        BY <1>3, <1>4, <3>1 DEF QueueInv
      <3>. QED
        BY <3>1, <3>2, <3>3
    <2>2. e[1] \in Sessions /\ e[2] \in RunNos /\ ~(e[1] = s /\ e[2] = n)
      BY <1>5, <2>1
    <2>. HIDE DEF e, s, n, u
    <2>. QED
      BY <1>1, <1>3, <2>1, <2>2
  <1>9. ASSUME NEW j \in DOMAIN queue', NEW k \in DOMAIN queue', queue'[j] = queue'[k] PROVE j = k
    <2>1. j + 1 = k + 1
      BY <1>3, <1>7, <1>9 DEF QueueInv
    <2>. QED
      BY <1>4, <1>7, <2>1
  <1>10. QueueInv'
    BY <1>8, <1>9 DEF QueueInv
  <1>. HIDE DEF s, n, u
  <1>11. SessionInv(sess[s]) /\ \A k \in RunNos : RunInv(sess[s], k, wk[s][k])
    BY <1>6 DEF JointInv, IInv, SessionsInv, RunsInv
  <1>12. RunInv(sess[s], n, u)
    <2>1. wk[s][n].pc \in BeforePcs /\ u.pc \in BeforePcs \union {"lost", "finally"} /\ u.pc # "lookup"
      BY <1>2, <1>6 DEF BeforePcs, CallPcs
    <2>. QED
      BY <1>6, <1>11, <2>1, BeforeMoves
  <1>13. RunsInv'
    <2>1. \A t \in Sessions : t # s => Mild(sess[t], sess'[t])
      BY <1>1, MildStay
    <2>2. RunInv(sess'[s], n, u) /\ \A k \in RunNos : k # n => RunInv(sess'[s], k, wk[s][k])
      BY <1>1, <1>11, <1>12
    <2>. QED
      BY <1>1, <1>6, <2>1, <2>2, RunsMove
  <1>14. ListedInv' /\ KeysResolve'
    BY <1>1, ListedStays, KeysStay
  <1>. QED
    BY <1>10, <1>13, <1>14 DEF LinksKept

\* A session that resolved its MAC: the old key can only have been its IP.
LEMMA ResolveMacLinked ==
    ASSUME JointInv, SessionsStep, NEW s \in Sessions, NEW n \in RunNos, NEW m \in Macs, ResolveMac(s, n, m)
    PROVE  LinksKept
  <1>. DEFINE x == sess[s]
              y == SetClientMac(x, m)
              u == [wk[s][n] EXCEPT !.pc = "read"]
  <1>1. RunMatches(s, n) /\ s \in byId /\ x.cur = n /\ x.runs[n].final = "open" /\ wk[s][n].pc = "lookup"
    BY DEF ResolveMac, RunMatches, At
  <1>2. /\ sess' = [sess EXCEPT ![s] = y] /\ byId' = byId /\ queue' = queue
        /\ sessionFinished' = sessionFinished
        /\ byKey' = [byKey EXCEPT ![SessionKey(x.mac, x.ip)] = s, ![<<"mac", m>>] = s]
    BY DEF ResolveMac
  <1>3. wk' = [wk EXCEPT ![s][n] = u] /\ u.pc = "read" /\ u.reply = wk[s][n].reply
    BY DEF ResolveMac, Goto, JointInv, IInv, ThreadsInv, Thread
  <1>4. SessionInv(x) /\ x \in SessionObject /\ \A k \in RunNos : RunInv(x, k, wk[s][k])
    BY DEF JointInv, IInv, SessionsInv, SessionInv, RunsInv
  <1>5. n \in Nat /\ n <= n /\ n > 0
    BY Values DEF RunNos
  <1>6. x.mac = NoMac
    BY <1>1, <1>4 DEF RunInv
  <1>7. /\ y.cur = x.cur /\ y.mac = m /\ y.ip = x.ip /\ y.workerFinished = x.workerFinished
        /\ y.runs = x.runs /\ y.status = x.status /\ y.retryable = x.retryable
    BY <1>4 DEF SetClientMac, UpdateActivity, SessionObject
  <1>8. sess'[s] = y /\ \A t \in Sessions : t # s => sess'[t] = sess[t]
    BY <1>2 DEF JointInv, IInv, SessionsInv
  <1>. HIDE DEF y, u
  <1>9. ASSUME NEW k \in RunNos, k # n PROVE RunInv(y, k, wk[s][k])
    <2>1. RunInv(x, k, wk[s][k]) /\ k # x.cur
      BY <1>1, <1>4, <1>9
    <2>. QED
      BY <1>7, <2>1 DEF RunInv, IsFinished
  <1>10. RunInv(y, n, u)
    <2>1. ~x.workerFinished
      BY <1>1, <1>4, <1>5 DEF RunInv, MarkedPcs
    <2>. QED
      BY <1>1, <1>3, <1>5, <1>7, <2>1 DEF RunInv
  <1>11. RunsInv'
    <2>1. \A t \in Sessions : t # s => Mild(sess[t], sess'[t])
      BY <1>8, MildStay
    <2>2. RunInv(sess'[s], n, u) /\ \A k \in RunNos : k # n => RunInv(sess'[s], k, wk[s][k])
      BY <1>8, <1>9, <1>10
    <2>. QED
      BY <1>3, <2>1, <2>2, RunsMove
  <1>12. ListedInv'
    BY <1>2, <1>7, <1>8, ListedStays
  <1>13. QueueInv'
    BY <1>1, <1>2, <1>3, QueueStays
  <1>14. KeysResolve'
    <2>1. SUFFICES ASSUME NEW k \in Keys, byKey'[k] # NoSession
                   PROVE  /\ byKey'[k] \in byId
                          /\ k = <<"mac", sess'[byKey'[k]].mac>> \/ k = <<"ip", sess'[byKey'[k]].ip>>
      BY <1>2 DEF KeysResolve
    <2>2. byKey \in [Keys -> Sessions \union {NoSession}]
      BY DEF JointInv, IInv, RestType
    <2>3. SessionKey(x.mac, x.ip) = <<"ip", x.ip>>
      BY <1>6 DEF SessionKey
    <2>4. CASE k = <<"mac", m>>
      BY <1>1, <1>2, <1>7, <1>8, <2>2, <2>4
    <2>5. CASE k = <<"ip", x.ip>>
      BY <1>1, <1>2, <1>7, <1>8, <2>2, <2>3, <2>5
    <2>6. CASE k # <<"mac", m>> /\ k # <<"ip", x.ip>>
      <3>1. byKey'[k] = byKey[k]
        BY <1>2, <2>2, <2>3, <2>6
      <3>2. /\ byKey[k] \in byId /\ byKey[k] \in Sessions
            /\ k = <<"mac", sess[byKey[k]].mac>> \/ k = <<"ip", sess[byKey[k]].ip>>
        BY <2>1, <2>2, <3>1, NoValueAssumption DEF JointInv, KeysResolve
      <3>3. k # <<"mac", NoMac>>
        BY NoValueAssumption DEF Keys
      <3>4. byKey[k] # s
        BY <1>6, <2>6, <3>2, <3>3
      <3>. QED
        BY <1>8, <3>1, <3>2, <3>4
    <2>. QED
      BY <2>4, <2>5, <2>6
  <1>. QED
    BY <1>11, <1>12, <1>13, <1>14 DEF LinksKept

\* Steps that touch one session mildly and no thread.
LEMMA MildLinked ==
    ASSUME JointInv, SessionsStep, NEW s \in Sessions, MildStep(s), wk' = wk,
           UNCHANGED <<byId, byKey, queue, sessionFinished>>
    PROVE  LinksKept
  <1>1. \A t \in Sessions : Mild(sess[t], sess'[t])
    BY AllMild
  <1>2. RunsInv' /\ ListedInv' /\ KeysResolve'
    BY <1>1, RunsStay, ListedStays, KeysStay DEF Mild
  <1>3. QueueInv'
    BY DEF JointInv, QueueInv
  <1>. QED
    BY <1>2, <1>3 DEF LinksKept

\* Whatever it was, an expired session is finished.
LEMMA ExpireLockedFinishes ==
    ASSUME NEW x, SessionInv(x), x.cur > 0
    PROVE  IsFinished(ExpireLocked(x))
  <1>1. ExpireLocked(x).status = "EXPIRED"
    <2>1. CASE x.status = "EXPIRED"
      BY <2>1 DEF ExpireLocked
    <2>2. CASE x.status # "EXPIRED" /\ CurrentOpen(x)
      <3>1. x.cur \in RunNos /\ x \in SessionObject
        BY Values DEF SessionInv, SessionObject
      <3>2. FinishRun(x, x.cur, "EXPIRED", FALSE).status = "EXPIRED"
        BY <3>1 DEF FinishRun, UpdateActivity, SessionObject
      <3>. QED
        BY <2>2, <3>2 DEF ExpireLocked
    <2>3. CASE x.status # "EXPIRED" /\ ~CurrentOpen(x)
      BY <2>3 DEF ExpireLocked, UpdateActivity, SessionInv, SessionObject
    <2>. QED
      BY <2>1, <2>2, <2>3
  <1>. QED
    BY <1>1 DEF IsFinished

\* The status poll and a retry of an overdue session.
LEMMA ExpiryByWebLinked ==
    ASSUME JointInv, SessionsStep, NEW s \in Sessions, sess[s].old,
           sess' = [sess EXCEPT ![s] = ExpireLocked(@)], EmitSessionFinished(s, "EXPIRED"),
           UNCHANGED <<byId, byKey, wk, queue>>
    PROVE  LinksKept
  <1>1. SessionInv(sess[s])
    BY DEF JointInv, IInv, SessionsInv
  <1>2. \A t \in Sessions : Mild(sess[t], sess'[t])
    BY MildExpiry, AllMild, <1>1 DEF MildStep
  <1>3. sess'[s].cur > 0 /\ IsFinished(sess'[s])
    <2>1. sess'[s] = ExpireLocked(sess[s])
      BY DEF JointInv, IInv, SessionsInv
    <2>2. sess'[s].cur = sess[s].cur /\ sess[s].cur > 0
      BY <1>1, <1>2 DEF Mild, SessionInv
    <2>. QED
      BY <1>1, <2>1, <2>2, ExpireLockedFinishes
  <1>4. RunsInv' /\ KeysResolve'
    BY <1>2, RunsStay, KeysStay DEF Mild
  <1>5. ListedInv'
    BY <1>2, <1>3, ListedReports DEF Mild
  <1>6. QueueInv'
    BY DEF JointInv, QueueInv
  <1>. QED
    BY <1>4, <1>5, <1>6 DEF LinksKept

\* Cleanup drops only sessions that are finished.
LEMMA CleanupLinked ==
    ASSUME JointInv, SessionsStep, sess' = Expired, byId' = byId \ Retired, byKey' = Detach(byKey, Retired),
           UNCHANGED <<wk, queue, sessionFinished>>
    PROVE  LinksKept
  <1>1. \A t \in Sessions : Mild(sess[t], sess'[t])
    BY MildExpired DEF JointInv, IInv
  <1>2. RunsInv'
    BY <1>1, RunsStay
  <1>3. ListedInv'
    <2>1. SUFFICES ASSUME NEW t \in Sessions
                   PROVE  /\ t \in byId' => sess'[t].cur > 0
                          /\ sess'[t].cur > 0 /\ t \notin byId' => IsFinished(sess'[t])
                          /\ sessionFinished[t] # "none" => sess'[t].cur > 0 /\ IsFinished(sess'[t])
      BY DEF ListedInv, IsFinished
    <2>2. SessionInv(sess[t]) /\ Legal(sess[t], sess'[t]) /\ sess'[t].cur = sess[t].cur
      BY <1>1 DEF JointInv, IInv, SessionsInv, SessionsStep, Mild
    <2>3. sess[t].cur > 0 /\ IsFinished(sess[t]) => IsFinished(sess'[t])
      BY <2>2, FinishedStays
    <2>4. t \in Retired => IsFinished(sess'[t])
      BY DEF Retired
    <2>. QED
      BY <2>2, <2>3, <2>4 DEF JointInv, ListedInv
  <1>4. QueueInv'
    BY DEF JointInv, QueueInv
  <1>5. KeysResolve'
    <2>1. SUFFICES ASSUME NEW k \in Keys, byKey'[k] # NoSession
                   PROVE  /\ byKey'[k] \in byId'
                          /\ k = <<"mac", sess'[byKey'[k]].mac>> \/ k = <<"ip", sess'[byKey'[k]].ip>>
      BY DEF KeysResolve
    <2>2. byKey'[k] = byKey[k] /\ byKey[k] \notin Retired /\ byKey[k] # NoSession
      BY <2>1 DEF Detach
    <2>3. byKey[k] \in Sessions /\ byKey[k] \in byId
      BY <2>2 DEF JointInv, IInv, RestType, KeysResolve
    <2>. QED
      BY <1>1, <2>2, <2>3 DEF JointInv, KeysResolve, Mild
  <1>. QED
    BY <1>2, <1>3, <1>4, <1>5 DEF LinksKept

LEMMA CreateRunFields ==
    ASSUME NEW x \in SessionObject, NEW n \in RunNos
    PROVE  LET y == CreateRun(x, n) IN
           /\ y.cur = n /\ y.mac = x.mac /\ y.ip = x.ip /\ ~y.workerFinished
           /\ y.runs[n].final = "open"
           /\ \A k \in RunNos : k # n => y.runs[k] = x.runs[k]
  <1>. DEFINE y == CreateRun(x, n)
  <1>1. /\ y.cur = n /\ y.mac = x.mac /\ y.ip = x.ip /\ ~y.workerFinished
        /\ y.runs = [x.runs EXCEPT ![n] = NewRun]
    BY DEF CreateRun, UpdateActivity, SessionObject
  <1>. HIDE DEF y
  <1>2. y.runs[n].final = "open" /\ \A k \in RunNos : k # n => y.runs[k] = x.runs[k]
    BY <1>1 DEF SessionObject, NewRun
  <1>. QED
    BY <1>1, <1>2 DEF y

\* The thread of a run that has just been created.
LEMMA CreatedThread ==
    LET u == [NoThread EXCEPT !.pc = "created"] IN u.pc = "created"
  BY DEF NoThread

LEMMA RetryCreatesRunLinked ==
    ASSUME JointInv, SessionsStep, NEW s \in Sessions, NEW q \in RequestIds, RetryCreatesRun(s, q)
    PROVE  LinksKept
  <1>. DEFINE x == sess[s]
              n == x.cur + 1
              z == CreateRun(x, n)
              y == BindRequest(z, q, n)
              u == [NoThread EXCEPT !.pc = "created"]
  <1>1. /\ s \in byId /\ CanRetry(x) /\ n \in RunNos
        /\ sess' = [sess EXCEPT ![s] = y] /\ wk' = [wk EXCEPT ![s][n] = u]
        /\ byId' = byId /\ byKey' = byKey /\ queue' = queue /\ sessionFinished' = sessionFinished
    BY DEF RetryCreatesRun
  <1>2. SessionInv(x) /\ x \in SessionObject /\ \A k \in RunNos : RunInv(x, k, wk[s][k])
    BY DEF JointInv, IInv, SessionsInv, SessionInv, RunsInv
  <1>3. x.cur \in Nat /\ \A k \in RunNos : k \in Nat
    BY <1>2, Values, MaxRunsAssumption DEF SessionInv, SessionObject
  <1>4. y.cur = z.cur /\ y.mac = z.mac /\ y.ip = z.ip /\ y.workerFinished = z.workerFinished /\ y.runs = z.runs
    BY <1>2 DEF BindRequest, CreateRun, UpdateActivity, SessionObject
  <1>5. /\ y.cur = n /\ y.mac = x.mac /\ y.ip = x.ip /\ ~y.workerFinished /\ y.runs[n].final = "open"
        /\ \A k \in RunNos : k # n => y.runs[k] = x.runs[k]
    BY <1>1, <1>2, <1>4, CreateRunFields
  <1>6. sess'[s] = y /\ \A t \in Sessions : t # s => sess'[t] = sess[t]
    BY <1>1 DEF JointInv, IInv, SessionsInv
  <1>7. u.pc = "created"
    BY CreatedThread
  <1>. HIDE DEF y, z, u
  <1>8. ~IsFinished(x)
    BY <1>1 DEF CanRetry, IsFinished
  <1>9. ASSUME NEW k \in RunNos, k # n PROVE RunInv(y, k, wk[s][k])
    <2>1. RunInv(x, k, wk[s][k])
      BY <1>2
    <2>2. (k > y.cur => k > x.cur) /\ (k <= y.cur => k <= x.cur) /\ k # y.cur
      BY <1>3, <1>5, <1>9
    <2>3. k \in Nat /\ (k <= x.cur \/ k > x.cur)
      BY <1>3
    <2>4. wk[s][k].pc \notin {"refusedMark", "refusedEmit"}
      BY <1>8, <2>1 DEF RunInv
    <2>. QED
      BY <1>5, <1>9, <2>1, <2>2, <2>3, <2>4 DEF RunInv
  <1>10. RunInv(y, n, u)
    <2>1. ~(n > y.cur) /\ n <= y.cur
      BY <1>3, <1>5
    <2>. QED
      BY <1>5, <1>7, <2>1 DEF RunInv
  <1>11. RunsInv'
    <2>1. \A t \in Sessions : t # s => Mild(sess[t], sess'[t])
      BY <1>6, MildStay
    <2>2. RunInv(sess'[s], n, u) /\ \A k \in RunNos : k # n => RunInv(sess'[s], k, wk[s][k])
      BY <1>6, <1>9, <1>10
    <2>. QED
      BY <1>1, <2>1, <2>2, RunsMove
  <1>12. ListedInv'
    <2>1. SUFFICES ASSUME NEW t \in Sessions
                   PROVE  /\ t \in byId => sess'[t].cur > 0
                          /\ sess'[t].cur > 0 /\ t \notin byId => IsFinished(sess'[t])
                          /\ sessionFinished[t] # "none" => sess'[t].cur > 0 /\ IsFinished(sess'[t])
      BY <1>1 DEF ListedInv, IsFinished
    <2>2. CASE t = s
      BY <1>1, <1>3, <1>5, <1>6, <1>8, <2>2 DEF JointInv, ListedInv
    <2>3. CASE t # s
      BY <1>6, <2>3 DEF JointInv, ListedInv
    <2>. QED
      BY <2>2, <2>3
  <1>13. KeysResolve'
    BY <1>1, <1>5, <1>6, KeysStay
  <1>14. QueueInv'
    <2>1. wk[s][n].pc # "queued"
      BY <1>1, <1>2, <1>3 DEF RunInv
    <2>. QED
      BY <1>1, <2>1, QueueStays
  <1>. QED
    BY <1>11, <1>12, <1>13, <1>14 DEF LinksKept

\* A session that is replaced was finished.
LEMMA ReplacedIsFinished ==
    ASSUME NEW x, SessionInv(x), ~Reusable(x)
    PROVE  IsFinished(x)
  <1>1. x.status \in Statuses
    BY DEF SessionInv, SessionObject
  <1>. QED
    BY <1>1 DEF Reusable, IsActive, CanRetry, IsFinished, Statuses, FinalStatuses

LEMMA CreateSessionLinked ==
    ASSUME JointInv, SessionsStep, NEW c \in Contexts, NEW s \in Sessions, CreateSession(c, s)
    PROVE  LinksKept
  <1>. DEFINE x == sess[s]
              y == CreateRun(NewSession(c), 1)
              e == Existing(c)
              removed == IF e # NoSession /\ ~Expired[e].old THEN {e} ELSE {}
              keys == Detach(byKey, Retired \union {e})
              u == [NoThread EXCEPT !.pc = "created"]
  <1>1. /\ x.cur = 0 /\ (e # NoSession => (Expired[e].old \/ ~Reusable(Expired[e])))
        /\ sess' = [Expired EXCEPT ![s] = y] /\ wk' = [wk EXCEPT ![s][1] = u]
        /\ byId' = (byId \ (Retired \union removed)) \union {s}
        /\ byKey' = [k \in Keys |->
                        IF k = SessionKey(c.mac, c.ip) \/ (c.ip # NoIp /\ k = <<"ip", c.ip>>)
                        THEN s ELSE keys[k]]
        /\ queue' = queue /\ sessionFinished' = sessionFinished
    BY DEF CreateSession
  <1>2. SessionInv(x) /\ \A k \in RunNos : RunInv(x, k, wk[s][k])
    BY DEF JointInv, IInv, SessionsInv, RunsInv
  <1>3. /\ Expired \in [Sessions -> SessionObject]
        /\ \A t \in Sessions : Legal(sess[t], Expired[t]) /\ Mild(sess[t], Expired[t])
    BY ExpiredLegal, MildExpired DEF JointInv, IInv
  <1>4. y.cur = 1 /\ y.mac = c.mac /\ y.ip = c.ip /\ ~y.workerFinished /\ y.runs[1].final = "open"
    BY Values DEF CreateRun, UpdateActivity, NewSession, NewRun
  <1>5. u.pc = "created"
    BY CreatedThread
  <1>6. removed \subseteq {e} /\ \A t \in removed : t # NoSession /\ ~Reusable(Expired[t])
    BY <1>1
  <1>. HIDE DEF y, e, u, removed, keys
  <1>7. sess'[s] = y /\ \A t \in Sessions : t # s => sess'[t] = Expired[t]
    <2>. HIDE DEF Expired
    <2>. QED
      BY <1>1, <1>3
  <1>8. s \notin byId
    BY <1>1 DEF JointInv, ListedInv
  <1>9. RunsInv'
    <2>1. \A k \in RunNos : k \in Nat /\ k > 0 /\ wk[s][k].pc = "none"
      BY <1>1, <1>2, Values DEF RunInv, RunNos
    <2>2. ASSUME NEW k \in RunNos, k # 1 PROVE RunInv(y, k, wk[s][k])
      <3>1. k > 1 /\ ~(k <= 1)
        BY <2>1, <2>2
      <3>. QED
        BY <1>4, <2>1, <2>2, <3>1 DEF RunInv
    <2>3. RunInv(y, 1, u)
      BY <1>4, <1>5 DEF RunInv
    <2>4. \A t \in Sessions : t # s => Mild(sess[t], sess'[t])
      BY <1>3, <1>7
    <2>5. RunInv(sess'[s], 1, u) /\ \A k \in RunNos : k # 1 => RunInv(sess'[s], k, wk[s][k])
      BY <1>7, <2>2, <2>3
    <2>6. 1 \in RunNos /\ wk' = [wk EXCEPT ![s][1] = u]
      BY <1>1, Values
    <2>. QED
      BY <2>4, <2>5, <2>6, RunsMove
  <1>10. ListedInv'
    <2>1. SUFFICES ASSUME NEW t \in Sessions
                   PROVE  /\ t \in byId' => sess'[t].cur > 0
                          /\ sess'[t].cur > 0 /\ t \notin byId' => IsFinished(sess'[t])
                          /\ sessionFinished[t] # "none" => sess'[t].cur > 0 /\ IsFinished(sess'[t])
      BY <1>1 DEF ListedInv, IsFinished
    <2>2. CASE t = s
      BY <1>1, <1>4, <1>7, <2>2 DEF JointInv, ListedInv
    <2>3. CASE t # s
      <3>1. SessionInv(sess[t]) /\ Legal(sess[t], sess'[t]) /\ sess'[t].cur = sess[t].cur
        BY <1>3, <1>7, <2>3 DEF JointInv, IInv, SessionsInv, Mild
      <3>2. sess[t].cur > 0 /\ IsFinished(sess[t]) => IsFinished(sess'[t])
        BY <3>1, FinishedStays
      <3>3. t \in Retired => IsFinished(sess'[t])
        BY <1>7, <2>3 DEF Retired
      <3>4. t \in removed => IsFinished(sess'[t])
        BY <1>6, <1>7, <2>3, <3>1, ReplacedIsFinished DEF Legal
      <3>. QED
        BY <1>1, <2>3, <3>1, <3>2, <3>3, <3>4 DEF JointInv, ListedInv
    <2>. QED
      BY <2>2, <2>3
  <1>11. QueueInv'
    <2>1. wk[s][1].pc # "queued" /\ 1 \in RunNos
      BY <1>1, <1>2, Values DEF RunInv
    <2>. QED
      BY <1>1, <2>1, QueueStays
  <1>12. KeysResolve'
    <2>1. SUFFICES ASSUME NEW k \in Keys, byKey'[k] # NoSession
                   PROVE  /\ byKey'[k] \in byId'
                          /\ k = <<"mac", sess'[byKey'[k]].mac>> \/ k = <<"ip", sess'[byKey'[k]].ip>>
      BY DEF KeysResolve
    <2>2. CASE k = SessionKey(c.mac, c.ip) \/ (c.ip # NoIp /\ k = <<"ip", c.ip>>)
      <3>1. byKey'[k] = s /\ s \in byId'
        BY <1>1, <2>2
      <3>. QED
        BY <1>4, <1>7, <2>2, <3>1 DEF SessionKey
    <2>3. CASE ~(k = SessionKey(c.mac, c.ip) \/ (c.ip # NoIp /\ k = <<"ip", c.ip>>))
      <3>1. byKey'[k] = keys[k]
        BY <1>1, <2>3
      <3>2. byKey'[k] = byKey[k] /\ byKey[k] \notin Retired /\ byKey[k] # e /\ byKey[k] # NoSession
        BY <2>1, <3>1 DEF keys, Detach
      <3>3. /\ byKey[k] \in Sessions /\ byKey[k] \in byId
            /\ k = <<"mac", sess[byKey[k]].mac>> \/ k = <<"ip", sess[byKey[k]].ip>>
        BY <3>2 DEF JointInv, IInv, RestType, KeysResolve
      <3>4. byKey[k] # s /\ byKey[k] \in byId'
        BY <1>1, <1>6, <1>8, <3>2, <3>3
      <3>5. sess'[byKey[k]].mac = sess[byKey[k]].mac /\ sess'[byKey[k]].ip = sess[byKey[k]].ip
        BY <1>3, <1>7, <3>3, <3>4 DEF Mild
      <3>. QED
        BY <3>2, <3>3, <3>4, <3>5
    <2>. QED
      BY <2>2, <2>3
  <1>. QED
    BY <1>9, <1>10, <1>11, <1>12 DEF LinksKept

LEMMA InitJoint == Init => JointInv
  <1>. SUFFICES ASSUME Init PROVE JointInv
    OBVIOUS
  <1>1. IInv
    BY InitIInv
  <1>2. \A s \in Sessions : sess[s].cur = 0
    BY DEF Init, NewSession
  <1>3. \A s \in Sessions, n \in RunNos : wk[s][n].pc = "none"
    BY DEF Init, NoThread
  <1>4. \A n \in RunNos : n \in Nat /\ n > 0 /\ ~(n <= 0)
    BY Values DEF RunNos
  <1>5. RunsInv
    BY <1>2, <1>3, <1>4 DEF RunsInv, RunInv
  <1>6. ListedInv
    BY <1>2 DEF Init, ListedInv
  <1>7. QueueInv
    BY DEF Init, QueueInv
  <1>8. KeysResolve
    BY DEF Init, KeysResolve
  <1>. QED
    BY <1>1, <1>5, <1>6, <1>7, <1>8 DEF JointInv

LEMMA WorkerStepLinked ==
    ASSUME JointInv, SessionsStep, NEW s \in Sessions, NEW n \in RunNos, WorkerStep(s, n)
    PROVE  LinksKept
  BY WorkingLinked, EndingLinked, HandlingLinked, ReportingLinked, ResolveMacLinked DEF WorkerStep

LEMMA StartStepLinked ==
    ASSUME JointInv, SessionsStep, NEW s \in Sessions, NEW n \in RunNos, StartStep(s, n)
    PROVE  LinksKept
  BY ClaimLinked, SubmitLinked, FailStartLinked, ReportingLinked DEF StartStep

LEMMA NextLinked ==
    ASSUME JointInv, SessionsStep, Next
    PROVE  LinksKept
  <1>1. ASSUME NEW c \in Contexts, ReuseSession(c) PROVE LinksKept
    BY <1>1, CleanupLinked DEF ReuseSession
  <1>2. ASSUME NEW c \in Contexts, NEW s \in Sessions, CreateSession(c, s) PROVE LinksKept
    BY <1>2, CreateSessionLinked
  <1>3. CASE Cleanup
    BY <1>3, CleanupLinked DEF Cleanup
  <1>4. ASSUME NEW s \in Sessions, PollStatus(s) \/ RetryExpired(s) PROVE LinksKept
    BY <1>4, ExpiryByWebLinked DEF PollStatus, RetryExpired
  <1>5. ASSUME NEW s \in Sessions, NEW q \in RequestIds, RetryWhileActive(s, q) PROVE LinksKept
    <2>1. MildStep(s)
      BY <1>5, MildOperations DEF RetryWhileActive, MildStep, JointInv, IInv, SessionsInv
    <2>. QED
      BY <1>5, <2>1, MildLinked DEF RetryWhileActive
  <1>6. ASSUME NEW s \in Sessions, NEW q \in RequestIds, RetryCreatesRun(s, q) PROVE LinksKept
    BY <1>6, RetryCreatesRunLinked
  <1>7. ASSUME NEW s \in Sessions, GrowOld(s) \/ GrowIdle(s) PROVE LinksKept
    <2>1. \/ sess' = [sess EXCEPT ![s] = [sess[s] EXCEPT !.old = TRUE]]
          \/ \E idle : sess' = [sess EXCEPT ![s] = [sess[s] EXCEPT !.idle = idle]]
      BY <1>7 DEF GrowOld, GrowIdle
    <2>2. MildStep(s)
      BY <2>1, MildOperations DEF MildStep, JointInv, IInv, SessionsInv
    <2>. QED
      BY <1>7, <2>2, MildLinked DEF GrowOld, GrowIdle
  <1>8. ASSUME NEW s \in Sessions, NEW n \in RunNos,
               StartStep(s, n) \/ MarkFinished(s, n) \/ WorkerStep(s, n)
        PROVE  LinksKept
    BY <1>8, StartStepLinked, MarkFinishedLinked, WorkerStepLinked
  <1>9. CASE StartWorker
    BY <1>9, StartWorkerLinked
  <1>10. CASE Shutdown
    BY <1>10 DEF Shutdown, LinksKept, JointInv, RunsInv, ListedInv, QueueInv, KeysResolve
  <1>. QED
    BY <1>1, <1>2, <1>3, <1>4, <1>5, <1>6, <1>7, <1>8, <1>9, <1>10 DEF Next

\* Sessions, threads, queue, registry and keys fit together in every reachable state.
THEOREM JointInvariance == Spec => []JointInv
  <1>1. Init => JointInv
    BY InitJoint
  <1>2. ASSUME JointInv, [Next]_vars PROVE JointInv'
    <2>1. GoodStep /\ IInv'
      BY <1>2, AlwaysGood, GoodKeepsIInv DEF JointInv
    <2>2. CASE Next
      BY <1>2, <2>1, <2>2, NextLinked DEF GoodStep, LinksKept, JointInv
    <2>3. CASE UNCHANGED vars
      BY <1>2, <2>1, <2>3 DEF vars, JointInv, RunsInv, ListedInv, QueueInv, KeysResolve
    <2>. QED
      BY <1>2, <2>2, <2>3
  <1>. QED
    BY <1>1, <1>2, PTL DEF Spec

\* The worker of a superseded run, and of a run the session reports as done with, never calls the
\* controller: a retry is possible only once the failed run's thread has left process()'s try block.
THEOREM WorkersDoNotOverlap == Spec => []NoOverlappingWorkers
  <1>1. ASSUME JointInv PROVE NoOverlappingWorkers
    <2>1. SUFFICES ASSUME NEW s \in Sessions, NEW n \in RunNos,
                          n < sess[s].cur \/ (n = sess[s].cur /\ sess[s].workerFinished)
                   PROVE  wk[s][n].pc \in AfterPcs
      BY PcsAreApart DEF NoOverlappingWorkers, BeforePcs
    <2>2. SessionInv(sess[s]) /\ RunInv(sess[s], n, wk[s][n])
      BY <1>1 DEF JointInv, IInv, SessionsInv, RunsInv
    <2>3. sess[s].cur \in Nat /\ n \in Nat
      BY <2>2, Values, MaxRunsAssumption DEF SessionInv, SessionObject
    <2>4. n < sess[s].cur => sess[s].runs[n].final = "FAILED" /\ n <= sess[s].cur
      BY <2>2, <2>3 DEF SessionInv, RetriesOf
    <2>. QED
      BY <2>1, <2>2, <2>4, PcsAreApart DEF RunInv
  <1>. QED
    BY <1>1, JointInvariance, PTL

\* No run ends AUTHORIZED on anything but a controller read that said so.
THEOREM Verification == Spec => []AuthorizedIsVerified
  <1>1. JointInv => AuthorizedIsVerified
    BY DEF JointInv, RunsInv, RunInv, AuthorizedIsVerified
  <1>. QED
    BY <1>1, JointInvariance, PTL

\* A session is reported as finished only when neither its worker nor a retry can reopen it.
THEOREM FinalReport == Spec => []FinishedSessionStaysFinished
  <1>1. JointInv => FinishedSessionStaysFinished
    BY DEF JointInv, ListedInv, FinishedSessionStaysFinished
  <1>. QED
    BY <1>1, JointInvariance, PTL

\* No key dangles and none leads to another client's session.
THEOREM KeyCorrectness == Spec => []KeysResolve
  <1>1. JointInv => KeysResolve
    BY DEF JointInv
  <1>. QED
    BY <1>1, JointInvariance, PTL

-----------------------------------------------------------------------------
(* One open run per client, as long as portal entries carry the MAC *)

MacOnly == \A c \in Contexts : c.mac # NoMac

\* This step creates no session for an entry without a MAC.
CreatesWithMac ==
    \A c \in Contexts, s \in Sessions : CreateSession(c, s) => c.mac # NoMac

\* A session that is not finished is the one its MAC leads to.
MacInv ==
    \A s \in Sessions : sess[s].cur > 0 /\ ~IsFinished(sess[s]) =>
        sess[s].mac # NoMac /\ byKey[<<"mac", sess[s].mac>>] = s

\* Keys and identities stay as they are.
IdentitiesKept ==
    /\ byKey' = byKey
    /\ \A s \in Sessions : sess'[s].mac = sess[s].mac /\ (sess'[s].cur > 0 => sess[s].cur > 0)

LEMMA OperationsKeepMac ==
    ASSUME NEW x, SessionInv(x)
    PROVE  /\ UpdateActivity(x).mac = x.mac /\ UpdateActivity(x).cur = x.cur
           /\ \A status : UpdateStatus(x, status).mac = x.mac /\ UpdateStatus(x, status).cur = x.cur
           /\ \A n \in RunNos :
                 /\ BeginAttempt(x, n).mac = x.mac /\ BeginAttempt(x, n).cur = x.cur
                 /\ ClaimRun(x, n).mac = x.mac /\ ClaimRun(x, n).cur = x.cur
                 /\ MarkWorkerFinished(x, n).mac = x.mac /\ MarkWorkerFinished(x, n).cur = x.cur
           /\ \A n \in RunNos : \A final, retryable :
                 FinishRun(x, n, final, retryable).mac = x.mac /\ FinishRun(x, n, final, retryable).cur = x.cur
           /\ \A q, k : BindRequest(x, q, k).mac = x.mac /\ BindRequest(x, q, k).cur = x.cur
           /\ [x EXCEPT !.old = TRUE].mac = x.mac /\ [x EXCEPT !.old = TRUE].cur = x.cur
           /\ \A idle : [x EXCEPT !.idle = idle].mac = x.mac /\ [x EXCEPT !.idle = idle].cur = x.cur
           /\ ExpireLocked(x).mac = x.mac /\ ExpireLocked(x).cur = x.cur
  <1>1. x \in SessionObject
    BY DEF SessionInv
  <1>2. \A n \in RunNos : \A final, retryable :
            FinishRun(x, n, final, retryable).mac = x.mac /\ FinishRun(x, n, final, retryable).cur = x.cur
    BY <1>1 DEF FinishRun, UpdateActivity, SessionObject
  <1>3. \A n \in RunNos : BeginAttempt(x, n).mac = x.mac /\ BeginAttempt(x, n).cur = x.cur
    BY <1>1 DEF BeginAttempt, UpdateActivity, SessionObject
  <1>4. \A n \in RunNos : ClaimRun(x, n).mac = x.mac /\ ClaimRun(x, n).cur = x.cur
    BY <1>1 DEF ClaimRun, UpdateActivity, SessionObject
  <1>5. \A n \in RunNos : MarkWorkerFinished(x, n).mac = x.mac /\ MarkWorkerFinished(x, n).cur = x.cur
    BY <1>1, MarkWorkerFinishedFields
  <1>6. ExpireLocked(x).mac = x.mac /\ ExpireLocked(x).cur = x.cur
    BY MildExpiry DEF Mild
  <1>7. /\ UpdateActivity(x).mac = x.mac /\ UpdateActivity(x).cur = x.cur
        /\ \A status : UpdateStatus(x, status).mac = x.mac /\ UpdateStatus(x, status).cur = x.cur
        /\ \A q, k : BindRequest(x, q, k).mac = x.mac /\ BindRequest(x, q, k).cur = x.cur
        /\ [x EXCEPT !.old = TRUE].mac = x.mac /\ [x EXCEPT !.old = TRUE].cur = x.cur
        /\ \A idle : [x EXCEPT !.idle = idle].mac = x.mac /\ [x EXCEPT !.idle = idle].cur = x.cur
    BY <1>1 DEF UpdateActivity, UpdateStatus, BindRequest, SessionObject
  <1>. QED
    BY <1>2, <1>3, <1>4, <1>5, <1>6, <1>7

LEMMA OneIdentityKept ==
    ASSUME JointInv, byKey' = byKey, NEW s \in Sessions,
           \/ sess' = sess
           \/ \E y : /\ y.mac = sess[s].mac /\ (y.cur > 0 => sess[s].cur > 0)
                     /\ sess' = [sess EXCEPT ![s] = y]
    PROVE  IdentitiesKept
  BY DEF JointInv, IInv, SessionsInv, IdentitiesKept

LEMMA IdentityKeepsMacInv ==
    ASSUME JointInv, SessionsStep, MacInv, IdentitiesKept
    PROVE  MacInv'
  <1>1. SUFFICES ASSUME NEW s \in Sessions, sess'[s].cur > 0, ~IsFinished(sess'[s])
                 PROVE  sess'[s].mac # NoMac /\ byKey'[<<"mac", sess'[s].mac>>] = s
    BY DEF MacInv, IsFinished
  <1>2. SessionInv(sess[s]) /\ Legal(sess[s], sess'[s]) /\ sess[s].cur > 0
    BY <1>1 DEF JointInv, IInv, SessionsInv, SessionsStep, IdentitiesKept
  <1>3. ~IsFinished(sess[s])
    BY <1>1, <1>2, FinishedStays
  <1>. QED
    BY <1>2, <1>3 DEF MacInv, IdentitiesKept

LEMMA CleanupKeepsMacInv ==
    ASSUME JointInv, SessionsStep, MacInv, sess' = Expired, byKey' = Detach(byKey, Retired)
    PROVE  MacInv'
  <1>1. SUFFICES ASSUME NEW s \in Sessions, sess'[s].cur > 0, ~IsFinished(sess'[s])
                 PROVE  sess'[s].mac # NoMac /\ byKey'[<<"mac", sess'[s].mac>>] = s
    BY DEF MacInv, IsFinished
  <1>2. SessionInv(sess[s]) /\ Legal(sess[s], sess'[s]) /\ Mild(sess[s], sess'[s])
    BY MildExpired DEF JointInv, IInv, SessionsInv, SessionsStep
  <1>3. sess[s].cur > 0 /\ ~IsFinished(sess[s]) /\ sess'[s].mac = sess[s].mac
    BY <1>1, <1>2, FinishedStays DEF Mild
  <1>4. s \notin Retired
    BY <1>1 DEF Retired
  <1>5. sess[s].mac \in Macs /\ sess[s].mac # NoMac /\ byKey[<<"mac", sess[s].mac>>] = s
    BY <1>2, <1>3 DEF MacInv, SessionInv, SessionObject
  <1>6. <<"mac", sess[s].mac>> \in Keys
    BY <1>5 DEF Keys
  <1>. QED
    BY <1>3, <1>4, <1>5, <1>6 DEF Detach

LEMMA CreateKeepsMacInv ==
    ASSUME JointInv, SessionsStep, MacInv,
           NEW c \in Contexts, NEW s \in Sessions, c.mac # NoMac, CreateSession(c, s)
    PROVE  MacInv'
  <1>. DEFINE y == CreateRun(NewSession(c), 1)
              e == Existing(c)
              keys == Detach(byKey, Retired \union {e})
              key == <<"mac", c.mac>>
  <1>1. /\ sess[s].cur = 0 /\ (e # NoSession => (Expired[e].old \/ ~Reusable(Expired[e])))
        /\ sess' = [Expired EXCEPT ![s] = y]
        /\ byKey' = [k \in Keys |->
                        IF k = SessionKey(c.mac, c.ip) \/ (c.ip # NoIp /\ k = <<"ip", c.ip>>)
                        THEN s ELSE keys[k]]
    BY DEF CreateSession
  <1>2. c.mac \in Macs /\ c.mac # NoMac /\ SessionKey(c.mac, c.ip) = key /\ key \in Keys
    BY ContextsAssumption DEF SessionKey, Keys
  <1>3. e = Detach(byKey, Retired)[key]
    BY <1>2 DEF Existing
  <1>4. y.mac = c.mac
    BY DEF CreateRun, UpdateActivity, NewSession
  <1>5. /\ Expired \in [Sessions -> SessionObject]
        /\ \A t \in Sessions : Legal(sess[t], Expired[t]) /\ Mild(sess[t], Expired[t])
    BY ExpiredLegal, MildExpired DEF JointInv, IInv
  <1>. HIDE DEF y, e, keys
  <1>6. sess'[s] = y /\ \A t \in Sessions : t # s => sess'[t] = Expired[t]
    <2>. HIDE DEF Expired
    <2>. QED
      BY <1>1, <1>5
  <1>7. byKey'[key] = s
    BY <1>1, <1>2
  <1>8. SUFFICES ASSUME NEW t \in Sessions, t # s, sess'[t].cur > 0, ~IsFinished(sess'[t])
                 PROVE  sess'[t].mac # NoMac /\ byKey'[<<"mac", sess'[t].mac>>] = t
    BY <1>2, <1>4, <1>6, <1>7 DEF MacInv, IsFinished
  <1>. DEFINE own == <<"mac", sess[t].mac>>
  <1>9. SessionInv(sess[t]) /\ sess[t].cur > 0 /\ ~IsFinished(sess[t]) /\ sess'[t].mac = sess[t].mac
    <2>1. SessionInv(sess[t]) /\ Legal(sess[t], sess'[t]) /\ Mild(sess[t], sess'[t])
      BY <1>5, <1>6, <1>8 DEF JointInv, IInv, SessionsInv
    <2>. QED
      BY <1>8, <2>1, FinishedStays DEF Mild
  <1>10. sess[t].mac \in Macs /\ sess[t].mac # NoMac /\ byKey[own] = t /\ own \in Keys
    BY <1>9 DEF MacInv, SessionInv, SessionObject, Keys
  <1>11. t \in byId /\ t \notin Retired
    BY <1>6, <1>8, <1>9 DEF JointInv, ListedInv, Retired
  <1>12. t # e
    <2>1. SUFFICES ASSUME t = e PROVE FALSE
      OBVIOUS
    <2>2. byKey[key] = t /\ t # NoSession
      BY <1>2, <1>3, <2>1, NoValueAssumption DEF Detach
    <2>3. SessionInv(Expired[t]) /\ (Expired[t].old \/ ~Reusable(Expired[t]))
      BY <1>1, <1>5, <2>1, <2>2 DEF Legal
    <2>4. Expired[t].old
      BY <1>6, <1>8, <2>3, ReplacedIsFinished
    <2>5. CASE sess[t].old
      <3>1. Expired[t] = ExpireLocked(sess[t])
        BY <1>11, <2>5 DEF Expired
      <3>2. IsFinished(ExpireLocked(sess[t]))
        BY <1>9, ExpireLockedFinishes
      <3>. QED
        BY <1>6, <1>8, <3>1, <3>2
    <2>6. CASE ~sess[t].old
      BY <2>4, <2>6 DEF Expired
    <2>. QED
      BY <2>5, <2>6
  <1>13. own # key
    BY <1>2, <1>3, <1>10, <1>11, <1>12 DEF Detach
  <1>14. byKey'[own] = keys[own]
    BY <1>1, <1>2, <1>10, <1>13
  <1>15. keys[own] = t
    BY <1>10, <1>11, <1>12 DEF keys, Detach
  <1>. QED
    BY <1>9, <1>10, <1>14, <1>15

\* With its MAC known from the start no session ever looks one up.
LEMMA NothingToResolve ==
    ASSUME JointInv, MacInv, NEW s \in Sessions, NEW n \in RunNos, NEW m \in Macs
    PROVE  ~ResolveMac(s, n, m)
  <1>1. SUFFICES ASSUME ResolveMac(s, n, m) PROVE FALSE
    OBVIOUS
  <1>2. RunMatches(s, n) /\ wk[s][n].pc = "lookup"
    BY <1>1 DEF ResolveMac, At
  <1>3. SessionInv(sess[s]) /\ Writable(sess[s], n) /\ RunInv(sess[s], n, wk[s][n])
    BY <1>2, RunMatchesWritable DEF JointInv, IInv, RunsInv
  <1>4. n = sess[s].cur /\ n \in Nat /\ n <= n /\ sess[s].runs[n].final = "open"
    BY <1>3, Values DEF Writable
  <1>5. sess[s].mac = NoMac
    BY <1>2, <1>3, <1>4 DEF RunInv
  <1>6. sess[s].cur > 0 /\ ~IsFinished(sess[s])
    BY <1>3, WritableIsActive
  <1>. QED
    BY <1>5, <1>6 DEF MacInv

LEMMA ThreadsKeepIdentities ==
    ASSUME JointInv, MacInv, NEW s \in Sessions, NEW n \in RunNos,
           StartStep(s, n) \/ MarkFinished(s, n) \/ WorkerStep(s, n)
    PROVE  IdentitiesKept
  <1>1. SessionInv(sess[s])
    BY DEF JointInv, IInv, SessionsInv
  <1>2. CASE StartStep(s, n)
    <2>1. \/ sess' = sess
          \/ sess' = [sess EXCEPT ![s] = ClaimRun(@, n)]
          \/ \E retryable : sess' = [sess EXCEPT ![s] = FinishRun(@, n, "FAILED", retryable)]
      BY <1>2 DEF StartStep, ClaimWorker, SubmitWorker, FailStart, EmitStartFailure
    <2>2. byKey' = byKey
      BY <1>2 DEF StartStep, ClaimWorker, SubmitWorker, FailStart, EmitStartFailure
    <2>. QED
      BY <1>1, <2>1, <2>2, OperationsKeepMac, OneIdentityKept
  <1>3. CASE MarkFinished(s, n)
    <2>1. (sess' = sess \/ sess' = [sess EXCEPT ![s] = MarkWorkerFinished(@, n)]) /\ byKey' = byKey
      BY <1>3 DEF MarkFinished
    <2>. QED
      BY <1>1, <2>1, OperationsKeepMac, OneIdentityKept
  <1>4. ASSUME \/ StaleWorker(s, n) \/ CheckReady(s, n) \/ LookupFails(s, n) \/ ReadClient(s, n)
               \/ CallAuthorize(s, n) \/ CallUnauthorize(s, n) \/ SubmitAuthorized(s, n)
               \/ EmitFinished(s, n)
        PROVE  IdentitiesKept
    <2>1. sess' = sess /\ byKey' = byKey
      BY <1>4 DEF StaleWorker, CheckReady, LookupFails, ReadClient, CallAuthorize, CallUnauthorize,
                  SubmitAuthorized, EmitFinished
    <2>. QED
      BY <2>1, OneIdentityKept
  <1>5. ASSUME NEW y, y.mac = sess[s].mac, y.cur = sess[s].cur, sess' = [sess EXCEPT ![s] = y], byKey' = byKey
        PROVE  IdentitiesKept
    BY <1>5, OneIdentityKept
  <1>6. ASSUME BeginWaiting(s, n) \/ HandleAuthReply(s, n) \/ FinalCheck(s, n)
        PROVE  IdentitiesKept
    <2>1. (\E status : sess' = [sess EXCEPT ![s] = UpdateStatus(@, status)]) /\ byKey' = byKey
      BY <1>6 DEF BeginWaiting, HandleAuthReply, FinalCheck
    <2>. QED
      BY <1>1, <1>5, <2>1, OperationsKeepMac
  <1>7. ASSUME HandleReadiness(s, n) \/ HandleVerify(s, n) \/ HandleFinal(s, n)
        PROVE  IdentitiesKept
    <2>1. byKey' = byKey
      BY <1>7 DEF HandleReadiness, HandleVerify, HandleFinal, GiveUp, HandleOther
    <2>2. \/ sess' = [sess EXCEPT ![s] = UpdateActivity(@)]
          \/ \E status : sess' = [sess EXCEPT ![s] = UpdateStatus(@, status)]
          \/ \E retryable : sess' = [sess EXCEPT ![s] = FinishRun(@, n, "FAILED", retryable)]
      BY <1>7 DEF HandleReadiness, HandleVerify, HandleFinal, GiveUp
    <2>. QED
      BY <1>1, <1>5, <2>1, <2>2, OperationsKeepMac
  <1>8. ASSUME SleepDone(s, n) \/ StartAttempt(s, n) \/ ExpireIfNeeded(s, n)
        PROVE  IdentitiesKept
    <2>1. byKey' = byKey
      BY <1>8 DEF SleepDone, StartAttempt, ExpireIfNeeded
    <2>2. \/ sess' = sess
          \/ sess' = [sess EXCEPT ![s] = UpdateActivity(@)]
          \/ sess' = [sess EXCEPT ![s] = BeginAttempt(@, n)]
          \/ sess' = [sess EXCEPT ![s] = ExpireLocked(@)]
      BY <1>8 DEF SleepDone, StartAttempt, ExpireIfNeeded
    <2>3. CASE sess' = sess
      BY <2>1, <2>3, OneIdentityKept
    <2>4. CASE sess' # sess
      BY <1>1, <1>5, <2>1, <2>2, <2>4, OperationsKeepMac
    <2>. QED
      BY <2>3, <2>4
  <1>9. ASSUME SleepExpired(s, n) \/ HandleAuthorized(s, n) \/ HandleResetReply(s, n) \/ WorkerException(s, n)
        PROVE  IdentitiesKept
    <2>1. byKey' = byKey
      BY <1>9 DEF SleepExpired, HandleAuthorized, HandleResetReply, WorkerException
    <2>2. \E final, retryable : sess' = [sess EXCEPT ![s] = FinishRun(@, n, final, retryable)]
      BY <1>9 DEF SleepExpired, HandleAuthorized, HandleResetReply, WorkerException
    <2>3. PICK final, retryable : sess' = [sess EXCEPT ![s] = FinishRun(sess[s], n, final, retryable)]
      BY <2>2
    <2>4. /\ FinishRun(sess[s], n, final, retryable).mac = sess[s].mac
          /\ FinishRun(sess[s], n, final, retryable).cur = sess[s].cur
      BY <1>1, OperationsKeepMac
    <2>. QED
      BY <1>5, <2>1, <2>3, <2>4
  <1>10. CASE WorkerStep(s, n)
    <2>1. \A m \in Macs : ~ResolveMac(s, n, m)
      BY NothingToResolve
    <2>. QED
      BY <1>4, <1>6, <1>7, <1>8, <1>9, <1>10, <2>1 DEF WorkerStep
  <1>. QED
    BY <1>2, <1>3, <1>10

LEMMA NextKeepsMacInv ==
    ASSUME CreatesWithMac, JointInv, SessionsStep, MacInv, Next
    PROVE  MacInv'
  <1>1. ASSUME NEW c \in Contexts, ReuseSession(c) PROVE MacInv'
    BY <1>1, CleanupKeepsMacInv DEF ReuseSession
  <1>2. ASSUME NEW c \in Contexts, NEW s \in Sessions, CreateSession(c, s) PROVE MacInv'
    BY <1>2, CreateKeepsMacInv DEF CreatesWithMac
  <1>3. CASE Cleanup
    BY <1>3, CleanupKeepsMacInv DEF Cleanup
  <1>4. ASSUME NEW s \in Sessions, NEW n \in RunNos,
               StartStep(s, n) \/ MarkFinished(s, n) \/ WorkerStep(s, n)
        PROVE  MacInv'
    BY <1>4, ThreadsKeepIdentities, IdentityKeepsMacInv
  <1>5. ASSUME NEW s \in Sessions, NEW q \in RequestIds, RetryCreatesRun(s, q) PROVE MacInv'
    <2>. DEFINE y == BindRequest(CreateRun(sess[s], sess[s].cur + 1), q, sess[s].cur + 1)
    <2>1. sess' = [sess EXCEPT ![s] = y] /\ byKey' = byKey /\ CanRetry(sess[s]) /\ sess[s] \in SessionObject
      BY <1>5 DEF RetryCreatesRun, JointInv, IInv, SessionsInv
    <2>2. y.mac = sess[s].mac
      BY <2>1 DEF BindRequest, CreateRun, UpdateActivity, SessionObject
    <2>3. sess[s].cur > 0
      BY <1>5 DEF RetryCreatesRun, JointInv, ListedInv
    <2>. HIDE DEF y
    <2>4. IdentitiesKept
      BY <2>1, <2>2, <2>3, OneIdentityKept
    <2>. QED
      BY <2>4, IdentityKeepsMacInv
  <1>6. ASSUME NEW s \in Sessions,
               \/ PollStatus(s) \/ RetryExpired(s) \/ GrowOld(s) \/ GrowIdle(s)
               \/ \E q \in RequestIds : RetryWhileActive(s, q)
        PROVE  MacInv'
    <2>1. byKey' = byKey
      BY <1>6 DEF PollStatus, RetryExpired, GrowOld, GrowIdle, RetryWhileActive
    <2>2. \/ sess' = [sess EXCEPT ![s] = ExpireLocked(@)]
          \/ sess' = [sess EXCEPT ![s] = [sess[s] EXCEPT !.old = TRUE]]
          \/ \E idle : sess' = [sess EXCEPT ![s] = [sess[s] EXCEPT !.idle = idle]]
          \/ \E q, k : sess' = [sess EXCEPT ![s] = BindRequest(@, q, k)]
      BY <1>6 DEF PollStatus, RetryExpired, GrowOld, GrowIdle, RetryWhileActive
    <2>3. SessionInv(sess[s])
      BY DEF JointInv, IInv, SessionsInv
    <2>4. \E y : /\ y.mac = sess[s].mac /\ y.cur = sess[s].cur
                  /\ sess' = [sess EXCEPT ![s] = y]
      <3>1. CASE sess' = [sess EXCEPT ![s] = ExpireLocked(@)]
        BY <2>3, <3>1, OperationsKeepMac
      <3>2. CASE sess' = [sess EXCEPT ![s] = [sess[s] EXCEPT !.old = TRUE]]
        <4>. DEFINE y == [sess[s] EXCEPT !.old = TRUE]
        <4>1. y.mac = sess[s].mac /\ y.cur = sess[s].cur
          BY <2>3, OperationsKeepMac
        <4>2. sess' = [sess EXCEPT ![s] = y]
          BY <3>2
        <4>. HIDE DEF y
        <4>. QED
          BY <4>1, <4>2
      <3>3. ASSUME NEW idle, sess' = [sess EXCEPT ![s] = [sess[s] EXCEPT !.idle = idle]]
            PROVE  \E y : /\ y.mac = sess[s].mac /\ y.cur = sess[s].cur
                          /\ sess' = [sess EXCEPT ![s] = y]
        <4>. DEFINE y == [sess[s] EXCEPT !.idle = idle]
        <4>1. y.mac = sess[s].mac /\ y.cur = sess[s].cur
          BY <2>3, OperationsKeepMac
        <4>2. sess' = [sess EXCEPT ![s] = y]
          BY <3>3
        <4>. HIDE DEF y
        <4>. QED
          BY <4>1, <4>2
      <3>4. ASSUME NEW q, NEW k, sess' = [sess EXCEPT ![s] = BindRequest(@, q, k)]
            PROVE  \E y : /\ y.mac = sess[s].mac /\ y.cur = sess[s].cur
                          /\ sess' = [sess EXCEPT ![s] = y]
        <4>. DEFINE y == BindRequest(sess[s], q, k)
        <4>1. y.mac = sess[s].mac /\ y.cur = sess[s].cur
          BY <2>3, OperationsKeepMac
        <4>2. sess' = [sess EXCEPT ![s] = y]
          BY <3>4
        <4>. HIDE DEF y
        <4>. QED
          BY <4>1, <4>2
      <3>. QED
        BY <2>2, <3>1, <3>2, <3>3, <3>4
    <2>5. IdentitiesKept
      <3>1. \E y : /\ y.mac = sess[s].mac /\ (y.cur > 0 => sess[s].cur > 0)
                    /\ sess' = [sess EXCEPT ![s] = y]
        BY <2>4
      <3>. QED
        BY <2>1, <3>1, OneIdentityKept
    <2>. QED
      BY <2>5, IdentityKeepsMacInv
  <1>7. CASE StartWorker \/ Shutdown
    BY <1>7 DEF StartWorker, Shutdown, MacInv
  <1>. QED
    BY <1>1, <1>2, <1>3, <1>4, <1>5, <1>6, <1>7 DEF Next

\* In the words of the invariant: where sessions are owned by their MAC's key, no client has two
\* unfinished ones.
LEMMA OwnersAreAlone == MacInv => OneOpenRunPerMac
  <1>1. \A s \in Sessions : IsActive(sess[s]) => ~IsFinished(sess[s])
    BY DEF IsActive, IsFinished, ActiveStatuses
  <1>. QED
    BY <1>1 DEF MacInv, OneOpenRunPerMac

LEMMA MacInvStep == ASSUME JointInv, MacInv, CreatesWithMac, [Next]_vars PROVE MacInv'
  <1>1. CASE Next
    BY <1>1, AlwaysGood, NextKeepsMacInv DEF JointInv, GoodStep
  <1>2. CASE UNCHANGED vars
    BY <1>2 DEF vars, MacInv
  <1>. QED
    BY <1>1, <1>2

\* Where every portal entry carries the client's MAC, a client never has two unfinished runs: a new
\* session is created for it only after the old one is finished.
THEOREM ClientExclusion ==
    ASSUME MacOnly
    PROVE  Spec => []OneOpenRunPerMac
  <1>1. Init => MacInv
    BY DEF Init, NewSession, MacInv
  <1>2. CreatesWithMac
    BY DEF MacOnly, CreatesWithMac
  <1>3. JointInv /\ MacInv /\ [Next]_vars => MacInv'
    BY <1>2, MacInvStep
  <1>. QED
    BY <1>1, <1>3, OwnersAreAlone, JointInvariance, PTL DEF Spec

\* Until a session is created without its MAC, the sessions are owned by their MAC's keys.
OwnedInv == ~ipOnly => MacInv

LEMMA OwnedInvStep ==
    ASSUME JointInv, OwnedInv, [HistoryNext]_<<vars, ipOnly>>, NEW a \in Sessions, NEW b \in Sessions, a # b
    PROVE  OwnedInv'
  <1>1. CASE UNCHANGED <<vars, ipOnly>>
    BY <1>1 DEF vars, MacInv, OwnedInv
  <1>2. SUFFICES ASSUME HistoryNext, ~ipOnly' PROVE MacInv'
    BY <1>1 DEF OwnedInv
  <1>3. MacInv
    BY <1>2 DEF HistoryNext, OwnedInv
  <1>4. ASSUME NEW c \in Contexts, NEW s \in Sessions, CreateSession(c, s)
        PROVE  c.mac # NoMac
    <2>. DEFINE y == CreateRun(NewSession(c), 1)
    <2>1. sess[s].cur = 0 /\ sess' = [Expired EXCEPT ![s] = y]
      BY <1>4 DEF CreateSession
    <2>2. Expired \in [Sessions -> SessionObject]
      BY ExpiredLegal DEF JointInv, IInv
    <2>3. y.mac = c.mac /\ y.cur = 1
      BY DEF CreateRun, UpdateActivity, NewSession
    <2>. HIDE DEF y, Expired
    <2>4. sess'[s].mac = c.mac /\ sess'[s].cur = 1
      BY <2>1, <2>2, <2>3
    <2>5. PICK t \in Sessions : s # t
      OBVIOUS
    <2>. QED
      BY <1>2, <2>1, <2>4, <2>5 DEF HistoryNext
  <1>. QED
    BY <1>2, <1>3, <1>4, MacInvStep DEF HistoryNext, CreatesWithMac

\* The same with IP-only entries among the others: a client has two unfinished runs only if a
\* session was created for an entry without a MAC at some time before.
THEOREM ClientExclusionUntilIpOnly == HistorySpec => []OneRunPerClient
  <1>1. CASE \A a, b \in Sessions : a = b
    <2>1. OneRunPerClient
      BY <1>1 DEF OneRunPerClient, OneOpenRunPerMac
    <2>. QED
      BY <2>1, PTL
  <1>2. CASE \E a, b \in Sessions : a # b
    <2>1. HistoryInit => Init /\ OwnedInv
      <3>1. Init => MacInv
        BY DEF Init, NewSession, MacInv
      <3>. QED
        BY <3>1 DEF HistoryInit, OwnedInv
    <2>2. JointInv /\ OwnedInv /\ [HistoryNext]_<<vars, ipOnly>> => OwnedInv'
      BY <1>2, OwnedInvStep
    <2>3. [HistoryNext]_<<vars, ipOnly>> => [Next]_vars
      BY DEF HistoryNext
    <2>4. OwnedInv => OneRunPerClient
      BY OwnersAreAlone DEF OwnedInv, OneRunPerClient
    <2>. QED
      BY <2>1, <2>2, <2>3, <2>4, JointInvariance, PTL DEF Spec, HistorySpec
  <1>. QED
    BY <1>1, <1>2
=============================================================================
