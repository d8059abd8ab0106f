------------------------- MODULE IntegrationJobsProofs -------------------------
(***************************************************************************)
(* Proofs about IntegrationJobs.  What makes the rows honest is what a     *)
(* consumer between its claim and its finish may rely on: it is alone (the *)
(* lock file), its row is leased to it, and what it has seen of the other  *)
(* database is still so.  A crash drops all of that, and leaves only what  *)
(* the rows themselves say.                                                *)
(***************************************************************************)
EXTENDS IntegrationJobs, NaturalsInduction, WellFoundedInduction, TLAPS

-----------------------------------------------------------------------------
(* The invariant *)

Outcomes == {"ok", "unavailable", "unreadable", "incompatible", "conflict"}

ConType ==
    [pc : {"idle", "off", "read", "assemble", "finish", "identify"},
     run : Runs \cup {None}, recovery : BOOLEAN, outcome : Outcomes \cup {None}]

\* What a row says about itself.
RowOk(row) ==
    /\ row \in RowType
    /\ row.state = "LEASED" <=> row.token # None
    /\ row.state = "LEASED" => row.attempts >= 1
    /\ row.state = "NO_RESULT_FINAL" => row.reason \in Outcomes
    /\ row.identity \in {"DEVICE_RESOLVED", "DEVICE_AND_VISIT_RESOLVED"} => row.device # None
    /\ row.identity = "DEVICE_AND_VISIT_RESOLVED" => row.visit # None

\* What the row of a run says about the work done for it: n classifications attempted, its result
\* stored or not.
WorkOk(row, n, stored) ==
    /\ n <= row.attempts
    /\ row.state = "CLASSIFIED" => stored
    /\ row.state = "NO_RESULT_FINAL" /\ stored => row.reason \in {"unreadable", "conflict"}

RowsInv ==
    /\ DOMAIN job = Runs
    /\ assembled \in [Runs -> Nat]
    /\ results \subseteq Runs
    /\ \A r \in Runs : job[r] = None => assembled[r] = 0
    /\ \A r \in Runs : job[r] # None => RowOk(job[r]) /\ WorkOk(job[r], assembled[r], r \in results)

Working == {"read", "assemble", "finish"}

\* What consumer w relies on while its cycle c works on a row.
ClaimOk(w, c, row, n, stored) ==
    /\ row # None
    /\ row.state = "LEASED" /\ row.token = w
    /\ (c.pc = "read" /\ ~c.recovery) \/ c.pc = "assemble" => n < row.attempts
    /\ c.pc = "assemble" => ~stored
    /\ c.pc = "finish" =>
          /\ c.outcome \in Outcomes
          /\ c.outcome = "ok" => stored
          /\ c.outcome \in {"unavailable", "incompatible"} => ~stored

ConsInv ==
    /\ con \in [Workers -> ConType]
    /\ \A w \in Workers : con[w].pc \in Working =>
          /\ con[w].run \in Runs
          /\ ClaimOk(w, con[w], job[con[w].run], assembled[con[w].run], con[w].run \in results)

OneHolds == \A v, w \in Workers : Holding(v) /\ Holding(w) => v = w

IInv == RowsInv /\ ConsInv /\ OneHolds

-----------------------------------------------------------------------------
(* The minimum of a set of numbers *)

LEMMA MinOfSet ==
  ASSUME NEW S \in SUBSET Nat, S # {}
  PROVE  Min(S) \in S
  <1>. DEFINE R == {ss \in Nat \X Nat : ss[1] < ss[2]}
  <1>1. OpToRel(<, Nat) = R
    BY DEF OpToRel
  <1>2. PICK m \in S : \A x \in S : <<x, m>> \notin R
    <2>1. IsWellFoundedOn(R, Nat)
      BY <1>1, NatLessThanWellFounded
    <2>. HIDE DEF R
    <2>. QED
      BY <2>1, WFMin
  <1>3. ASSUME NEW x \in S PROVE m <= x
    <2>1. <<x, m>> \in Nat \X Nat /\ <<x, m>>[1] = x /\ <<x, m>>[2] = m
      OBVIOUS
    <2>. QED
      BY <1>2, <2>1
  <1>4. \E x \in S : \A y \in S : x <= y
    BY <1>3
  <1>. QED
    BY <1>4 DEF Min

LEMMA MinOfTwo ==
  ASSUME NEW a \in Nat, NEW b \in Nat
  PROVE  Min({a, b}) = IF a <= b THEN a ELSE b
  <1>1. \E x \in {a, b} : \A y \in {a, b} : x <= y
    OBVIOUS
  <1>2. Min({a, b}) \in {a, b} /\ \A y \in {a, b} : Min({a, b}) <= y
    BY <1>1 DEF Min
  <1>. QED
    BY <1>2

-----------------------------------------------------------------------------
(* A step of one consumer *)

\* A consumer that holds the lock file, or takes it while it is free, or lets go of what it does:
\* the others have nothing to rely on, or nothing has changed.
LEMMA OneConsumer ==
  ASSUME IInv, NEW w \in Workers, NEW c \in ConType, con' = [con EXCEPT ![w] = c],
         \/ Holding(w) \/ LockIsFree
         \/ c.pc \in {"idle", "off"} /\ UNCHANGED <<job, results, assembled>>,
         RowsInv',
         c.pc \in Working =>
            /\ c.run \in Runs
            /\ ClaimOk(w, c, job'[c.run], assembled'[c.run], c.run \in results')
  PROVE  IInv'
  <1>1. /\ con' \in [Workers -> ConType] /\ con'[w] = c
        /\ \A v \in Workers : v # w => con'[v] = con[v]
    BY DEF IInv, ConsInv
  <1>2. OneHolds'
    BY <1>1 DEF IInv, OneHolds, Holding, LockIsFree
  <1>3. ASSUME NEW v \in Workers, con'[v].pc \in Working
        PROVE  /\ con'[v].run \in Runs
               /\ ClaimOk(v, con'[v], job'[con'[v].run], assembled'[con'[v].run], con'[v].run \in results')
    <2>1. CASE v = w
      BY <1>1, <1>3, <2>1
    <2>2. CASE v # w
      <3>1. con'[v] = con[v] /\ Holding(v)
        BY <1>1, <1>3, <2>2 DEF Holding, Working
      <3>2. UNCHANGED <<job, results, assembled>>
        BY <2>2, <3>1 DEF IInv, OneHolds, LockIsFree
      <3>. QED
        BY <1>3, <3>1, <3>2 DEF IInv, ConsInv
    <2>. QED
      BY <2>1, <2>2
  <1>. QED
    BY <1>1, <1>2, <1>3 DEF IInv, ConsInv

\* What changes of the rows meanwhile leaves the consumers what they rely on.
LEMMA RowsMove ==
  ASSUME IInv, UNCHANGED <<con, results, assembled>>, DOMAIN job' = Runs,
         \A r \in Runs : job'[r] = None => job[r] = None,
         \A r \in Runs : job'[r] # None => RowOk(job'[r]) /\ WorkOk(job'[r], assembled[r], r \in results),
         \A r \in Runs : job[r] # None =>
            /\ job'[r] # None
            /\ job'[r].state = job[r].state /\ job'[r].token = job[r].token
            /\ job'[r].attempts = job[r].attempts
  PROVE  IInv'
  <1>1. RowsInv'
    BY DEF IInv, RowsInv
  <1>2. OneHolds'
    BY DEF IInv, OneHolds, Holding
  <1>3. ConsInv'
    <2>1. ASSUME NEW w \in Workers, con[w].pc \in Working
          PROVE  /\ con[w].run \in Runs
                 /\ ClaimOk(w, con[w], job'[con[w].run], assembled[con[w].run], con[w].run \in results)
      <3>1. /\ con[w].run \in Runs
            /\ ClaimOk(w, con[w], job[con[w].run], assembled[con[w].run], con[w].run \in results)
        BY <2>1 DEF IInv, ConsInv
      <3>. QED
        BY <3>1 DEF ClaimOk
    <2>. QED
      BY <2>1 DEF IInv, ConsInv
  <1>. QED
    BY <1>1, <1>2, <1>3 DEF IInv

\* Giving up what one does, at any point.
LEMMA LetGoInv ==
  ASSUME IInv, NEW w \in Workers, NEW c \in ConType, c.pc \in {"idle", "off"},
         con' = [con EXCEPT ![w] = c], UNCHANGED <<job, results, assembled>>
  PROVE  IInv'
  <1>1. RowsInv'
    BY DEF IInv, RowsInv
  <1>2. c.pc \notin Working
    BY DEF Working
  <1>. QED
    BY <1>1, <1>2, OneConsumer

LEMMA CycleFailsInv ==
  ASSUME IInv, NEW w \in Workers, CycleFails(w) \/ Crash(w) \/ Restart(w)
  PROVE  IInv'
  <1>1. Waiting \in ConType /\ Waiting.pc = "idle"
    BY DEF Waiting, ConType
  <1>. DEFINE off == [Waiting EXCEPT !.pc = "off"]
  <1>2. off \in ConType /\ off.pc = "off"
    BY <1>1 DEF ConType
  <1>3. con' = [con EXCEPT ![w] = Waiting] \/ con' = [con EXCEPT ![w] = off]
    BY DEF CycleFails, Crash, Restart
  <1>. HIDE DEF off
  <1>. QED
    BY <1>1, <1>2, <1>3, LetGoInv DEF CycleFails, Crash, Restart

\* A claim: the attempt is counted before anything is done for it, unless there is none left.
LEMMA ClaimInv ==
  ASSUME IInv, NEW w \in Workers, LockIsFree, NEW r \in Claimable, Claim(w, r),
         UNCHANGED <<results, assembled>>
  PROVE  IInv'
  <1>. DEFINE row == job[r]
              n == Min({row.attempts + 1, MaxAttempts})
              new == [row EXCEPT !.state = "LEASED", !.token = w, !.lease = Lease, !.attempts = n]
              late == row.attempts >= MaxAttempts
              c == [pc |-> "read", run |-> r, recovery |-> late, outcome |-> None]
  <1>1. r \in Runs /\ row # None /\ RowOk(row) /\ WorkOk(row, assembled[r], r \in results) /\ row \in RowType
    BY DEF Claimable, Jobs, IInv, RowsInv, RowOk
  <1>2. MaxAttempts \in Nat \ {0} /\ Lease \in Nat \ {0} /\ row.attempts \in 0 .. MaxAttempts
    BY <1>1, TimesAssumption DEF RowType
  <1>3. n = IF row.attempts + 1 <= MaxAttempts THEN row.attempts + 1 ELSE MaxAttempts
    BY <1>2, MinOfTwo
  <1>4. /\ n \in 1 .. MaxAttempts /\ n >= row.attempts
        /\ row.attempts < MaxAttempts => n = row.attempts + 1
    <2>. HIDE DEF n
    <2>. QED
      BY <1>2, <1>3
  <1>5. /\ new \in RowType /\ new.state = "LEASED" /\ new.token = w /\ new.attempts = n
        /\ new.identity = row.identity /\ new.device = row.device /\ new.visit = row.visit
    <2>. HIDE DEF row, n
    <2>1. n \in 0 .. MaxAttempts /\ Lease \in 0 .. Lease /\ w \in Workers \cup {None}
      BY <1>2, <1>4
    <2>2. new \in RowType
      BY <1>1, <2>1 DEF RowType
    <2>3. /\ new.state = "LEASED" /\ new.token = w /\ new.attempts = n
          /\ new.identity = row.identity /\ new.device = row.device /\ new.visit = row.visit
      BY <1>1 DEF RowType
    <2>. QED
      BY <2>2, <2>3
  <1>6. job' = [job EXCEPT ![r] = new]
    BY DEF Claim
  <1>7. c \in ConType /\ c.pc = "read" /\ c.run = r /\ c.recovery = late
    <2>1. late \in BOOLEAN
      OBVIOUS
    <2>. HIDE DEF late
    <2>. QED
      BY <1>1, <2>1 DEF ConType
  <1>8. assembled[r] \in Nat /\ assembled[r] <= row.attempts
    BY <1>1 DEF IInv, RowsInv, WorkOk
  <1>9. new # None /\ RowOk(new) /\ WorkOk(new, assembled[r], r \in results)
    <2>. HIDE DEF new, row, n
    <2>. QED
      BY <1>1, <1>2, <1>4, <1>5, <1>8, NoneAssumption, NoRowAssumption DEF RowOk, WorkOk
  <1>10. RowsInv'
    <2>. HIDE DEF new, row, n, c
    <2>. QED
      BY <1>1, <1>6, <1>9 DEF IInv, RowsInv
  <1>11. ClaimOk(w, c, new, assembled[r], r \in results)
    <2>1. ~late => assembled[r] < n
      <3>. HIDE DEF n
      <3>. QED
        BY <1>2, <1>4, <1>8
    <2>. HIDE DEF new, row, n, c, late
    <2>2. ~c.recovery => assembled[r] < n
      BY <1>7, <2>1
    <2>. QED
      BY <1>5, <1>7, <1>9, <2>2 DEF ClaimOk
  <1>12. job'[r] = new /\ con' = [con EXCEPT ![w] = c]
    <2>1. con' = [con EXCEPT ![w] = c]
      BY DEF Claim
    <2>. HIDE DEF new
    <2>. QED
      BY <1>1, <1>6, <2>1 DEF IInv, RowsInv
  <1>. HIDE DEF new, c
  <1>. QED
    BY <1>1, <1>7, <1>10, <1>11, <1>12, OneConsumer

\* A step of the cycle that changes nothing but where it stands.
LEMMA GoOnInv ==
  ASSUME IInv, NEW w \in Workers, Holding(w) \/ LockIsFree, NEW c \in ConType,
         c.run = con[w].run, con' = [con EXCEPT ![w] = c],
         UNCHANGED <<job, results, assembled>>,
         c.pc \in Working =>
           /\ con[w].pc = "read"
           /\ ClaimOk(w, c, job[con[w].run], assembled[con[w].run], con[w].run \in results)
  PROVE  IInv'
  <1>1. con[w].pc = "read" => con[w].run \in Runs
    BY DEF IInv, ConsInv, Working
  <1>2. RowsInv'
    BY DEF IInv, RowsInv
  <1>. QED
    BY <1>1, <1>2, OneConsumer

LEMMA BeginCycleInv ==
  ASSUME IInv, NEW w \in Workers, BeginCycle(w)
  PROVE  IInv'
  <1>1. CASE Claimable # {}
    <2>1. Claimable \in SUBSET Nat
      BY RunsAssumption DEF Claimable, Jobs
    <2>2. Min(Claimable) \in Claimable
      BY <1>1, <2>1, MinOfSet
    <2>. QED
      BY <1>1, <2>2, ClaimInv DEF BeginCycle
  <1>2. CASE Claimable = {}
    <2>. DEFINE c == [con[w] EXCEPT !.pc = "identify"]
    <2>1. con[w] \in ConType
      BY DEF IInv, ConsInv
    <2>2. c \in ConType /\ c.pc = "identify" /\ c.run = con[w].run
      BY <2>1 DEF ConType
    <2>3. con' = [con EXCEPT ![w] = c] /\ UNCHANGED <<job, results, assembled>> /\ LockIsFree
      BY <1>2, <2>1 DEF BeginCycle, Step, IInv, ConsInv
    <2>. HIDE DEF c
    <2>. QED
      BY <2>2, <2>3, GoOnInv DEF Working
  <1>. QED
    BY <1>1, <1>2

\* What the claim's owner reads of the other database stays so, for nobody else works on it.
LEMMA ReadInv ==
  ASSUME IInv, NEW w \in Workers, Read(w)
  PROVE  IInv'
  <1>. DEFINE q == con[w]
              r == q.run
  <1>1. /\ q \in ConType /\ q.pc = "read" /\ r \in Runs
        /\ ClaimOk(w, q, job[r], assembled[r], r \in results)
    BY DEF Read, IInv, ConsInv, Working
  <1>2. Holding(w) /\ UNCHANGED <<job, results, assembled>>
    BY <1>1 DEF Read, Holding
  <1>3. job[r] \in RowType
    BY <1>1 DEF IInv, RowsInv, RowOk, ClaimOk
  <1>4. ASSUME NEW o \in Outcomes, Outcome(w, o),
               o = "ok" => r \in results,
               o \in {"unavailable", "incompatible"} => r \notin results
        PROVE  IInv'
    <2>. DEFINE c == [q EXCEPT !.pc = "finish", !.outcome = o]
    <2>1. c \in ConType /\ c.pc = "finish" /\ c.run = r /\ c.outcome = o
      BY <1>1 DEF ConType
    <2>2. con' = [con EXCEPT ![w] = c]
      BY <1>4 DEF Outcome, IInv, ConsInv
    <2>3. ClaimOk(w, c, job[r], assembled[r], r \in results)
      <3>. HIDE DEF c
      <3>. QED
        BY <1>1, <1>4, <2>1 DEF ClaimOk
    <2>. HIDE DEF c
    <2>. QED
      BY <1>1, <1>2, <2>1, <2>2, <2>3, GoOnInv
  <1>5. CASE Outcome(w, "unreadable")
    BY <1>4, <1>5 DEF Outcomes
  <1>6. CASE r \in results /\ (Outcome(w, "conflict") \/ Outcome(w, "ok"))
    BY <1>4, <1>6 DEF Outcomes
  <1>7. CASE r \notin results /\ Outcome(w, IF job[r].reason = None THEN "unavailable" ELSE job[r].reason)
    <2>. DEFINE o == IF job[r].reason = None THEN "unavailable" ELSE job[r].reason
    <2>1. o \in Outcomes /\ o # "ok"
      BY <1>3 DEF RowType, Outcomes
    <2>2. Outcome(w, o)
      BY <1>7
    <2>. HIDE DEF o
    <2>. QED
      BY <1>4, <1>7, <2>1, <2>2
  <1>8. CASE r \notin results /\ ~q.recovery /\ con' = Step(w, "assemble")
    <2>. DEFINE c == [q EXCEPT !.pc = "assemble"]
    <2>1. c \in ConType /\ c.pc = "assemble" /\ c.run = r
      BY <1>1 DEF ConType
    <2>2. con' = [con EXCEPT ![w] = c]
      BY <1>8 DEF Step, IInv, ConsInv
    <2>3. ClaimOk(w, c, job[r], assembled[r], r \in results)
      <3>. HIDE DEF c
      <3>. QED
        BY <1>1, <1>8, <2>1 DEF ClaimOk
    <2>. HIDE DEF c
    <2>. QED
      BY <1>1, <1>2, <2>1, <2>2, <2>3, GoOnInv
  <1>. QED
    BY <1>5, <1>6, <1>7, <1>8 DEF Read

\* The attempt is spent before its result is known; all of the result is stored, or nothing.
LEMMA AssembleInv ==
  ASSUME IInv, NEW w \in Workers, Assemble(w)
  PROVE  IInv'
  <1>. DEFINE q == con[w]
              r == q.run
  <1>1. /\ q \in ConType /\ q.pc = "assemble" /\ r \in Runs
        /\ ClaimOk(w, q, job[r], assembled[r], r \in results)
    BY DEF Assemble, IInv, ConsInv, Working
  <1>2. Holding(w) /\ r \notin results
    BY <1>1 DEF Holding, ClaimOk
  <1>3. UNCHANGED job /\ assembled' = [assembled EXCEPT ![r] = assembled[r] + 1]
    BY DEF Assemble
  <1>4. /\ job[r] # None /\ job[r] \in RowType /\ RowOk(job[r]) /\ job[r].state = "LEASED"
        /\ assembled[r] < job[r].attempts
    BY <1>1 DEF ClaimOk, IInv, RowsInv, RowOk
  <1>5. /\ assembled' \in [Runs -> Nat] /\ assembled'[r] = assembled[r] + 1
        /\ \A s \in Runs : s # r => assembled'[s] = assembled[s]
    BY <1>1, <1>3 DEF IInv, RowsInv
  <1>6. ASSUME NEW o \in Outcomes, Outcome(w, o),
               results' = IF o = "ok" THEN results \cup {r} ELSE results,
               o \in {"ok", "unavailable", "incompatible"}
        PROVE  IInv'
    <2>. DEFINE c == [q EXCEPT !.pc = "finish", !.outcome = o]
    <2>1. c \in ConType /\ c.pc = "finish" /\ c.run = r /\ c.outcome = o
      BY <1>1 DEF ConType
    <2>2. con' = [con EXCEPT ![w] = c]
      BY <1>6 DEF Outcome, IInv, ConsInv
    <2>3. (r \in results') <=> (o = "ok")
      BY <1>2, <1>6
    <2>4. ClaimOk(w, c, job[r], assembled'[r], r \in results')
      <3>. HIDE DEF c
      <3>. QED
        BY <1>1, <1>6, <2>1, <2>3 DEF ClaimOk
    <2>5. RowsInv'
      <3>1. WorkOk(job[r], assembled'[r], r \in results')
        <4>1. assembled'[r] <= job[r].attempts
          BY <1>1, <1>4, <1>5 DEF RowType, IInv, RowsInv
        <4>. QED
          BY <1>4, <4>1 DEF WorkOk
      <3>2. \A s \in Runs : s # r => ((s \in results') <=> (s \in results))
        BY <1>6
      <3>3. \A s \in Runs : job'[s] # None => RowOk(job'[s]) /\ WorkOk(job'[s], assembled'[s], s \in results')
        <4>1. ASSUME NEW s \in Runs, job[s] # None, s # r
              PROVE  RowOk(job[s]) /\ WorkOk(job[s], assembled'[s], s \in results')
          BY <1>5, <3>2, <4>1 DEF IInv, RowsInv, WorkOk
        <4>. QED
          BY <1>3, <1>4, <3>1, <4>1
      <3>4. \A s \in Runs : job'[s] = None => assembled'[s] = 0
        BY <1>3, <1>4, <1>5 DEF IInv, RowsInv
      <3>5. results' \subseteq Runs /\ DOMAIN job' = Runs
        BY <1>1, <1>3, <1>6 DEF IInv, RowsInv
      <3>. QED
        BY <1>5, <3>3, <3>4, <3>5 DEF RowsInv
    <2>. HIDE DEF c
    <2>. QED
      BY <1>1, <1>2, <1>3, <2>1, <2>2, <2>4, <2>5, OneConsumer
  <1>. QED
    BY <1>2, <1>6 DEF Assemble, Outcomes

LEMMA DelaysAreTimes == ASSUME NEW n \in 1 .. MaxAttempts, n < MaxAttempts PROVE Delays[n] \in Nat
  BY TimesAssumption

\* What finish makes of a row that is leased and whose outcome is known.
LEMMA FinishedOk ==
  ASSUME NEW row, RowOk(row), row.state = "LEASED", NEW o \in Outcomes, NEW n, NEW stored \in BOOLEAN,
         WorkOk(row, n, stored), o = "ok" => stored,
         o \in {"unavailable", "incompatible"} => ~stored
  PROVE  RowOk(Finished(row, o)) /\ WorkOk(Finished(row, o), n, stored)
  <1>. DEFINE new == Finished(row, o)
              retry == o \in Retryable /\ row.attempts < MaxAttempts
              state == IF o = "ok" THEN "CLASSIFIED" ELSE IF retry THEN "PENDING" ELSE "NO_RESULT_FINAL"
              reason == IF o = "ok" THEN None ELSE o
              wait == IF retry THEN Delays[row.attempts] ELSE row.wait
              identity == IF o = "conflict" THEN "CONFLICT" ELSE row.identity
  <1>1. row \in RowType /\ row.attempts \in 1 .. MaxAttempts
    BY DEF RowOk, RowType
  <1>2. /\ wait \in Nat /\ 0 \in 0 .. Lease
        /\ reason \in {None, "unavailable", "unreadable", "incompatible", "conflict"}
        /\ identity \in {"UNRESOLVED", "DEVICE_RESOLVED", "DEVICE_AND_VISIT_RESOLVED", "CONFLICT"}
        /\ state \in {"PENDING", "CLASSIFIED", "NO_RESULT_FINAL"}
    BY <1>1, DelaysAreTimes, TimesAssumption DEF RowType, Outcomes
  <1>3. new = [row EXCEPT !.state = state, !.reason = reason, !.wait = wait,
                          !.token = None, !.lease = 0, !.identity = identity]
    BY DEF Finished
  <1>4. new \in RowType
    <2>. HIDE DEF state, reason, wait, identity, new
    <2>. QED
      BY <1>1, <1>2, <1>3 DEF RowType
  <1>5. /\ new.state = state /\ new.reason = reason /\ new.token = None /\ new.identity = identity
        /\ new.attempts = row.attempts /\ new.device = row.device /\ new.visit = row.visit
    <2>. HIDE DEF state, reason, wait, identity, new
    <2>. QED
      BY <1>1, <1>3 DEF RowType
  <1>6. RowOk(new)
    <2>1. state = "NO_RESULT_FINAL" => reason \in Outcomes
      OBVIOUS
    <2>. HIDE DEF state, reason, wait, new
    <2>. QED
      BY <1>2, <1>4, <1>5, <2>1 DEF RowOk
  <1>7. WorkOk(new, n, stored)
    <2>1. state = "CLASSIFIED" => stored
      OBVIOUS
    <2>2. state = "NO_RESULT_FINAL" /\ stored => reason \in {"unreadable", "conflict"}
      BY DEF Outcomes
    <2>. HIDE DEF state, reason, wait, identity, new
    <2>. QED
      BY <1>5, <2>1, <2>2 DEF WorkOk
  <1>. QED
    BY <1>6, <1>7

LEMMA FinishInv ==
  ASSUME IInv, NEW w \in Workers, Finish(w)
  PROVE  IInv'
  <1>. DEFINE q == con[w]
              r == q.run
              c == [q EXCEPT !.pc = "identify"]
              new == Finished(job[r], q.outcome)
  <1>1. /\ q \in ConType /\ q.pc = "finish" /\ r \in Runs
        /\ ClaimOk(w, q, job[r], assembled[r], r \in results)
    BY DEF Finish, IInv, ConsInv, Working
  <1>2. Holding(w) /\ UNCHANGED <<results, assembled>>
    BY <1>1 DEF Finish, Holding
  <1>3. c \in ConType /\ c.pc = "identify"
    BY <1>1 DEF ConType
  <1>4. con' = [con EXCEPT ![w] = c] /\ c.pc \notin Working
    BY <1>3 DEF Finish, Step, Working, IInv, ConsInv
  <1>5. RowsInv'
    <2>1. CASE job' = job
      BY <1>2, <2>1 DEF IInv, RowsInv
    <2>2. CASE job' = [job EXCEPT ![r] = new]
      <3>1. RowOk(job[r]) /\ WorkOk(job[r], assembled[r], r \in results) /\ job[r].state = "LEASED"
        BY <1>1 DEF ClaimOk, IInv, RowsInv
      <3>2. /\ q.outcome \in Outcomes /\ (q.outcome = "ok" => r \in results)
            /\ q.outcome \in {"unavailable", "incompatible"} => r \notin results
        BY <1>1 DEF ClaimOk
      <3>3. RowOk(new) /\ WorkOk(new, assembled[r], r \in results)
        <4>1. (r \in results) \in BOOLEAN
          OBVIOUS
        <4>. QED
          BY <3>1, <3>2, <4>1, FinishedOk
      <3>4. new # None
        BY <3>3, NoRowAssumption DEF RowOk
      <3>. HIDE DEF new
      <3>. QED
        BY <1>1, <1>2, <2>2, <3>3, <3>4 DEF IInv, RowsInv
    <2>. QED
      BY <2>1, <2>2 DEF Finish
  <1>. HIDE DEF c
  <1>. QED
    BY <1>2, <1>3, <1>4, <1>5, OneConsumer

-----------------------------------------------------------------------------
(* The resolution of a job's identity *)

\* Nothing but the identity, its anchors and its timers has changed, and the anchors are kept.
Linked(row, new) ==
    /\ new.state = row.state /\ new.token = row.token /\ new.reason = row.reason
    /\ new.attempts = row.attempts
    /\ row.device # None => new.device = row.device
    /\ row.visit # None => new.visit = row.visit
    /\ row.identity # "UNRESOLVED" => new.identity # "UNRESOLVED"

LEMMA ConflictLinks ==
  ASSUME NEW row, RowOk(row), NEW device \in Devices \cup {None}, row.device \in {None, device}
  PROVE  RowOk(Conflict(row, device)) /\ Linked(row, Conflict(row, device))
  <1>. DEFINE new == Conflict(row, device)
  <1>1. row \in RowType
    BY DEF RowOk
  <1>2. new \in RowType
    BY <1>1 DEF Conflict, RowType
  <1>3. /\ new.identity = "CONFLICT" /\ new.device = device /\ new.visit = row.visit
        /\ new.state = row.state /\ new.token = row.token /\ new.reason = row.reason
        /\ new.attempts = row.attempts
    BY <1>1 DEF Conflict, RowType
  <1>. HIDE DEF new
  <1>4. RowOk(new)
    BY <1>2, <1>3 DEF RowOk
  <1>5. Linked(row, new)
    BY <1>3 DEF Linked
  <1>. QED
    BY <1>4, <1>5 DEF new

\* Whatever the registry and the visit store answer, a device or a visit once found is not replaced.
LEMMA ResolveLinks ==
  ASSUME NEW row, RowOk(row), NEW device \in Devices \cup {None, "mismatch"}, NEW exact \in VisitAnswers
  PROVE  RowOk(Resolve(row, device, exact)) /\ Linked(row, Resolve(row, device, exact))
  <1>1. row \in RowType /\ row.device \in Devices \cup {None} /\ row.visit \in Visits \cup {None}
    BY DEF RowOk, RowType
  <1>2. CASE device = None
    <2>1. Resolve(row, device, exact) = row
      BY <1>2, NoneAssumption DEF Resolve
    <2>. QED
      BY <2>1 DEF Linked
  <1>3. CASE device = "mismatch"
    <2>1. Resolve(row, device, exact) = Conflict(row, row.device)
      BY <1>3, NoneAssumption DEF Resolve
    <2>. QED
      BY <1>1, <2>1, ConflictLinks
  <1>4. CASE device \in Devices /\ row.device \notin {None, device}
    <2>1. Resolve(row, device, exact) = Conflict(row, row.device)
      BY <1>4, NoneAssumption DEF Resolve
    <2>. QED
      BY <1>1, <2>1, ConflictLinks
  <1>5. CASE device \in Devices /\ row.device \in {None, device}
    <2>. DEFINE v == CHOOSE x \in exact : TRUE
    <2>1. device # None /\ device # "mismatch"
      BY <1>5, NoneAssumption
    <2>2. Resolve(row, device, exact) =
            IF Cardinality(exact) > 1 THEN Conflict(row, device)
            ELSE IF exact = {} THEN
              [row EXCEPT !.identity = IF row.visit = None THEN "DEVICE_RESOLVED"
                                       ELSE "DEVICE_AND_VISIT_RESOLVED",
                          !.device = device]
            ELSE IF v.device \notin {None, device} \/ row.visit \notin {None, v.id}
                   THEN Conflict(row, device)
                   ELSE [row EXCEPT !.identity = "DEVICE_AND_VISIT_RESOLVED",
                                    !.device = device, !.visit = v.id]
      BY <1>5, <2>1 DEF Resolve
    <2>3. RowOk(Conflict(row, device)) /\ Linked(row, Conflict(row, device))
      BY <1>5, ConflictLinks
    <2>4. ASSUME NEW visit \in Visits \cup {None}, row.visit \in {None, visit},
                 NEW identity \in {"DEVICE_RESOLVED", "DEVICE_AND_VISIT_RESOLVED"},
                 identity = "DEVICE_AND_VISIT_RESOLVED" => visit # None,
                 NEW new, new = [row EXCEPT !.identity = identity, !.device = device, !.visit = visit]
          PROVE  RowOk(new) /\ Linked(row, new)
      <3>1. new \in RowType
        BY <1>1, <1>5, <2>4 DEF RowType
      <3>2. /\ new.identity = identity /\ new.device = device /\ new.visit = visit
            /\ new.state = row.state /\ new.token = row.token /\ new.reason = row.reason
            /\ new.attempts = row.attempts
        BY <1>1, <2>4 DEF RowType
      <3>. QED
        BY <1>5, <2>1, <2>4, <3>1, <3>2 DEF RowOk, Linked
    <2>5. CASE exact = {} /\ ~(Cardinality(exact) > 1)
      <3>. DEFINE identity == IF row.visit = None THEN "DEVICE_RESOLVED" ELSE "DEVICE_AND_VISIT_RESOLVED"
      <3>1. Resolve(row, device, exact) = [row EXCEPT !.identity = identity, !.device = device]
        BY <2>2, <2>5
      <3>2. Resolve(row, device, exact) =
              [row EXCEPT !.identity = identity, !.device = device, !.visit = row.visit]
        <4>. HIDE DEF identity
        <4>. QED
          BY <1>1, <3>1 DEF RowType
      <3>3. /\ identity \in {"DEVICE_RESOLVED", "DEVICE_AND_VISIT_RESOLVED"}
            /\ identity = "DEVICE_AND_VISIT_RESOLVED" => row.visit # None
        OBVIOUS
      <3>. HIDE DEF identity
      <3>. QED
        BY <1>1, <2>4, <3>2, <3>3
    <2>6. CASE exact # {} /\ ~(Cardinality(exact) > 1) /\ v.device \in {None, device} /\ row.visit \in {None, v.id}
      <3>1. v \in exact
        BY <2>6
      <3>2. v.id \in Visits
        BY <3>1 DEF VisitAnswers
      <3>3. v.id # None
        BY <3>2, NoneAssumption
      <3>. HIDE DEF v
      <3>4. Resolve(row, device, exact) =
              [row EXCEPT !.identity = "DEVICE_AND_VISIT_RESOLVED", !.device = device, !.visit = v.id]
        BY <2>2, <2>6
      <3>. QED
        BY <2>4, <2>6, <3>2, <3>3, <3>4
    <2>. HIDE DEF v
    <2>. QED
      BY <2>2, <2>3, <2>5, <2>6
  <1>. QED
    BY <1>2, <1>3, <1>4, <1>5

\* save_identity keeps a conflict, and only sets timers on what it saves.
LEMMA SavedLinks ==
  ASSUME NEW row, RowOk(row), NEW new, RowOk(new), Linked(row, new)
  PROVE  /\ RowOk(Saved(row, new)) /\ Linked(row, Saved(row, new))
         /\ row.identity = "CONFLICT" => Saved(row, new).identity = "CONFLICT"
  <1>1. CASE row.identity = "CONFLICT"
    <2>1. Saved(row, new) = row
      BY <1>1 DEF Saved
    <2>. QED
      BY <1>1, <2>1 DEF Linked
  <1>2. CASE row.identity # "CONFLICT"
    <2>. DEFINE done == row.horizon = 0
                s == [new EXCEPT !.idWait = IdRetry, !.idDone = done]
    <2>1. Saved(row, new) = s
      BY <1>2 DEF Saved
    <2>2. new \in RowType /\ done \in BOOLEAN /\ IdRetry \in 0 .. IdRetry
      BY TimesAssumption DEF RowOk
    <2>3. s \in RowType
      <3>. HIDE DEF done
      <3>. QED
        BY <2>2 DEF RowType
    <2>4. /\ s.state = new.state /\ s.token = new.token /\ s.reason = new.reason
          /\ s.attempts = new.attempts /\ s.identity = new.identity
          /\ s.device = new.device /\ s.visit = new.visit
      <3>. HIDE DEF done
      <3>. QED
        BY <2>2 DEF RowType
    <2>. HIDE DEF s
    <2>. QED
      BY <1>2, <2>1, <2>3, <2>4 DEF RowOk, Linked
  <1>. QED
    BY <1>1, <1>2

\* What an identity attempt makes of the rows.
IdentityStep(r, new) ==
    /\ new # None /\ RowOk(new) /\ Linked(job[r], new)
    /\ job[r].identity \in {"UNRESOLVED", "DEVICE_RESOLVED"} /\ ~job[r].idDone

LEMMA IdentifyLinks ==
  ASSUME IInv, NEW w \in Workers, Identify(w)
  PROVE  \/ UNCHANGED job
         \/ \E r \in Jobs : \E new : job' = [job EXCEPT ![r] = new] /\ IdentityStep(r, new)
  <1>1. CASE IdentityDue # {}
    <2>1. PICK r \in IdentityDue :
            \/ job' = [job EXCEPT ![r] = Saved(job[r], job[r])]
            \/ \E device \in Devices \cup {None, "mismatch"}, exact \in VisitAnswers :
                 job' = [job EXCEPT ![r] = Saved(job[r], Resolve(job[r], device, exact))]
      BY <1>1 DEF Identify
    <2>2. r \in Jobs /\ RowOk(job[r]) /\ Linked(job[r], job[r])
      BY DEF IdentityDue, Jobs, IInv, RowsInv, Linked
    <2>3. PICK x : job' = [job EXCEPT ![r] = Saved(job[r], x)] /\ RowOk(x) /\ Linked(job[r], x)
      BY <2>1, <2>2, ResolveLinks
    <2>4. IdentityStep(r, Saved(job[r], x))
      <3>1. RowOk(Saved(job[r], x)) /\ Linked(job[r], Saved(job[r], x))
        BY <2>2, <2>3, SavedLinks
      <3>2. job[r].identity \in {"UNRESOLVED", "DEVICE_RESOLVED"} /\ ~job[r].idDone
        BY DEF IdentityDue
      <3>3. Saved(job[r], x) # None
        BY <3>1, NoRowAssumption DEF RowOk
      <3>. QED
        BY <3>1, <3>2, <3>3 DEF IdentityStep
    <2>. QED
      BY <2>2, <2>3, <2>4
  <1>2. CASE IdentityDue = {}
    BY <1>2 DEF Identify
  <1>. QED
    BY <1>1, <1>2

\* The consumer still has the lock, but no row is leased to it any more that it relies on.
LEMMA IdentifyInv ==
  ASSUME IInv, NEW w \in Workers, Identify(w)
  PROVE  IInv'
  <1>1. Waiting \in ConType /\ Waiting.pc \notin Working /\ con' = [con EXCEPT ![w] = Waiting]
    BY DEF Waiting, ConType, Identify, Working
  <1>2. Holding(w) /\ UNCHANGED <<results, assembled>>
    BY DEF Identify, Holding
  <1>3. RowsInv'
    <2>1. CASE UNCHANGED job
      BY <1>2, <2>1 DEF IInv, RowsInv
    <2>2. ASSUME NEW r \in Jobs, NEW new, job' = [job EXCEPT ![r] = new], IdentityStep(r, new)
          PROVE  RowsInv'
      <3>1. r \in Runs /\ job[r] # None /\ WorkOk(job[r], assembled[r], r \in results)
        BY DEF Jobs, IInv, RowsInv
      <3>2. RowOk(new) /\ WorkOk(new, assembled[r], r \in results) /\ new # None
        BY <2>2, <3>1 DEF IdentityStep, Linked, WorkOk
      <3>. QED
        BY <1>2, <2>2, <3>1, <3>2 DEF IInv, RowsInv
    <2>. QED
      BY <2>1, <2>2, IdentifyLinks
  <1>. QED
    BY <1>1, <1>2, <1>3, OneConsumer

-----------------------------------------------------------------------------
(* Enqueue and time *)

LEMMA EnqueueInv ==
  ASSUME IInv, NEW r \in Runs, Enqueue(r)
  PROVE  IInv'
  <1>. DEFINE new == [state |-> "PENDING", attempts |-> 0, wait |-> Due, due |-> Due,
                      token |-> None, lease |-> 0, reason |-> None,
                      identity |-> "UNRESOLVED", device |-> None, visit |-> None,
                      idWait |-> 0, idDone |-> FALSE, horizon |-> Horizon]
  <1>1. UNCHANGED <<con, results, assembled>> /\ job' = [job EXCEPT ![r] = IF job[r] # None THEN job[r] ELSE new]
    BY DEF Enqueue
  <1>2. new \in RowType
    <2>1. /\ 0 \in 0 .. MaxAttempts /\ Due \in Nat /\ Due \in 0 .. Due /\ 0 \in 0 .. Lease
          /\ 0 \in 0 .. IdRetry /\ Horizon \in 0 .. Horizon
      BY TimesAssumption
    <2>. QED
      BY <2>1 DEF RowType
  <1>3. RowOk(new) /\ new # None /\ new.attempts = 0 /\ new.state = "PENDING"
    BY <1>2, NoRowAssumption DEF RowOk
  <1>4. job[r] = None => WorkOk(new, assembled[r], r \in results)
    <2>. HIDE DEF new
    <2>. QED
      BY <1>3 DEF IInv, RowsInv, WorkOk
  <1>. HIDE DEF new
  <1>5. /\ DOMAIN job' = Runs /\ job'[r] = IF job[r] # None THEN job[r] ELSE new
        /\ \A s \in Runs : s # r => job'[s] = job[s]
    BY <1>1 DEF IInv, RowsInv
  <1>6. \A s \in Runs : job'[s] # None => RowOk(job'[s]) /\ WorkOk(job'[s], assembled[s], s \in results)
    BY <1>3, <1>4, <1>5 DEF IInv, RowsInv
  <1>. QED
    BY <1>1, <1>3, <1>5, <1>6, RowsMove

LEMMA LessIsLess == ASSUME NEW m \in Nat, NEW n \in 0 .. m PROVE Less(n) \in 0 .. m
  BY DEF Less

\* Time leaves of a row everything but its timers.
LEMMA TickRow ==
  ASSUME IInv, Tick, NEW r \in Runs, job[r] # None
  PROVE  /\ RowOk(job'[r]) /\ Linked(job[r], job'[r]) /\ job'[r].identity = job[r].identity
         /\ job'[r].device = job[r].device /\ job'[r].visit = job[r].visit /\ job'[r].idDone = job[r].idDone
         /\ WorkOk(job'[r], assembled[r], r \in results)
  <1>. DEFINE row == job[r]
              due == Less(row.due)
              wait == Less(row.wait)
              lease == Less(row.lease)
              idWait == Less(row.idWait)
              horizon == Less(row.horizon)
              new == [row EXCEPT !.due = due, !.wait = wait, !.lease = lease,
                                 !.idWait = idWait, !.horizon = horizon]
  <1>1. RowOk(row) /\ WorkOk(row, assembled[r], r \in results) /\ row \in RowType
    BY DEF IInv, RowsInv, RowOk
  <1>2. job'[r] = new
    BY DEF Tick
  <1>3. {Due, Lease, IdRetry, Horizon} \subseteq Nat
    BY TimesAssumption
  <1>4. /\ due \in 0 .. Due /\ wait \in Nat /\ lease \in 0 .. Lease /\ idWait \in 0 .. IdRetry
        /\ horizon \in 0 .. Horizon
    <2>1. wait \in Nat
      BY <1>1 DEF RowType, Less
    <2>2. /\ row.due \in 0 .. Due /\ row.lease \in 0 .. Lease /\ row.idWait \in 0 .. IdRetry
          /\ row.horizon \in 0 .. Horizon
      BY <1>1 DEF RowType
    <2>. HIDE DEF row
    <2>. QED
      BY <1>3, <2>1, <2>2, LessIsLess
  <1>5. new \in RowType
    <2>. HIDE DEF row, due, wait, lease, idWait, horizon
    <2>. QED
      BY <1>1, <1>4 DEF RowType
  <1>6. /\ new.state = row.state /\ new.token = row.token /\ new.reason = row.reason
        /\ new.attempts = row.attempts /\ new.identity = row.identity
        /\ new.device = row.device /\ new.visit = row.visit /\ new.idDone = row.idDone
    <2>. HIDE DEF row, due, wait, lease, idWait, horizon
    <2>. QED
      BY <1>1 DEF RowType
  <1>. HIDE DEF new, row
  <1>. QED
    BY <1>1, <1>2, <1>5, <1>6 DEF RowOk, WorkOk, Linked, row

LEMMA TickInv ==
  ASSUME IInv, Tick
  PROVE  IInv'
  <1>1. UNCHANGED <<con, results, assembled>> /\ DOMAIN job' = Runs
    BY DEF Tick
  <1>2. \A r \in Runs : job[r] = None <=> job'[r] = None
    <2>1. ASSUME NEW r \in Runs, job[r] # None PROVE job'[r] # None
      <3>1. job[r] \in RowType
        BY <2>1 DEF IInv, RowsInv, RowOk
      <3>. QED
        BY <2>1, <3>1, TickRow, NoRowAssumption DEF RowOk
    <2>. QED
      BY <2>1 DEF Tick
  <1>3. \A r \in Runs : job[r] # None =>
          /\ RowOk(job'[r]) /\ WorkOk(job'[r], assembled[r], r \in results)
          /\ job'[r].state = job[r].state /\ job'[r].token = job[r].token
          /\ job'[r].attempts = job[r].attempts
    BY TickRow DEF Linked
  <1>. QED
    BY <1>1, <1>2, <1>3, RowsMove

-----------------------------------------------------------------------------
(* The invariant holds *)

LEMMA InitInv == Init => IInv
  <1>. SUFFICES ASSUME Init PROVE IInv
    OBVIOUS
  <1>1. Waiting \in ConType /\ Waiting.pc = "idle"
    BY DEF Waiting, ConType
  <1>2. RowsInv
    BY DEF Init, RowsInv
  <1>3. ConsInv /\ OneHolds
    BY <1>1 DEF Init, ConsInv, OneHolds, Holding, Working
  <1>. QED
    BY <1>2, <1>3 DEF IInv

LEMMA StepInv == IInv /\ [Next]_vars => IInv'
  <1>. SUFFICES ASSUME IInv, [Next]_vars PROVE IInv'
    OBVIOUS
  <1>1. CASE Next
    BY <1>1, EnqueueInv, BeginCycleInv, ReadInv, AssembleInv, FinishInv, CycleFailsInv, IdentifyInv,
       TickInv DEF Next
  <1>2. CASE UNCHANGED vars
    BY <1>2 DEF vars, IInv, RowsInv, ConsInv, OneHolds, Holding
  <1>. QED
    BY <1>1, <1>2

\* The rows and what the consumers rely on, in every state of every behaviour.
THEOREM Invariance == Spec => []IInv
  BY InitInv, StepInv, PTL DEF Spec

-----------------------------------------------------------------------------
(* The properties *)

LEMMA InvHonest == IInv => JobsAreHonest
  <1>. SUFFICES ASSUME IInv PROVE JobsAreHonest
    OBVIOUS
  <1>1. ASSUME NEW r \in Runs, job[r] # None
        PROVE  /\ job[r] \in RowType
               /\ (job[r].state = "LEASED") = (job[r].token # None)
               /\ job[r].identity \in {"DEVICE_RESOLVED", "DEVICE_AND_VISIT_RESOLVED"}
                    => job[r].device # None
               /\ job[r].identity = "DEVICE_AND_VISIT_RESOLVED" => job[r].visit # None
               /\ job[r].attempts \in 0 .. MaxAttempts
    BY <1>1 DEF IInv, RowsInv, RowOk, RowType
  <1>2. TypeOK
    BY <1>1 DEF IInv, RowsInv, ConsInv, ConType, TypeOK
  <1>3. NoResultIsHonest
    BY DEF IInv, RowsInv, WorkOk, NoResultIsHonest, Jobs
  <1>4. BoundedAssembly
    <2>1. ASSUME NEW r \in Runs PROVE assembled[r] <= MaxAttempts
      <3>1. CASE job[r] = None
        BY <3>1, TimesAssumption DEF IInv, RowsInv
      <3>2. CASE job[r] # None
        <4>1. assembled[r] \in Nat /\ assembled[r] <= job[r].attempts
          BY <3>2 DEF IInv, RowsInv, WorkOk
        <4>2. MaxAttempts \in Nat
          BY TimesAssumption
        <4>. QED
          BY <1>1, <3>2, <4>1, <4>2
      <3>. QED
        BY <3>1, <3>2
    <2>. QED
      BY <2>1 DEF BoundedAssembly
  <1>. QED
    BY <1>2, <1>3, <1>4 DEF JobsAreHonest

\* claim and finish, for any number of runs and consumers, any delays and any crashes: a job is
\* CLASSIFIED only with its result stored, given up only without one (or when the lookup itself
\* failed), and a run is classified at most MAX_ATTEMPTS times.
THEOREM Honesty == Spec => []JobsAreHonest
  BY Invariance, InvHonest, PTL

\* A row of its own: everything else a step may do to the rows.
LEMMA OneRowChanges ==
  ASSUME IInv, NEW r \in Runs, NEW new, job' = [job EXCEPT ![r] = new],
         job[r] # None =>
           /\ job[r].state \in {"CLASSIFIED", "NO_RESULT_FINAL"} =>
                 new.state = job[r].state /\ new.reason = job[r].reason /\ new.attempts = job[r].attempts
           /\ job[r].device # None => new.device = job[r].device
           /\ job[r].visit # None => new.visit = job[r].visit
           /\ job[r].identity = "CONFLICT" => new.identity = "CONFLICT"
  PROVE  KeepsOutcomes /\ KeepsAnchors
  BY DEF IInv, RowsInv, KeepsOutcomes, KeepsAnchors, Jobs

LEMMA StepKeeps == IInv /\ [Next]_vars => KeepsOutcomes /\ KeepsAnchors
  <1>. SUFFICES ASSUME IInv, [Next]_vars PROVE KeepsOutcomes /\ KeepsAnchors
    OBVIOUS
  <1>1. CASE UNCHANGED job
    BY <1>1 DEF KeepsOutcomes, KeepsAnchors, Jobs
  <1>2. ASSUME NEW r \in Runs, Enqueue(r) PROVE KeepsOutcomes /\ KeepsAnchors
    BY <1>2 DEF Enqueue, KeepsOutcomes, KeepsAnchors, Jobs, IInv, RowsInv
  <1>3. ASSUME NEW w \in Workers, BeginCycle(w) PROVE KeepsOutcomes /\ KeepsAnchors
    <2>1. CASE Claimable = {}
      BY <1>1, <1>3, <2>1 DEF BeginCycle
    <2>2. CASE Claimable # {}
      <3>. DEFINE r == Min(Claimable)
                  n == Min({job[r].attempts + 1, MaxAttempts})
                  new == [job[r] EXCEPT !.state = "LEASED", !.token = w, !.lease = Lease, !.attempts = n]
      <3>1. r \in Claimable
        BY <2>2, RunsAssumption, MinOfSet DEF Claimable, Jobs
      <3>2. /\ r \in Runs /\ job[r] \in RowType
            /\ job[r].state \notin {"CLASSIFIED", "NO_RESULT_FINAL"}
        BY <3>1 DEF Claimable, Jobs, IInv, RowsInv, RowOk
      <3>3. job' = [job EXCEPT ![r] = new]
        BY <1>3, <2>2 DEF BeginCycle, Claim
      <3>4. new.device = job[r].device /\ new.visit = job[r].visit /\ new.identity = job[r].identity
        <4>. HIDE DEF r, n
        <4>. QED
          BY <3>2 DEF RowType
      <3>. HIDE DEF new, r
      <3>. QED
        BY <3>2, <3>3, <3>4, OneRowChanges
    <2>. QED
      BY <2>1, <2>2
  <1>4. ASSUME NEW w \in Workers, Finish(w) PROVE KeepsOutcomes /\ KeepsAnchors
    <2>. DEFINE r == con[w].run
                new == Finished(job[r], con[w].outcome)
    <2>1. r \in Runs /\ job[r] \in RowType /\ job[r].state = "LEASED"
      BY <1>4 DEF Finish, IInv, ConsInv, ClaimOk, Working, RowsInv, RowOk
    <2>2. /\ new.device = job[r].device /\ new.visit = job[r].visit
          /\ job[r].identity = "CONFLICT" => new.identity = "CONFLICT"
      <3>. HIDE DEF r
      <3>. QED
        BY <2>1 DEF Finished, RowType
    <2>3. UNCHANGED job \/ job' = [job EXCEPT ![r] = new]
      BY <1>4 DEF Finish
    <2>. HIDE DEF new, r
    <2>. QED
      BY <1>1, <2>1, <2>2, <2>3, OneRowChanges
  <1>5. ASSUME NEW w \in Workers, Identify(w) PROVE KeepsOutcomes /\ KeepsAnchors
    <2>1. ASSUME NEW r \in Jobs, NEW new, job' = [job EXCEPT ![r] = new], IdentityStep(r, new)
          PROVE  KeepsOutcomes /\ KeepsAnchors
      BY <2>1, OneRowChanges DEF IdentityStep, Linked, Jobs
    <2>. QED
      BY <1>1, <1>5, <2>1, IdentifyLinks
  <1>6. CASE Tick
    BY <1>6, TickRow DEF Linked, KeepsOutcomes, KeepsAnchors, Jobs
  <1>7. ASSUME NEW w \in Workers, Read(w) \/ Assemble(w) \/ CycleFails(w) \/ Crash(w) \/ Restart(w)
        PROVE  UNCHANGED job
    BY <1>7 DEF Read, Assemble, CycleFails, Crash, Restart
  <1>8. CASE UNCHANGED vars
    BY <1>1, <1>8 DEF vars
  <1>. QED
    BY <1>1, <1>2, <1>3, <1>4, <1>5, <1>6, <1>7, <1>8 DEF Next

\* No step of enqueue, claim, finish or save_identity changes a finished job's classification, replaces
\* a device or a visit once linked, or takes a conflict back (OutcomesAreStable).
THEOREM Stability == Spec => OutcomesAreStable
  BY Invariance, StepKeeps, PTL DEF Spec, OutcomesAreStable

-----------------------------------------------------------------------------
(* The jobs implement JobContract *)

\* What a step has to leave alone for the run to see nothing of it.
SameWork(r) ==
    /\ job'[r] = None <=> job[r] = None
    /\ job[r] # None =>
          /\ \/ job'[r].state = job[r].state
             \/ {job[r].state, job'[r].state} \subseteq {"PENDING", "LEASED"}
          /\ job[r].state = "NO_RESULT_FINAL" => job'[r].reason = job[r].reason
    /\ assembled'[r] = assembled[r]
    /\ (r \in results') <=> (r \in results)

SameLink(r) ==
    /\ job'[r] = None <=> job[r] = None
    /\ job[r] # None =>
          /\ job'[r].identity = job[r].identity /\ job'[r].device = job[r].device
          /\ job'[r].visit = job[r].visit /\ job'[r].idDone = job[r].idDone

LEMMA SameWorkIsSeen == ASSUME NEW r \in Runs, SameWork(r) PROVE Work(r)' = Work(r)
  BY DEF SameWork, Work

LEMMA SameLinkIsSeen == ASSUME NEW r \in Runs, SameLink(r) PROVE Link(r)' = Link(r)
  BY DEF SameLink, Link

ContractStutter == UNCHANGED <<[r \in Runs |-> Work(r)], [r \in Runs |-> Link(r)]>>

LEMMA NothingIsSeen ==
  ASSUME \A r \in Runs : SameWork(r) /\ SameLink(r)
  PROVE  ContractStutter
  <1>1. \A r \in Runs : Work(r)' = Work(r) /\ Link(r)' = Link(r)
    BY SameWorkIsSeen, SameLinkIsSeen
  <1>. QED
    BY <1>1 DEF ContractStutter

\* A step of one run.
LEMMA OneRunIsSeen ==
  ASSUME NEW r \in Runs, \A s \in Runs : s # r => SameWork(s) /\ SameLink(s),
         Contract!Submit(r) \/ Contract!Try(r) \/ Contract!Conclude(r) \/ Contract!Learn(r)
  PROVE  Contract!Next
  <1>1. \A s \in Runs : s # r => Work(s)' = Work(s) /\ Link(s)' = Link(s)
    BY SameWorkIsSeen, SameLinkIsSeen
  <1>. QED
    BY <1>1 DEF Contract!Next

\* The records a try and a verdict leave.
LEMMA TryIsSeen ==
  ASSUME NEW r \in Runs, NEW n, n < MaxAttempts, NEW before, ~before, NEW stored, stored \in BOOLEAN,
         Work(r) = [phase |-> "open", tries |-> n, stored |-> before],
         Work(r)' = [phase |-> "open", tries |-> n + 1, stored |-> stored],
         Link(r)' = Link(r)
  PROVE  Contract!Try(r)
  <1>. DEFINE work == [s \in Runs |-> Work(s)]
              link == [s \in Runs |-> Link(s)]
  <1>1. /\ work[r] = Work(r) /\ work'[r] = Work(r)'
        /\ link[r] = Link(r) /\ link'[r] = Link(r)'
    OBVIOUS
  <1>2. /\ work[r].phase = "open" /\ ~work[r].stored /\ work[r].tries < MaxAttempts
        /\ work'[r] = [phase |-> "open", tries |-> work[r].tries + 1, stored |-> stored]
        /\ link'[r] = link[r]
    BY <1>1
  <1>. HIDE DEF work, link
  <1>. QED
    BY <1>2 DEF Contract!Try, work, link

LEMMA ConcludeIsSeen ==
  ASSUME NEW r \in Runs, NEW n, NEW stored, NEW verdict \in Contract!Verdicts(stored),
         NEW identity, NEW device, NEW visit, NEW done,
         Work(r) = [phase |-> "open", tries |-> n, stored |-> stored],
         Work(r)' = [phase |-> verdict, tries |-> n, stored |-> stored],
         Link(r) = [identity |-> identity, device |-> device, visit |-> visit, done |-> done],
         Link(r)' = [identity |-> IF verdict = "conflict" THEN "CONFLICT" ELSE identity,
                     device |-> device, visit |-> visit, done |-> done]
  PROVE  Contract!Conclude(r)
  <1>. DEFINE work == [s \in Runs |-> Work(s)]
              link == [s \in Runs |-> Link(s)]
  <1>1. /\ work[r] = Work(r) /\ work'[r] = Work(r)'
        /\ link[r] = Link(r) /\ link'[r] = Link(r)'
    OBVIOUS
  <1>2. work[r].phase = "open" /\ work[r].stored = stored
    BY <1>1
  <1>3. work'[r] = [work[r] EXCEPT !.phase = verdict]
    BY <1>1
  <1>4. link'[r] = IF verdict = "conflict" THEN [link[r] EXCEPT !.identity = "CONFLICT"] ELSE link[r]
    BY <1>1
  <1>. HIDE DEF work, link
  <1>. QED
    BY <1>2, <1>3, <1>4 DEF Contract!Conclude, work, link

Seen == Contract!Next \/ ContractStutter

LEMMA UnchangedSeen == ASSUME UNCHANGED <<job, results, assembled>> PROVE Seen
  <1>1. \A r \in Runs : SameWork(r) /\ SameLink(r)
    BY DEF SameWork, SameLink
  <1>. QED
    BY <1>1, NothingIsSeen DEF Seen

LEMMA EnqueueSeen ==
  ASSUME IInv, NEW r \in Runs, Enqueue(r)
  PROVE  Seen
  <1>1. UNCHANGED <<con, results, assembled>> /\ DOMAIN job = Runs
    BY DEF Enqueue, IInv, RowsInv
  <1>2. \A s \in Runs : s # r => job'[s] = job[s]
    BY <1>1 DEF Enqueue
  <1>3. CASE job[r] # None
    <2>1. job'[r] = job[r]
      BY <1>1, <1>3 DEF Enqueue
    <2>2. \A s \in Runs : SameWork(s) /\ SameLink(s)
      BY <1>1, <1>2, <2>1 DEF SameWork, SameLink
    <2>. QED
      BY <2>2, NothingIsSeen DEF Seen
  <1>4. CASE job[r] = None
    <2>. DEFINE new == job'[r]
    <2>1. /\ new.state = "PENDING" /\ new.identity = "UNRESOLVED" /\ new.device = None
          /\ new.visit = None /\ new.idDone = FALSE /\ new # None
      <3>1. new = [state |-> "PENDING", attempts |-> 0, wait |-> Due, due |-> Due,
                   token |-> None, lease |-> 0, reason |-> None,
                   identity |-> "UNRESOLVED", device |-> None, visit |-> None,
                   idWait |-> 0, idDone |-> FALSE, horizon |-> Horizon]
        BY <1>1, <1>4 DEF Enqueue
      <3>2. new # None
        <4>1. IInv'
          BY EnqueueInv
        <4>2. /\ 0 \in 0 .. MaxAttempts /\ Due \in Nat /\ Due \in 0 .. Due /\ 0 \in 0 .. Lease
              /\ 0 \in 0 .. IdRetry /\ Horizon \in 0 .. Horizon
          BY TimesAssumption
        <4>3. new \in RowType
          <5>. HIDE DEF new
          <5>. QED
            BY <3>1, <4>2 DEF RowType
        <4>. QED
          BY <4>3, NoRowAssumption
      <3>. HIDE DEF new
      <3>. QED
        BY <3>1, <3>2
    <2>. HIDE DEF new
    <2>2. /\ Work(r) = [phase |-> "none", tries |-> assembled[r], stored |-> r \in results]
          /\ Work(r)' = [phase |-> "open", tries |-> assembled[r], stored |-> r \in results]
      BY <1>1, <1>4, <2>1 DEF Work, new
    <2>3. Link(r)' = Link(r)
      BY <1>4, <2>1 DEF Link, new
    <2>4. Contract!Submit(r)
      BY <2>2, <2>3 DEF Contract!Submit
    <2>5. \A s \in Runs : s # r => SameWork(s) /\ SameLink(s)
      BY <1>1, <1>2 DEF SameWork, SameLink
    <2>. QED
      BY <2>4, <2>5, OneRunIsSeen DEF Seen
  <1>. QED
    BY <1>3, <1>4

\* A claim is not seen: the run is open before and after it.
LEMMA BeginCycleSeen ==
  ASSUME IInv, NEW w \in Workers, BeginCycle(w)
  PROVE  Seen
  <1>1. CASE Claimable = {}
    BY <1>1, UnchangedSeen DEF BeginCycle
  <1>2. CASE Claimable # {}
    <2>. DEFINE r == Min(Claimable)
                n == Min({job[r].attempts + 1, MaxAttempts})
                new == [job[r] EXCEPT !.state = "LEASED", !.token = w, !.lease = Lease, !.attempts = n]
    <2>1. r \in Claimable
      BY <1>2, RunsAssumption, MinOfSet DEF Claimable, Jobs
    <2>2. r \in Runs /\ job[r] # None /\ job[r] \in RowType /\ job[r].state \in {"PENDING", "LEASED"}
      BY <2>1 DEF Claimable, Jobs, IInv, RowsInv, RowOk
    <2>3. job' = [job EXCEPT ![r] = new] /\ UNCHANGED <<results, assembled>> /\ DOMAIN job = Runs
      BY <1>2 DEF BeginCycle, Claim, IInv, RowsInv
    <2>4. /\ new.state = "LEASED" /\ new.identity = job[r].identity /\ new.device = job[r].device
          /\ new.visit = job[r].visit /\ new.idDone = job[r].idDone
      <3>. HIDE DEF r, n
      <3>. QED
        BY <2>2 DEF RowType
    <2>5. job'[r] # None
      <3>1. IInv'
        BY BeginCycleInv
      <3>2. n \in 0 .. MaxAttempts /\ Lease \in 0 .. Lease
        <4>1. job[r].attempts \in 0 .. MaxAttempts /\ MaxAttempts \in Nat /\ Lease \in Nat
          BY <2>2, TimesAssumption DEF RowType
        <4>. HIDE DEF r
        <4>. QED
          BY <4>1, MinOfTwo
      <3>3. new \in RowType
        <4>. HIDE DEF r, n
        <4>. QED
          BY <2>2, <3>2 DEF RowType
      <3>. HIDE DEF new, r
      <3>. QED
        BY <2>2, <2>3, <3>3, NoRowAssumption
    <2>. HIDE DEF new, r
    <2>6. \A s \in Runs : SameWork(s) /\ SameLink(s)
      <3>1. job'[r] = new /\ \A s \in Runs : s # r => job'[s] = job[s]
        BY <2>2, <2>3
      <3>. QED
        BY <2>2, <2>3, <2>4, <2>5, <3>1 DEF SameWork, SameLink
    <2>. QED
      BY <2>6, NothingIsSeen DEF Seen
  <1>. QED
    BY <1>1, <1>2

\* A classification attempted is seen as a try of its run, whether it was stored or not.
LEMMA AssembleSeen ==
  ASSUME IInv, NEW w \in Workers, Assemble(w), NEW r \in Runs, r = con[w].run
  PROVE  Seen
  <1>1. /\ job[r] # None /\ job[r].state = "LEASED" /\ r \notin results
        /\ assembled[r] < job[r].attempts
    BY DEF Assemble, IInv, ConsInv, ClaimOk, Working
  <1>2. /\ job' = job /\ assembled' = [assembled EXCEPT ![r] = assembled[r] + 1]
        /\ results' \in {results, results \cup {r}}
    BY DEF Assemble
  <1>3. assembled \in [Runs -> Nat] /\ job[r].attempts \in 0 .. MaxAttempts /\ MaxAttempts \in Nat
    BY <1>1, TimesAssumption DEF IInv, RowsInv, RowOk, RowType
  <1>4. assembled[r] < MaxAttempts /\ assembled'[r] = assembled[r] + 1
    BY <1>1, <1>2, <1>3
  <1>. DEFINE before == r \in results
              stored == r \in results'
  <1>5. /\ ~before /\ stored \in BOOLEAN
        /\ Work(r) = [phase |-> "open", tries |-> assembled[r], stored |-> before]
    BY <1>1 DEF Work
  <1>6. Work(r)' = [phase |-> "open", tries |-> assembled[r] + 1, stored |-> stored]
    <2>1. job'[r] # None /\ job'[r].state = "LEASED"
      BY <1>1, <1>2
    <2>. QED
      BY <1>4, <2>1 DEF Work
  <1>7. Link(r)' = Link(r)
    BY <1>2 DEF Link
  <1>8. Contract!Try(r)
    <2>. HIDE DEF before, stored
    <2>. QED
      BY <1>4, <1>5, <1>6, <1>7, TryIsSeen
  <1>9. \A s \in Runs : s # r => SameWork(s) /\ SameLink(s)
    BY <1>1, <1>2, <1>3 DEF SameWork, SameLink
  <1>. QED
    BY <1>8, <1>9, OneRunIsSeen DEF Seen

\* A finish that still owns its lease closes the run with a verdict that what it has read supports,
\* or leaves it open for another attempt.
LEMMA FinishSeen ==
  ASSUME IInv, NEW w \in Workers, Finish(w), NEW r \in Runs, r = con[w].run
  PROVE  Seen
  <1>. DEFINE new == Finished(job[r], con[w].outcome)
  <1>1. /\ job[r] # None /\ job[r].state = "LEASED" /\ con[w].outcome \in Outcomes
        /\ con[w].outcome = "ok" => r \in results
        /\ con[w].outcome \in {"unavailable", "incompatible"} => r \notin results
    BY DEF Finish, IInv, ConsInv, ClaimOk, Working
  <1>2. job[r] \in RowType /\ DOMAIN job = Runs
    BY <1>1 DEF IInv, RowsInv, RowOk
  <1>3. UNCHANGED <<results, assembled>> /\ (UNCHANGED job \/ job' = [job EXCEPT ![r] = new])
    BY DEF Finish
  <1>4. CASE UNCHANGED job
    BY <1>3, <1>4, UnchangedSeen
  <1>5. CASE job' = [job EXCEPT ![r] = new]
    <2>1. /\ job'[r] = new
          /\ \A s \in Runs : s # r => SameWork(s) /\ SameLink(s)
      <3>. HIDE DEF new
      <3>. QED
        BY <1>2, <1>3, <1>5 DEF SameWork, SameLink
    <2>2. new # None
      <3>1. (r \in results) \in BOOLEAN /\ WorkOk(job[r], assembled[r], r \in results) /\ RowOk(job[r])
        BY <1>1 DEF IInv, RowsInv
      <3>2. RowOk(new)
        BY <1>1, <3>1, FinishedOk
      <3>. QED
        BY <3>2, NoRowAssumption DEF RowOk
    <2>3. /\ new.device = job[r].device /\ new.visit = job[r].visit /\ new.idDone = job[r].idDone
          /\ new.identity = IF con[w].outcome = "conflict" THEN "CONFLICT" ELSE job[r].identity
          /\ \/ /\ con[w].outcome = "ok"
                /\ new.state = "CLASSIFIED"
             \/ /\ con[w].outcome \in {"unavailable", "unreadable"}
                /\ new.state = "PENDING"
             \/ /\ con[w].outcome # "ok"
                /\ new.state = "NO_RESULT_FINAL" /\ new.reason = con[w].outcome
      BY <1>1, <1>2 DEF Finished, RowType, Retryable
    <2>. HIDE DEF new
    <2>4. CASE new.state = "PENDING"
      <3>1. SameWork(r) /\ SameLink(r)
        BY <1>1, <1>3, <2>1, <2>2, <2>3, <2>4 DEF SameWork, SameLink
      <3>. QED
        BY <2>1, <3>1, NothingIsSeen DEF Seen
    <2>5. CASE new.state # "PENDING"
      <3>. DEFINE verdict == IF con[w].outcome = "ok" THEN "classified" ELSE con[w].outcome
      <3>1. /\ Work(r) = [phase |-> "open", tries |-> assembled[r], stored |-> r \in results]
            /\ Work(r)' = [phase |-> verdict, tries |-> assembled[r], stored |-> r \in results]
        BY <1>1, <1>3, <2>1, <2>2, <2>3, <2>5 DEF Work
      <3>2. /\ Link(r) = [identity |-> job[r].identity, device |-> job[r].device,
                          visit |-> job[r].visit, done |-> job[r].idDone]
            /\ Link(r)' = [identity |-> IF verdict = "conflict" THEN "CONFLICT" ELSE job[r].identity,
                           device |-> job[r].device, visit |-> job[r].visit, done |-> job[r].idDone]
        BY <1>1, <2>1, <2>2, <2>3 DEF Link
      <3>3. verdict \in Contract!Verdicts(r \in results)
        BY <1>1, <2>3 DEF Contract!Verdicts, Outcomes
      <3>. HIDE DEF verdict
      <3>4. Contract!Conclude(r)
        BY <3>1, <3>2, <3>3, ConcludeIsSeen
      <3>. QED
        BY <2>1, <3>4, OneRunIsSeen DEF Seen
    <2>. QED
      BY <2>4, <2>5
  <1>. QED
    BY <1>3, <1>4, <1>5

\* What a row may say of its run's identity is what the contract lets be known of it.
LEMMA RowIsLink ==
  ASSUME NEW row, RowOk(row)
  PROVE  [identity |-> row.identity, device |-> row.device, visit |-> row.visit, done |-> row.idDone]
           \in Contract!Link
  <1>1. /\ row.identity \in {"UNRESOLVED", "DEVICE_RESOLVED", "DEVICE_AND_VISIT_RESOLVED", "CONFLICT"}
        /\ row.device \in Devices \cup {None} /\ row.visit \in Visits \cup {None} /\ row.idDone \in BOOLEAN
    BY DEF RowOk, RowType
  <1>2. /\ row.identity \in {"DEVICE_RESOLVED", "DEVICE_AND_VISIT_RESOLVED"} => row.device # None
        /\ row.identity = "DEVICE_AND_VISIT_RESOLVED" => row.visit # None
    BY DEF RowOk
  <1>. QED
    BY <1>1, <1>2 DEF Contract!Link, Contract!Open

LEMMA LearnIsSeen ==
  ASSUME NEW r \in Runs, Work(r)' = Work(r), Work(r).phase # "none",
         Link(r).identity \in Contract!Open, ~Link(r).done, Link(r)' \in Contract!Link,
         Link(r).device # None => Link(r)'.device = Link(r).device,
         Link(r).visit # None => Link(r)'.visit = Link(r).visit,
         Link(r).identity = "DEVICE_RESOLVED" => Link(r)'.identity # "UNRESOLVED"
  PROVE  Contract!Learn(r)
  <1>. DEFINE work == [s \in Runs |-> Work(s)]
              link == [s \in Runs |-> Link(s)]
  <1>1. /\ work[r] = Work(r) /\ work'[r] = Work(r)'
        /\ link[r] = Link(r) /\ link'[r] = Link(r)'
    OBVIOUS
  <1>. HIDE DEF work, link
  <1>2. /\ work[r].phase # "none" /\ work'[r] = work[r]
        /\ link[r].identity \in Contract!Open /\ ~link[r].done
    BY <1>1
  <1>3. /\ link'[r] \in Contract!Link
        /\ link[r].device # None => link'[r].device = link[r].device
        /\ link[r].visit # None => link'[r].visit = link[r].visit
        /\ link[r].identity = "DEVICE_RESOLVED" => link'[r].identity # "UNRESOLVED"
    BY <1>1
  <1>. QED
    BY <1>2, <1>3 DEF Contract!Learn, work, link

\* An identity attempt, the last one included, is seen as learning something, or nothing.
LEMMA IdentifySeen ==
  ASSUME IInv, NEW w \in Workers, Identify(w)
  PROVE  Seen
  <1>1. UNCHANGED <<results, assembled>> /\ DOMAIN job = Runs
    BY DEF Identify, IInv, RowsInv
  <1>2. CASE UNCHANGED job
    BY <1>1, <1>2, UnchangedSeen
  <1>3. ASSUME NEW r \in Jobs, NEW new, job' = [job EXCEPT ![r] = new], IdentityStep(r, new)
        PROVE  Seen
    <2>1. /\ r \in Runs /\ job[r] # None /\ new # None /\ job'[r] = new
          /\ \A s \in Runs : s # r => job'[s] = job[s]
      BY <1>1, <1>3 DEF Jobs, IdentityStep
    <2>2. /\ new.state = job[r].state /\ new.reason = job[r].reason
          /\ job[r].identity \in {"UNRESOLVED", "DEVICE_RESOLVED"} /\ ~job[r].idDone
          /\ job[r].device # None => new.device = job[r].device
          /\ job[r].visit # None => new.visit = job[r].visit
          /\ job[r].identity # "UNRESOLVED" => new.identity # "UNRESOLVED"
          /\ RowOk(new)
      BY <1>3 DEF IdentityStep, Linked
    <2>3. \A s \in Runs : s # r => SameWork(s) /\ SameLink(s)
      BY <1>1, <2>1 DEF SameWork, SameLink
    <2>4. Work(r)' = Work(r)
      <3>1. SameWork(r)
        BY <1>1, <2>1, <2>2 DEF SameWork
      <3>. QED
        BY <2>1, <3>1, SameWorkIsSeen
    <2>5. Work(r).phase # "none"
      <3>1. job[r].state = "NO_RESULT_FINAL" => job[r].reason \in Outcomes
        BY <2>1 DEF IInv, RowsInv, RowOk
      <3>. QED
        BY <2>1, <3>1 DEF Work, Outcomes
    <2>6. /\ Link(r) = [identity |-> job[r].identity, device |-> job[r].device,
                        visit |-> job[r].visit, done |-> job[r].idDone]
          /\ Link(r)' = [identity |-> new.identity, device |-> new.device,
                         visit |-> new.visit, done |-> new.idDone]
      BY <2>1 DEF Link
    <2>7. Link(r)' \in Contract!Link
      BY <2>2, <2>6, RowIsLink
    <2>8. Contract!Learn(r)
      <3>1. /\ Link(r).identity = job[r].identity /\ Link(r).device = job[r].device
            /\ Link(r).visit = job[r].visit /\ Link(r).done = job[r].idDone
            /\ Link(r)'.identity = new.identity /\ Link(r)'.device = new.device
            /\ Link(r)'.visit = new.visit
        BY <2>6
      <3>. QED
        BY <2>1, <2>2, <2>4, <2>5, <2>7, <3>1, LearnIsSeen DEF Contract!Open
    <2>. QED
      BY <2>1, <2>3, <2>8, OneRunIsSeen DEF Seen
  <1>. QED
    BY <1>2, <1>3, IdentifyLinks

LEMMA TickSeen == ASSUME IInv, Tick PROVE Seen
  <1>1. \A r \in Runs : job[r] = None => job'[r] = None
    BY DEF Tick
  <1>2. ASSUME NEW r \in Runs, job[r] # None
        PROVE  /\ job'[r] # None /\ Linked(job[r], job'[r]) /\ job'[r].identity = job[r].identity
               /\ job'[r].device = job[r].device /\ job'[r].visit = job[r].visit
               /\ job'[r].idDone = job[r].idDone
    BY <1>2, TickRow, NoRowAssumption DEF RowOk
  <1>3. UNCHANGED <<results, assembled>>
    BY DEF Tick
  <1>4. ASSUME NEW r \in Runs PROVE SameWork(r) /\ SameLink(r)
    BY <1>1, <1>2, <1>3 DEF SameWork, SameLink, Linked
  <1>. QED
    BY <1>4, NothingIsSeen DEF Seen

LEMMA StepSeen == IInv /\ [Next]_vars => [Contract!Next]_<<[r \in Runs |-> Work(r)], [r \in Runs |-> Link(r)]>>
  <1>. SUFFICES ASSUME IInv, [Next]_vars PROVE Seen
    BY DEF Seen, ContractStutter
  <1>1. ASSUME NEW w \in Workers, Assemble(w) \/ Finish(w) PROVE Seen
    <2>1. con[w].run \in Runs
      BY <1>1 DEF Assemble, Finish, IInv, ConsInv, Working
    <2>2. PICK r \in Runs : r = con[w].run
      BY <2>1
    <2>. QED
      BY <1>1, <2>2, AssembleSeen, FinishSeen
  <1>2. ASSUME NEW w \in Workers, Read(w) \/ CycleFails(w) \/ Crash(w) \/ Restart(w)
        PROVE  Seen
    BY <1>2, UnchangedSeen DEF Read, CycleFails, Crash, Restart
  <1>3. CASE UNCHANGED vars
    BY <1>3, UnchangedSeen DEF vars
  <1>. QED
    BY <1>1, <1>2, <1>3, EnqueueSeen, BeginCycleSeen, IdentifySeen, TickSeen DEF Next

LEMMA ContractInit == Init => Contract!Init
  <1>. SUFFICES ASSUME Init PROVE Contract!Init
    OBVIOUS
  <1>1. ASSUME NEW r \in Runs
        PROVE  /\ Work(r) = [phase |-> "none", tries |-> 0, stored |-> FALSE]
               /\ Link(r) = [identity |-> "UNRESOLVED", device |-> None, visit |-> None, done |-> FALSE]
    <2>1. job[r] = None /\ assembled[r] = 0 /\ r \notin results
      BY DEF Init
    <2>2. (r \in results) = FALSE
      BY <2>1
    <2>. QED
      BY <2>1, <2>2 DEF Work, Link
  <1>. QED
    BY <1>1 DEF Contract!Init, Contract!NoLink

\* enqueue, claim, finish and save_identity, whatever leases expire, consumers crash and databases
\* answer, for any number of runs and consumers: every step of the consumers is a step of the contract,
\* or is not seen in it.
THEOREM Implementation == Spec => ImplementsContract
  <1>. DEFINE works == [r \in Runs |-> Work(r)]
              links == [r \in Runs |-> Link(r)]
  <1>1. Init => Contract!Init
    BY ContractInit
  <1>2. IInv /\ [Next]_vars => [Contract!Next]_<<works, links>>
    BY StepSeen
  <1>. QED
    BY <1>1, <1>2, Invariance, PTL DEF Spec, ImplementsContract, Contract!Spec
=============================================================================
