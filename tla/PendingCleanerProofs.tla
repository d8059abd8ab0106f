------------------------ MODULE PendingCleanerProofs ------------------------
(***************************************************************************)
(* Proofs about PendingCleaner, for any number of clients and any limits.  *)
(***************************************************************************)
EXTENDS PendingCleaner, NaturalsInduction, WellFoundedInduction, FiniteSetTheorems, TLAPS

-----------------------------------------------------------------------------
(* At most one request after stop *)

\* Once a request has been sent after the stop flag went up, the thread is past every path that
\* leads to another request without reading the flag.
PastSending == {"postSent", "post2Sent", "recover", "verify", "verifySent", "complete", "next",
                "finish", "idle", "ended"}

StopInv ==
    /\ lateSends \in {0, 1}
    /\ lateSends = 1 => stop /\ pc \in PastSending

\* A step that sends nothing either stays past sending or was taken with the flag down.
LEMMA StopInvStep == StopInv /\ [Next]_vars => StopInv'
<1> SUFFICES ASSUME StopInv, [Next]_vars PROVE StopInv'
    OBVIOUS
<1> USE DEF StopInv, PastSending, Goto
<1>1. CASE UNCHANGED vars
    BY <1>1 DEF vars, envVars
<1>2. CASE StartScan \/ EndWorker \/ ListClients \/ ListFails \/ NextCandidate
    BY <1>2 DEF StartScan, EndWorker, ListClients, ListFails, NextCandidate, envVars
<1>3. CASE SkipRest \/ ScanDone \/ FinishScan \/ ScanAborts
    BY <1>3 DEF SkipRest, ScanDone, FinishScan, ScanAborts, envVars
<1>4. CASE Check1 \/ AskPreflight \/ Preflight \/ Check2
    BY <1>4 DEF Check1, AskPreflight, Preflight, Check2, Skip, envVars
<1>5. CASE GuardRefuses \/ AskGuard \/ WritePlan \/ PlanFails
    BY <1>5 DEF GuardRefuses, AskGuard, WritePlan, PlanFails, Skip, envVars
<1>6. CASE SendPost \/ SendPost2
    BY <1>6 DEF SendPost, SendPost2, CountSend, envVars
<1>7. CASE PostAnswered \/ TokenExpired \/ AskRecover \/ Recover \/ Recheck
    BY <1>7 DEF PostAnswered, TokenExpired, AskRecover, Recover, Recheck, MayAsk, envVars
<1>8. CASE AskVerify \/ VerifyEnds \/ Verify \/ Complete
    BY <1>8 DEF AskVerify, VerifyEnds, Verify, Complete, envVars
<1>9. CASE Environment
    BY <1>9 DEF Environment, BeginStopping, CloseJournal, TimePasses, Rejoin, EnterPortal, LeavePortal, envVars
<1> QED
    BY <1>1, <1>2, <1>3, <1>4, <1>5, <1>6, <1>7, <1>8, <1>9 DEF Next, Worker

\* begin_stopping against _process_candidate: whatever the thread is doing when the flag goes up, it
\* sends at most one more request, token recovery included.
THEOREM LateSendBound == Spec => []AtMostOneSendAfterStop
<1>1. Init => StopInv
    BY DEF Init, StopInv
<1>2. StopInv => AtMostOneSendAfterStop
    BY DEF StopInv, AtMostOneSendAfterStop
<1> QED
    BY <1>1, <1>2, StopInvStep, PTL DEF Spec

-----------------------------------------------------------------------------
(* Confirmed sessions are new sessions *)

\* Where the thread holds a candidate, and where it has read its session.
HoldsCandidate == Pcs \ {"idle", "list", "next", "finish", "ended"}
HoldsReading   == HoldsCandidate \ {"check1", "preflight", "preflightSent"}
HoldsSession   == HoldsReading \ {"check2"}

ClockInv ==
    /\ clock \in Nat
    /\ client \in [Macs -> Session]
    /\ todo \in SUBSET Candidate

\* Readings lie in the past, and a new session's start differs from the one that was read.
SessionInv ==
    /\ pc \in HoldsCandidate => cand \in Candidate
    /\ pc \in HoldsReading => reading.since \in Nat /\ reading.at \in Nat /\ reading.at <= clock
    /\ pc \in HoldsSession => before.since \in Nat /\ before.at \in Nat /\ before.at <= clock
    /\ ConfirmedIsReal

ConfirmInv == pc \in Pcs /\ ClockInv /\ SessionInv

LEMMA ConfirmInvStep == ConfirmInv /\ [Next]_vars => ConfirmInv'
<1> SUFFICES ASSUME ConfirmInv, [Next]_vars PROVE ConfirmInv'
    OBVIOUS
<1> USE DEF ConfirmInv, ClockInv, SessionInv, ConfirmedIsReal, HoldsCandidate, HoldsReading, HoldsSession, Pcs, Goto
<1>1. CASE UNCHANGED vars
    BY <1>1 DEF vars, guardVars, scanVars, envVars
<1>2. CASE StartScan \/ EndWorker \/ ListFails
    BY <1>2 DEF StartScan, EndWorker, ListFails, guardVars, scanVars, envVars
<1>3. CASE ListClients
  <2>1. todo' \in SUBSET Candidate
    <3>1. \A m \in Macs : Eligible(client[m]) => Uptime(client[m]) \in Nat
        BY CleanerAssumption DEF Session, Uptime, Eligible
    <3> QED
        BY <1>3, <3>1 DEF ListClients, Candidate
  <2> QED
      BY <1>3, <2>1 DEF ListClients, guardVars, scanVars, envVars
<1>4. CASE NextCandidate \/ SkipRest \/ ScanDone
    BY <1>4 DEF NextCandidate, SkipRest, ScanDone, guardVars, scanVars, envVars
<1>5. CASE FinishScan \/ ScanAborts
    BY <1>5 DEF FinishScan, ScanAborts, DropCandidate, guardVars, scanVars, envVars
<1>6. CASE Check1 \/ AskPreflight \/ Check2
    BY <1>6 DEF Check1, AskPreflight, Check2, Skip, DropCandidate, KeepCandidate, guardVars, envVars
<1>7. CASE Preflight
    BY <1>7 DEF Preflight, Skip, DropCandidate, guardVars, envVars, Uptime, Session, Candidate
<1>8. CASE GuardRefuses
    BY <1>8 DEF GuardRefuses, Skip, DropCandidate, guardVars, envVars
<1>9. CASE AskGuard
    BY <1>9 DEF AskGuard, Check, Skip, DropCandidate, KeepCandidate, envVars
<1>10. CASE WritePlan \/ TokenExpired \/ AskRecover
    BY <1>10 DEF WritePlan, TokenExpired, AskRecover, guardVars, scanVars, envVars
<1>11. CASE PlanFails
    BY <1>11 DEF PlanFails, AuditFails, DropCandidate, guardVars, envVars
<1>12. CASE SendPost
    BY <1>12 DEF SendPost, RecordAttempt, scanVars, envVars
<1>13. CASE SendPost2 \/ Recheck
    BY <1>13 DEF SendPost2, Recheck, guardVars, scanVars, envVars
<1>14. CASE PostAnswered
    BY <1>14 DEF PostAnswered, Reconnected, Session, guardVars, scanVars
<1>15. CASE Recover
    BY <1>15 DEF Recover, guardVars, envVars, Uptime, Session, Candidate
<1>16. CASE AskVerify \/ VerifyEnds
    BY <1>16 DEF AskVerify, VerifyEnds, guardVars, scanVars, envVars
<1>17. CASE Verify
    BY <1>17, CleanerAssumption DEF Verify, IsNewSession, Uptime, Session, Candidate, guardVars, scanVars, envVars
<1>18. CASE Complete
    BY <1>18 DEF Complete, DropCandidate, NoVerdict, guardVars, envVars
<1>19. CASE Environment
  <2>1. CASE BeginStopping \/ CloseJournal
      BY <2>1 DEF BeginStopping, CloseJournal, guardVars, scanVars
  <2>2. CASE TimePasses
      BY <2>2 DEF TimePasses, Tick, scanVars, envVars
  <2>3. CASE \E m \in Mobile : Rejoin(m)
    <3> PICK m \in Mobile : Rejoin(m)
        BY <2>3
    <3> PICK st \in {"pending", "gone"} : client' = [client EXCEPT ![m] = [status |-> st, since |-> clock]]
        BY DEF Rejoin
    <3>1. client' \in [Macs -> Session]
      <4>1. [status |-> st, since |-> clock] \in Session
          BY DEF Session
      <4> QED
          BY <4>1
    <3> QED
        BY <3>1 DEF Rejoin, guardVars, scanVars
  <2>4. CASE \E m \in Mobile : EnterPortal(m)
      BY <2>4 DEF EnterPortal, guardVars, scanVars
  <2>5. CASE \E m \in Mobile : LeavePortal(m)
    <3> PICK m \in Mobile : LeavePortal(m)
        BY <2>5
    <3>1. client' \in [Macs -> Session]
        BY DEF LeavePortal, Session
    <3> QED
        BY <3>1 DEF LeavePortal, guardVars, scanVars
  <2> QED
      BY <1>19, <2>1, <2>2, <2>3, <2>4, <2>5 DEF Environment
<1> QED
    BY <1>1, <1>2, <1>3, <1>4, <1>5, <1>6, <1>7, <1>8, <1>9, <1>10, <1>11, <1>12, <1>13, <1>14,
       <1>15, <1>16, <1>17, <1>18, <1>19 DEF Next, Worker

\* _verify never takes the session it meant to end for a new one: uptimes of one session do not
\* fall, whatever the tolerance and however long the checks take.
THEOREM ConfirmedCorrectness == Spec => []ConfirmedIsReal
<1>1. Init => ConfirmInv
    BY DEF Init, GuardInit, ConfirmInv, ClockInv, SessionInv, ConfirmedIsReal, HoldsCandidate,
           HoldsReading, HoldsSession, Pcs, NoVerdict, Session
<1>2. ConfirmInv => ConfirmedIsReal
    BY DEF ConfirmInv, SessionInv
<1> QED
    BY <1>1, <1>2, ConfirmInvStep, PTL DEF Spec

-----------------------------------------------------------------------------
(* Guests are not reconnected *)

\* Between the read of a client's state and the last protection check, and between that check and
\* the request.
Checking == {"check2", "recheck1", "recheck2"}
Cleared  == {"guard", "plan", "post", "post2"}

\* An authorization that happened after the read still protects when it is checked.
CheckingInv ==
    pc \in Checking =>
        /\ clock - reading.at <= ReplyDelay
        /\ client[cand.mac].status = "authorized" => portal[cand.mac].until >= reading.at + Grace

\* A client that passed the check has to enter the portal before it can become authorized.
ClearedInv ==
    pc \in Cleared /\ ~lateEntry /\ ReplyDelay < Grace =>
        client[cand.mac].status # "authorized" /\ ~portal[cand.mac].active

PortalInv ==
    /\ portal \in [Macs -> [active : BOOLEAN, until : Nat]]
    /\ \A m \in Macs : client[m].status = "authorized" => ~portal[m].active

GuestInv == PortalInv /\ CheckingInv /\ ClearedInv

\* No step of the worker or of its environment breaks it.
LEMMA GuestInvStep == ConfirmInv /\ GuestInv /\ [Next]_vars => GuestInv'
<1> SUFFICES ASSUME ConfirmInv, GuestInv, [Next]_vars PROVE GuestInv'
    OBVIOUS
<1> USE DEF GuestInv, PortalInv, CheckingInv, ClearedInv, Checking, Cleared, Goto
<1>0. /\ clock \in Nat /\ client \in [Macs -> Session]
      /\ pc \in Checking => reading.at \in Nat /\ reading.at <= clock
      /\ pc \in {"preflightSent", "check2", "recoverSent", "recheck1", "recheck2", "postSent", "post2Sent"}
            \union Cleared => cand.mac \in Macs
    BY DEF ConfirmInv, ClockInv, SessionInv, HoldsCandidate, HoldsReading, Pcs, Candidate
<1>1. CASE UNCHANGED vars
    BY <1>1 DEF vars, guardVars, scanVars, envVars
<1>2. CASE StartScan \/ EndWorker \/ ListClients \/ ListFails \/ NextCandidate \/ SkipRest \/ ScanDone
    BY <1>2 DEF StartScan, EndWorker, ListClients, ListFails, NextCandidate, SkipRest, ScanDone, envVars
<1>3. CASE FinishScan \/ ScanAborts \/ Check1 \/ AskPreflight \/ GuardRefuses
    BY <1>3 DEF FinishScan, ScanAborts, Check1, AskPreflight, GuardRefuses, Skip, envVars
<1>4. CASE Preflight
    BY <1>0, <1>4, CleanerAssumption DEF Preflight, StillStale, Eligible, Skip, guardVars, envVars
<1>5. CASE Check2
    BY <1>0, <1>5, CleanerAssumption DEF Check2, Protected, Skip, guardVars, envVars
<1>6. CASE AskGuard
    BY <1>6 DEF AskGuard, KeepCandidate, Skip, envVars
<1>7. CASE WritePlan \/ PlanFails
    BY <1>7 DEF WritePlan, PlanFails, scanVars, envVars
<1>8. CASE SendPost \/ SendPost2 \/ TokenExpired \/ AskRecover
    BY <1>8 DEF SendPost, SendPost2, TokenExpired, AskRecover, envVars
<1>9. CASE PostAnswered
  <2>1. \A m \in Macs : client'[m].status = "authorized" => client[m].status = "authorized"
      BY <1>0, <1>9 DEF PostAnswered, Reconnected
  <2> QED
      BY <1>9, <2>1 DEF PostAnswered
<1>10. CASE Recover
    BY <1>0, <1>10, CleanerAssumption DEF Recover, StillStale, Eligible, guardVars, envVars
<1>11. CASE Recheck
    BY <1>0, <1>11, CleanerAssumption DEF Recheck, Protected, guardVars, scanVars, envVars
<1>12. CASE AskVerify \/ VerifyEnds \/ Verify \/ Complete
    BY <1>12 DEF AskVerify, VerifyEnds, Verify, Complete, envVars
<1>13. CASE BeginStopping \/ CloseJournal
    BY <1>13 DEF BeginStopping, CloseJournal, guardVars, scanVars
<1>14. CASE TimePasses
    BY <1>0, <1>14, CleanerAssumption DEF TimePasses, Tick, scanVars, envVars
<1>15. CASE \E m \in Mobile : Rejoin(m)
  <2>1. \A m \in Macs : client'[m].status = "authorized" => client[m].status = "authorized"
      BY <1>0, <1>15 DEF Rejoin
  <2> QED
      BY <1>0, <1>15, <2>1 DEF Rejoin, guardVars, scanVars
<1>16. CASE \E m \in Mobile : EnterPortal(m)
  <2> PICK m \in Mobile : EnterPortal(m)
      BY <1>16
  <2>1. m \in Macs /\ client' = client /\ pc' = pc /\ cand' = cand /\ clock' = clock /\ reading' = reading
      BY CleanerAssumption DEF EnterPortal, guardVars, scanVars
  <2>2. portal' \in [Macs -> [active : BOOLEAN, until : Nat]]
      BY DEF EnterPortal
  <2>3. \A k \in Macs : portal'[k].until = portal[k].until /\ (k # m => portal'[k] = portal[k])
      BY <2>1 DEF EnterPortal
  <2>4. PortalInv' /\ CheckingInv'
      BY <1>0, <2>1, <2>2, <2>3 DEF EnterPortal
  <2>5. ClearedInv'
    <3> SUFFICES ASSUME pc \in Cleared, ~lateEntry', ReplyDelay < Grace
                 PROVE  client[cand.mac].status # "authorized" /\ ~portal'[cand.mac].active
        BY <2>1
    <3>1. cand.mac \in Macs /\ cand # None
        BY <1>0, CandidateAssumption DEF ConfirmInv, SessionInv, HoldsCandidate, Pcs
    <3>2. ~lateEntry /\ cand.mac # m
        BY <3>1 DEF EnterPortal
    <3> QED
        BY <2>3, <3>1, <3>2
  <2> QED
      BY <2>4, <2>5
<1>17. CASE \E m \in Mobile : LeavePortal(m)
  <2> PICK m \in Mobile : LeavePortal(m)
      BY <1>17
  <2>1. /\ m \in Macs /\ pc' = pc /\ cand' = cand /\ clock' = clock /\ reading' = reading /\ lateEntry' = lateEntry
        /\ portal[m].active
      BY CleanerAssumption DEF LeavePortal, guardVars, scanVars
  <2>2. portal' = [portal EXCEPT ![m] = [active |-> FALSE, until |-> clock + Grace]]
      BY DEF LeavePortal
  <2>3. portal' \in [Macs -> [active : BOOLEAN, until : Nat]]
      BY <1>0, <2>2, CleanerAssumption
  <2>4. \A k \in Macs : k # m => portal'[k] = portal[k] /\ client'[k] = client[k]
      BY <1>0, <2>1 DEF LeavePortal
  <2>5. ~portal'[m].active /\ portal'[m].until = clock + Grace
      BY <2>1, <2>2
  <2>6. PortalInv'
      BY <2>3, <2>4, <2>5
  <2>7. CheckingInv'
      BY <1>0, <2>1, <2>4, <2>5, CleanerAssumption DEF ConfirmInv, ClockInv
  <2>8. ClearedInv'
      BY <1>0, <2>1, <2>4
  <2> QED
      BY <2>6, <2>7, <2>8
<1> QED
    BY <1>1, <1>2, <1>3, <1>4, <1>5, <1>6, <1>7, <1>8, <1>9, <1>10, <1>11, <1>12, <1>13, <1>14,
       <1>15, <1>16, <1>17 DEF Next, Worker, Environment

\* The second protection check is what keeps the cleaner away from a client that was authorized
\* while its preflight answer was on the way.
THEOREM GuestProtection == Spec => GuestsAreNotReconnected
<1>1. Init => ConfirmInv /\ GuestInv
    BY DEF Init, GuardInit, ConfirmInv, ClockInv, SessionInv, ConfirmedIsReal, HoldsCandidate,
           HoldsReading, HoldsSession, Pcs, NoVerdict, Session, GuestInv, PortalInv, CheckingInv, ClearedInv,
           Checking, Cleared
<1>2. GuestInv => (/\ pc \in {"post", "post2"} /\ pc' \in {"postSent", "post2Sent"}
                   /\ client[cand.mac].status = "authorized" /\ ReplyDelay < Grace
                   => lateEntry)
    BY DEF GuestInv, ClearedInv, Cleared
<1> QED
    BY <1>1, <1>2, ConfirmInvStep, GuestInvStep, PTL DEF Spec, GuestsAreNotReconnected

-----------------------------------------------------------------------------
(* The guard's memory *)

\* The clients other than m that L says were acted on from t to u.
Others(L, m, t, u) == { e.mac : e \in { f \in L : f.mac # m /\ t <= f.at /\ f.at <= u } }

\* So many others have been acted on since t that m's entry may have been evicted.
Forgotten(m, t, u) == OthersActed(m, t, u) >= MaxEntries

\* The two tables agree with each other and with the log.
TablesInv ==
    /\ clock \in Nat
    /\ granted \in Macs \union {None}
    /\ last \in [Macs -> Nat \union {None}]
    /\ attempts \in [Macs -> SUBSET Nat]
    /\ log \in SUBSET [mac : Macs, at : Nat]
    /\ \A e \in log : e.at < clock
    /\ \A m \in Macs : \A t \in attempts[m] : [mac |-> m, at |-> t] \in log
    /\ \A m \in Macs : attempts[m] # {} => last[m] \in attempts[m] /\ \A t \in attempts[m] : t <= last[m]
    /\ Cardinality({ m \in Macs : attempts[m] # {} }) <= MaxEntries
    /\ Cooldown <= Hour => \A m \in Macs : last[m] # None => attempts[m] # {}

\* What is still of interest is remembered, or so many other clients came after it that it was evicted.
MemoryInv ==
    \A e \in log :
        /\ e.at > clock - Hour => e.at \in attempts[e.mac] \/ Forgotten(e.mac, e.at, clock)
        /\ clock - e.at < Cooldown =>
              (last[e.mac] # None /\ last[e.mac] >= e.at) \/ Forgotten(e.mac, e.at, clock)

\* What check() has found stays true until the action is recorded.
GrantInv ==
    granted # None =>
        /\ last[granted] # None => clock - last[granted] >= Cooldown
        /\ UnderLimit(granted)

GuardInv == TablesInv /\ MemoryInv /\ GrantInv /\ SpacedUnlessEvicted /\ HourlyLimitUnlessEvicted

\* A set of numbers has a least element.
LEMMA LeastElement ==
  ASSUME NEW S \in SUBSET Nat, S # {}
  PROVE  \E x \in S : \A y \in S : x <= y
<1> DEFINE R == { ss \in Nat \X Nat : ss[1] < ss[2] }
<1>1. OpToRel(<, Nat) = R
    BY DEF OpToRel
<1>2. PICK m \in S : \A x \in S : <<x, m>> \notin R
  <2>1. IsWellFoundedOn(R, Nat)
      BY <1>1, NatLessThanWellFounded
  <2> HIDE DEF R
  <2> QED
      BY <2>1, WFMin
<1>3. ASSUME NEW x \in S PROVE m <= x
  <2>1. <<x, m>> \in Nat \X Nat /\ <<x, m>>[1] = x /\ <<x, m>>[2] = m
      OBVIOUS
  <2> QED
      BY <1>2, <2>1
<1> QED
    BY <1>3

\* A known greatest element is the maximum.
LEMMA MaxIs ==
  ASSUME NEW S \in SUBSET Nat, NEW x \in S, \A y \in S : y <= x
  PROVE  Max(S) = x
<1>1. \A y \in S : x >= y
    OBVIOUS
<1> DEFINE z == Max(S)
<1>2. z \in S /\ \A y \in S : z >= y
    BY <1>1 DEF Max
<1> HIDE DEF z
<1>3. z \in Nat /\ z >= x /\ z <= x
    BY <1>2
<1>4. z = x
    BY <1>3
<1> QED
    BY <1>4 DEF z

\* Of a finite set, any number of elements can be chosen that rank no higher than the rest.
LEMMA LowSet ==
  ASSUME NEW P, IsFiniteSet(P), NEW f \in [P -> Nat], NEW n \in 0 .. Cardinality(P)
  PROVE  \E G \in SUBSET P : Cardinality(G) = n /\ \A m \in G, k \in P \ G : f[m] <= f[k]
<1> DEFINE Low(G) == \A m \in G, k \in P \ G : f[m] <= f[k]
<1> DEFINE Bad == { i \in 0 .. Cardinality(P) : ~ \E G \in SUBSET P : Cardinality(G) = i /\ Low(G) }
<1>0. Cardinality(P) \in Nat
    BY FS_CardinalityType
<1> SUFFICES ASSUME Bad # {} PROVE FALSE
    OBVIOUS
<1>1. PICK b \in Bad : \A i \in Bad : b <= i
  <2>1. Bad \in SUBSET Nat
      BY <1>0
  <2> HIDE DEF Bad
  <2> QED
      BY <2>1, LeastElement
<1>2. b # 0
  <2>1. Low({}) /\ Cardinality({}) = 0
      BY FS_EmptySet
  <2> QED
      BY <2>1
<1>3. b - 1 \in 0 .. Cardinality(P) /\ b - 1 \notin Bad
    BY <1>0, <1>1, <1>2
<1>4. PICK G \in SUBSET P : Cardinality(G) = b - 1 /\ Low(G)
    BY <1>3
<1>5. P \ G # {}
  <2> SUFFICES ASSUME P \ G = {} PROVE FALSE
      OBVIOUS
  <2>1. G = P
      OBVIOUS
  <2> QED
      BY <1>0, <1>4, <2>1
<1> DEFINE ranks == { f[k] : k \in P \ G }
<1>6. PICK r \in ranks : \A y \in ranks : r <= y
  <2>1. ranks \in SUBSET Nat /\ ranks # {}
      BY <1>5
  <2> HIDE DEF ranks
  <2> QED
      BY <2>1, LeastElement
<1>7. PICK k \in P \ G : f[k] = r
    BY <1>6
<1>8. \A j \in P \ G : f[k] <= f[j]
    BY <1>6, <1>7
<1>9. Low(G \union {k})
    BY <1>4, <1>8
<1>10. Cardinality(G \union {k}) = b
  <2>1. IsFiniteSet(G)
      BY FS_Subset
  <2>2. k \notin G /\ b \in Nat
      BY <1>0, <1>1, <1>7
  <2>3. Cardinality(G \union {k}) = Cardinality(G) + 1
      BY <2>1, <2>2, FS_AddElement
  <2> HIDE DEF Bad, Low
  <2> QED
      BY <1>4, <2>2, <2>3
<1>11. b \notin Bad
    BY <1>9, <1>10
<1> QED
    BY <1>1, <1>11

\* A longer log and a longer time show more others, and all of them are clients.
LEMMA OthersGrow ==
  ASSUME NEW K, NEW L \in SUBSET [mac : Macs, at : Nat], K \subseteq L, NEW m,
         NEW t \in Nat, NEW u \in Nat, NEW v \in Nat, u <= v
  PROVE  /\ Cardinality(Others(K, m, t, u)) \in Nat /\ Cardinality(Others(L, m, t, v)) \in Nat
         /\ Cardinality(Others(K, m, t, u)) <= Cardinality(Others(L, m, t, v))
<1>1. Others(L, m, t, v) \in SUBSET Macs
    BY DEF Others
<1>2. Others(K, m, t, u) \in SUBSET Others(L, m, t, v)
  <2> SUFFICES ASSUME NEW e \in K, e.mac # m, t <= e.at, e.at <= u
               PROVE  e.mac \in Others(L, m, t, v)
      BY DEF Others
  <2>1. e \in L /\ e.at \in Nat
      OBVIOUS
  <2>2. e.at <= v
      BY <2>1
  <2> QED
      BY <2>1, <2>2 DEF Others
<1>3. IsFiniteSet(Others(L, m, t, v))
    BY <1>1, MacsAssumption, FS_Subset
<1>4. IsFiniteSet(Others(K, m, t, u)) /\ Cardinality(Others(K, m, t, u)) <= Cardinality(Others(L, m, t, v))
    BY <1>2, <1>3, FS_Subset
<1> QED
    BY <1>3, <1>4, FS_CardinalityType

\* What has been forgotten stays forgotten.
LEMMA ForgottenStays ==
  ASSUME TablesInv, NEW m \in Macs, NEW t \in Nat, NEW u \in Nat, NEW v \in Nat, u <= v,
         log \subseteq log', log' \in SUBSET [mac : Macs, at : Nat]
  PROVE  /\ OthersActed(m, t, u) >= MaxEntries => OthersActed(m, t, v)' >= MaxEntries
         /\ OthersActed(m, t, u) >= MaxEntries => OthersActed(m, t, v) >= MaxEntries
<1>1. OthersActed(m, t, u) = Cardinality(Others(log, m, t, u))
    BY DEF OthersActed, Others
<1>2. OthersActed(m, t, v)' = Cardinality(Others(log', m, t, v))
    BY DEF OthersActed, Others
<1>3. OthersActed(m, t, v) = Cardinality(Others(log, m, t, v))
    BY DEF OthersActed, Others
<1>4. log \in SUBSET [mac : Macs, at : Nat]
    BY DEF TablesInv
<1>5. /\ Cardinality(Others(log, m, t, u)) \in Nat /\ Cardinality(Others(log', m, t, v)) \in Nat
      /\ Cardinality(Others(log, m, t, u)) <= Cardinality(Others(log', m, t, v))
    BY OthersGrow
<1>6. /\ Cardinality(Others(log, m, t, v)) \in Nat
      /\ Cardinality(Others(log, m, t, u)) <= Cardinality(Others(log, m, t, v))
    BY <1>4, OthersGrow
<1> QED
    BY <1>1, <1>2, <1>3, <1>5, <1>6, GuardAssumption

\* The entries of one client are finitely many.
LEMMA EntriesFinite ==
  ASSUME TablesInv, NEW m \in Macs
  PROVE  IsFiniteSet(attempts[m]) /\ IsFiniteSet(PrunedAttempts[m])
<1>1. attempts[m] \in SUBSET Nat /\ clock \in Nat /\ \A t \in attempts[m] : t <= clock
  <2>1. \A t \in attempts[m] : t \in Nat /\ [mac |-> m, at |-> t] \in log
      BY DEF TablesInv
  <2>2. \A e \in log : e.at < clock
      BY DEF TablesInv
  <2>3. \A t \in attempts[m] : t < clock
      BY <2>1, <2>2
  <2>4. attempts[m] \in SUBSET Nat /\ clock \in Nat
      BY DEF TablesInv
  <2> QED
      BY <2>1, <2>3, <2>4
<1>2. IsFiniteSet(attempts[m])
    BY <1>1, FS_BoundedSetOfNaturals
<1>3. PrunedAttempts[m] \in SUBSET attempts[m]
    BY DEF PrunedAttempts
<1> QED
    BY <1>2, <1>3, FS_Subset

\* Pruning keeps the tables in agreement and drops nothing that is still of interest.
LEMMA Pruning ==
  ASSUME TablesInv
  PROVE  /\ PrunedLast \in [Macs -> Nat \union {None}]
         /\ PrunedAttempts \in [Macs -> SUBSET Nat]
         /\ \A m \in Macs : PrunedAttempts[m] \subseteq attempts[m]
         /\ \A m \in Macs : PrunedAttempts[m] = { t \in attempts[m] : t > clock - Hour }
         /\ \A m \in Macs : PrunedLast[m] # None => PrunedLast[m] = last[m]
         /\ \A m \in Macs : last[m] # None /\ clock - last[m] < Cooldown => PrunedLast[m] = last[m]
         /\ \A m \in Macs : PrunedAttempts[m] # {} => last[m] \in PrunedAttempts[m] /\ PrunedLast[m] = last[m]
         /\ Cooldown <= Hour => \A m \in Macs : PrunedLast[m] # None => PrunedAttempts[m] # {}
<1>0. /\ clock \in Nat /\ last \in [Macs -> Nat \union {None}] /\ attempts \in [Macs -> SUBSET Nat]
      /\ \A m \in Macs : attempts[m] # {} => last[m] \in attempts[m] /\ \A t \in attempts[m] : t <= last[m]
      /\ Cooldown <= Hour => \A m \in Macs : last[m] # None => attempts[m] # {}
    BY DEF TablesInv
<1>1. \A m \in Macs : PrunedAttempts[m] = { t \in attempts[m] : t > clock - Hour }
    BY DEF PrunedAttempts
<1>2. \A m \in Macs : PrunedLast[m] =
        IF attempts[m] # {} /\ PrunedAttempts[m] = {} /\ last[m] # None /\ clock - last[m] >= Cooldown
        THEN None ELSE last[m]
    BY DEF PrunedLast
<1>3. PrunedLast \in [Macs -> Nat \union {None}] /\ PrunedAttempts \in [Macs -> SUBSET Nat]
    BY <1>0 DEF PrunedLast, PrunedAttempts
<1>4. \A m \in Macs : PrunedLast[m] # None => PrunedLast[m] = last[m]
    BY <1>2
<1>5. \A m \in Macs : last[m] # None /\ clock - last[m] < Cooldown => PrunedLast[m] = last[m]
    BY <1>0, <1>2, GuardAssumption
<1>6. ASSUME NEW m \in Macs, PrunedAttempts[m] # {}
      PROVE  last[m] \in PrunedAttempts[m] /\ PrunedLast[m] = last[m]
  <2>1. PICK t \in attempts[m] : t > clock - Hour
      BY <1>1, <1>6
  <2>2. last[m] \in attempts[m] /\ t <= last[m] /\ t \in Nat /\ last[m] \in Nat
      BY <1>0
  <2>3. last[m] > clock - Hour
      BY <1>0, <2>1, <2>2, GuardAssumption
  <2> QED
      BY <1>1, <1>2, <1>6, <2>2, <2>3
<1>7. ASSUME Cooldown <= Hour, NEW m \in Macs, PrunedLast[m] # None, PrunedAttempts[m] = {}
      PROVE  FALSE
  <2>1. last[m] # None /\ attempts[m] # {}
      BY <1>0, <1>4, <1>7
  <2>2. last[m] \in attempts[m] /\ last[m] \in Nat
      BY <1>0, <2>1
  <2>3. last[m] <= clock - Hour
      BY <1>0, <1>1, <1>7, <2>2, GuardAssumption
  <2>4. clock - last[m] >= Cooldown
      BY <1>0, <1>7, <2>2, <2>3, GuardAssumption
  <2> QED
      BY <1>2, <1>7, <2>1, <2>4
<1> QED
    BY <1>1, <1>3, <1>4, <1>5, <1>6, <1>7

\* Nothing that is recorded changes if no action is recorded.
LEMMA RecordUnchanged ==
  ASSUME GuardInv, log' = log
  PROVE  SpacedUnlessEvicted' /\ HourlyLimitUnlessEvicted'
<1>1. \A m, t, u : OthersActed(m, t, u)' = OthersActed(m, t, u)
    BY DEF OthersActed
<1>2. SpacedUnlessEvicted'
    BY <1>1 DEF GuardInv, SpacedUnlessEvicted
<1>3. HourlyLimitUnlessEvicted'
    BY <1>1 DEF GuardInv, HourlyLimitUnlessEvicted
<1> QED
    BY <1>2, <1>3

\* As time passes less is of interest.
LEMMA TickStep == GuardInv /\ Tick => GuardInv'
<1> SUFFICES ASSUME GuardInv, Tick PROVE GuardInv'
    OBVIOUS
<1>0. /\ clock' = clock + 1 /\ last' = last /\ attempts' = attempts /\ granted' = granted /\ log' = log
      /\ TablesInv /\ MemoryInv /\ GrantInv /\ clock \in Nat /\ last \in [Macs -> Nat \union {None}]
      /\ attempts \in [Macs -> SUBSET Nat]
    BY DEF Tick, GuardInv, TablesInv
<1>1. TablesInv'
  <2>1. \A e \in log : e.at < clock + 1
    <3>1. \A e \in log : e.at < clock /\ e.at \in Nat
        BY <1>0 DEF TablesInv
    <3> QED
        BY <1>0, <3>1
  <2> QED
      BY <1>0, <2>1 DEF TablesInv
<1>2. ASSUME NEW e \in log
      PROVE  /\ e.at > clock' - Hour => e.at \in attempts[e.mac] \/ Forgotten(e.mac, e.at, clock)'
             /\ clock' - e.at < Cooldown =>
                   (last[e.mac] # None /\ last[e.mac] >= e.at) \/ Forgotten(e.mac, e.at, clock)'
  <2>1. e.at \in Nat /\ e.mac \in Macs
      BY <1>0 DEF TablesInv
  <2>2. /\ e.at > clock - Hour => e.at \in attempts[e.mac] \/ Forgotten(e.mac, e.at, clock)
        /\ clock - e.at < Cooldown =>
              (last[e.mac] # None /\ last[e.mac] >= e.at) \/ Forgotten(e.mac, e.at, clock)
      BY <1>0 DEF MemoryInv
  <2>3. log \subseteq log' /\ log' \in SUBSET [mac : Macs, at : Nat] /\ clock' \in Nat /\ clock <= clock'
      BY <1>0 DEF TablesInv
  <2>4. Forgotten(e.mac, e.at, clock) => Forgotten(e.mac, e.at, clock)'
    <3>1. OthersActed(e.mac, e.at, clock) >= MaxEntries => OthersActed(e.mac, e.at, clock') >= MaxEntries
        BY <1>0, <2>1, <2>3, ForgottenStays
    <3>2. OthersActed(e.mac, e.at, clock)' = OthersActed(e.mac, e.at, clock')
        BY <1>0 DEF OthersActed
    <3> QED
        BY <3>1, <3>2 DEF Forgotten
  <2>5. (e.at > clock' - Hour => e.at > clock - Hour) /\ (clock' - e.at < Cooldown => clock - e.at < Cooldown)
      BY <1>0, <2>1, GuardAssumption
  <2> QED
      BY <2>2, <2>4, <2>5
<1>3. MemoryInv'
    BY <1>0, <1>2 DEF MemoryInv
<1>4. GrantInv'
  <2> SUFFICES ASSUME granted # None
               PROVE  /\ last[granted] # None => clock' - last[granted] >= Cooldown
                      /\ UnderLimit(granted)'
      BY <1>0 DEF GrantInv
  <2>1. granted \in Macs
      BY <1>0 DEF TablesInv
  <2>2. (last[granted] # None => clock - last[granted] >= Cooldown) /\ UnderLimit(granted)
      BY <1>0 DEF GrantInv
  <2>3. last[granted] # None => clock' - last[granted] >= Cooldown
      BY <1>0, <2>1, <2>2, GuardAssumption
  <2>4. PrunedAttempts'[granted] \in SUBSET PrunedAttempts[granted]
    <3>1. PrunedAttempts'[granted] = { t \in attempts[granted] : t > clock' - Hour }
        BY <1>0, <2>1 DEF PrunedAttempts
    <3>2. PrunedAttempts[granted] = { t \in attempts[granted] : t > clock - Hour }
        BY <2>1 DEF PrunedAttempts
    <3>3. \A t \in attempts[granted] : t > clock' - Hour => t > clock - Hour
        BY <1>0, <2>1, GuardAssumption
    <3> QED
        BY <3>1, <3>2, <3>3
  <2>5. UnderLimit(granted)'
    <3>1. IsFiniteSet(PrunedAttempts[granted])
        BY <1>0, <2>1, EntriesFinite
    <3>2. IsFiniteSet(PrunedAttempts'[granted])
          /\ Cardinality(PrunedAttempts'[granted]) <= Cardinality(PrunedAttempts[granted])
        BY <2>4, <3>1, FS_Subset
    <3>3. Cardinality(PrunedAttempts[granted]) \in Nat /\ Cardinality(PrunedAttempts'[granted]) \in Nat
        BY <3>1, <3>2, FS_CardinalityType
    <3> QED
        BY <1>0, <2>2, <3>2, <3>3, GuardAssumption DEF UnderLimit
  <2> QED
      BY <2>3, <2>5
<1> QED
    BY <1>0, <1>1, <1>3, <1>4, RecordUnchanged DEF GuardInv

\* A permission that is given back leaves no trace.
LEMMA AuditFailsStep == GuardInv /\ AuditFails => GuardInv'
<1> SUFFICES ASSUME GuardInv, AuditFails PROVE GuardInv'
    OBVIOUS
<1>0. /\ clock' = clock /\ last' = last /\ attempts' = attempts /\ granted' = None /\ log' = log
    BY DEF AuditFails
<1>1. TablesInv' /\ GrantInv'
    BY <1>0 DEF GuardInv, TablesInv, GrantInv
<1>2. MemoryInv'
    BY <1>0 DEF GuardInv, MemoryInv, Forgotten, OthersActed
<1> QED
    BY <1>0, <1>1, <1>2, RecordUnchanged DEF GuardInv

\* check() prunes, and grants what the pruned tables allow.
LEMMA CheckStep ==
  ASSUME GuardInv, NEW m \in Macs, Check(m)
  PROVE  GuardInv'
<1>0. /\ clock' = clock /\ last' = PrunedLast /\ attempts' = PrunedAttempts /\ log' = log
      /\ granted' = IF CooledDown(m) /\ UnderLimit(m) THEN m ELSE None
      /\ TablesInv /\ MemoryInv /\ clock \in Nat
      /\ log \in SUBSET [mac : Macs, at : Nat]
    BY DEF Check, GuardInv, TablesInv
<1> DEFINE pa == PrunedAttempts
<1> DEFINE pl == PrunedLast
<1>1. /\ pl \in [Macs -> Nat \union {None}]
      /\ pa \in [Macs -> SUBSET Nat]
      /\ \A k \in Macs : pa[k] \subseteq attempts[k]
      /\ \A k \in Macs : pa[k] = { t \in attempts[k] : t > clock - Hour }
      /\ \A k \in Macs : pl[k] # None => pl[k] = last[k]
      /\ \A k \in Macs : last[k] # None /\ clock - last[k] < Cooldown => pl[k] = last[k]
      /\ \A k \in Macs : pa[k] # {} => last[k] \in pa[k] /\ pl[k] = last[k]
      /\ Cooldown <= Hour => \A k \in Macs : pl[k] # None => pa[k] # {}
    BY <1>0, Pruning
<1>2. last' = pl /\ attempts' = pa
    BY <1>0
<1> HIDE DEF pa, pl
<1>3. TablesInv'
  <2>1. \A k \in Macs : \A t \in pa[k] : [mac |-> k, at |-> t] \in log
      BY <1>0, <1>1 DEF TablesInv
  <2>2. \A k \in Macs : pa[k] # {} => pl[k] \in pa[k] /\ \A t \in pa[k] : t <= pl[k]
      BY <1>0, <1>1 DEF TablesInv
  <2>3. Cardinality({ k \in Macs : pa[k] # {} }) <= MaxEntries
    <3> DEFINE now == { k \in Macs : pa[k] # {} }
    <3> DEFINE was == { k \in Macs : attempts[k] # {} }
    <3>1. now \in SUBSET was /\ was \in SUBSET Macs
        BY <1>1
    <3>2. Cardinality(was) <= MaxEntries
        BY <1>0 DEF TablesInv
    <3> HIDE DEF now, was
    <3>3. IsFiniteSet(was)
        BY <3>1, MacsAssumption, FS_Subset
    <3>4. IsFiniteSet(now) /\ Cardinality(now) <= Cardinality(was)
        BY <3>1, <3>3, FS_Subset
    <3>5. Cardinality(now) \in Nat /\ Cardinality(was) \in Nat
        BY <3>3, <3>4, FS_CardinalityType
    <3>6. Cardinality(now) <= MaxEntries
        BY <3>2, <3>4, <3>5, GuardAssumption
    <3> QED
        BY <3>6 DEF now
  <2>4. granted' \in Macs \union {None}
      BY <1>0
  <2>5. \A e \in log : e.at < clock
      BY <1>0 DEF TablesInv
  <2> QED
      BY <1>0, <1>1, <1>2, <2>1, <2>2, <2>3, <2>4, <2>5 DEF TablesInv
<1>4. MemoryInv'
  <2>1. ASSUME NEW e \in log
        PROVE  /\ e.at > clock - Hour => e.at \in pa[e.mac] \/ Forgotten(e.mac, e.at, clock)
               /\ clock - e.at < Cooldown =>
                     (pl[e.mac] # None /\ pl[e.mac] >= e.at) \/ Forgotten(e.mac, e.at, clock)
    <3>1. e.at \in Nat /\ e.mac \in Macs /\ last[e.mac] \in Nat \union {None}
        BY <1>0 DEF TablesInv
    <3>2. /\ e.at > clock - Hour => e.at \in attempts[e.mac] \/ Forgotten(e.mac, e.at, clock)
          /\ clock - e.at < Cooldown =>
                (last[e.mac] # None /\ last[e.mac] >= e.at) \/ Forgotten(e.mac, e.at, clock)
        BY <1>0 DEF MemoryInv
    <3>3. e.at > clock - Hour /\ e.at \in attempts[e.mac] => e.at \in pa[e.mac]
        BY <1>1, <3>1
    <3>4. clock - e.at < Cooldown /\ last[e.mac] # None /\ last[e.mac] >= e.at => pl[e.mac] = last[e.mac]
        BY <1>0, <1>1, <3>1, GuardAssumption
    <3> QED
        BY <3>2, <3>3, <3>4
  <2>2. \A e \in log : Forgotten(e.mac, e.at, clock)' = Forgotten(e.mac, e.at, clock)
      BY <1>0 DEF Forgotten, OthersActed
  <2> QED
      BY <1>0, <1>2, <2>1, <2>2 DEF MemoryInv
<1>5. GrantInv'
  <2> SUFFICES ASSUME granted' # None
               PROVE  (last'[granted'] # None => clock' - last'[granted'] >= Cooldown) /\ UnderLimit(granted)'
      BY DEF GrantInv
  <2>1. granted' = m /\ CooledDown(m) /\ UnderLimit(m)
      BY <1>0
  <2>2. pl[m] # None => clock - pl[m] >= Cooldown
      BY <2>1 DEF CooledDown, pl
  <2>3. PrunedAttempts'[m] = pa[m]
    <3>1. PrunedAttempts'[m] = { t \in pa[m] : t > clock - Hour }
        BY <1>0, <1>2 DEF PrunedAttempts
    <3> QED
        BY <1>1, <3>1
  <2>4. UnderLimit(m)'
    <3>1. Cardinality(pa[m]) < HourlyLimit
        BY <2>1 DEF UnderLimit, pa
    <3> QED
        BY <2>3, <3>1 DEF UnderLimit
  <2>5. last'[granted'] = pl[m] /\ clock' = clock
      BY <1>0, <1>2, <2>1
  <2>6. UnderLimit(granted)'
      BY <2>1, <2>3, <2>4 DEF UnderLimit
  <2> QED
      BY <2>2, <2>5, <2>6
<1> QED
    BY <1>0, <1>3, <1>4, <1>5, RecordUnchanged DEF GuardInv

\* _bound_locked brings the entries back to the bound, and those that stay are no older than the others.
LEMMA Eviction ==
  ASSUME NEW a \in [Macs -> SUBSET Nat], NEW top \in [Macs -> Nat \union {None}],
         \A k \in Macs : a[k] # {} => top[k] \in a[k] /\ \A t \in a[k] : t <= top[k],
         NEW present \in SUBSET Macs, \A k \in Macs : k \in present <=> a[k] # {}
  PROVE  /\ Evicted(a) \in SUBSET present
         /\ IsFiniteSet(present \ Evicted(a))
         /\ Cardinality(present \ Evicted(a)) <= MaxEntries
         /\ Evicted(a) # {} => Cardinality(present \ Evicted(a)) = MaxEntries
         /\ \A m \in Evicted(a), k \in present \ Evicted(a) : top[m] <= top[k]
<1> DEFINE excess == Cardinality(present) - MaxEntries
<1> DEFINE Fits(gone) == /\ Cardinality(gone) = excess
                         /\ \A m \in gone, k \in present \ gone : Max(a[m]) <= Max(a[k])
<1>1. IsFiniteSet(present) /\ Cardinality(present) \in Nat /\ present \subseteq Macs
    BY MacsAssumption, FS_Subset, FS_CardinalityType
<1>2. \A k \in present : Max(a[k]) = top[k] /\ top[k] \in Nat
  <2> TAKE k \in present
  <2>1. a[k] \in SUBSET Nat /\ top[k] \in a[k] /\ \A t \in a[k] : t <= top[k]
      OBVIOUS
  <2> QED
      BY <2>1, MaxIs
<1>3. Evicted(a) = IF excess <= 0 THEN {} ELSE CHOOSE gone \in SUBSET present : Fits(gone)
  <2>1. present = { k \in Macs : a[k] # {} }
      OBVIOUS
  <2> QED
      BY <2>1 DEF Evicted
<1>4. CASE excess <= 0
  <2>1. Evicted(a) = {} /\ present \ Evicted(a) = present
      BY <1>3, <1>4
  <2>2. Cardinality(present) <= MaxEntries
      BY <1>1, <1>4, GuardAssumption
  <2> QED
      BY <1>1, <2>1, <2>2
<1>5. CASE ~(excess <= 0)
  <2>1. excess \in 0 .. Cardinality(present)
      BY <1>1, <1>5, GuardAssumption
  <2>2. PICK f \in [present -> Nat] : \A k \in present : f[k] = Max(a[k])
    <3>1. [k \in present |-> Max(a[k])] \in [present -> Nat]
        BY <1>2
    <3> QED
        BY <3>1
  <2>3. PICK G \in SUBSET present : Cardinality(G) = excess /\ \A m \in G, k \in present \ G : f[m] <= f[k]
    <3> HIDE DEF excess
    <3> QED
        BY <1>1, <2>1, LowSet
  <2>4. Fits(G)
      BY <2>2, <2>3
  <2>5. Evicted(a) \in SUBSET present /\ Fits(Evicted(a))
    <3>1. Evicted(a) = CHOOSE gone \in SUBSET present : Fits(gone)
        BY <1>3, <1>5
    <3> HIDE DEF Fits, excess
    <3> QED
        BY <2>4, <3>1
  <2>6. IsFiniteSet(Evicted(a))
      BY <1>1, <2>5, FS_Subset
  <2>7. Cardinality(present \ Evicted(a)) = MaxEntries
    <3>1. present \intersect Evicted(a) = Evicted(a)
        BY <2>5
    <3>2. Cardinality(present \ Evicted(a)) = Cardinality(present) - Cardinality(present \intersect Evicted(a))
        BY <1>1, FS_Difference
    <3>3. Cardinality(present \intersect Evicted(a)) = Cardinality(Evicted(a))
        BY <3>1
    <3>4. Cardinality(Evicted(a)) = Cardinality(present) - MaxEntries
        BY <2>5
    <3> QED
        BY <1>1, <3>2, <3>3, <3>4, GuardAssumption
  <2>8. IsFiniteSet(present \ Evicted(a))
      BY <1>1, FS_Difference
  <2>9. \A m \in Evicted(a), k \in present \ Evicted(a) : top[m] <= top[k]
      BY <1>2, <2>5
  <2> QED
      BY <2>5, <2>7, <2>8, <2>9, GuardAssumption
<1> QED
    BY <1>4, <1>5

\* The action of the present moment is one more than the limit has counted, if nothing was forgotten.
LEMMA WindowCounted ==
  ASSUME GuardInv, NEW m \in Macs, granted = m, NEW window,
         window \subseteq { e \in log : e.mac = m /\ e.at > clock - Hour },
         \A e \in window : ~Forgotten(m, e.at, clock)
  PROVE  IsFiniteSet(window) /\ Cardinality(window) < HourlyLimit
<1>0. /\ TablesInv /\ MemoryInv /\ log \in SUBSET [mac : Macs, at : Nat]
      /\ Cardinality(PrunedAttempts[m]) < HourlyLimit
    BY GuardAssumption DEF GuardInv, TablesInv, GrantInv, UnderLimit
<1>1. \A e \in window : e \in log /\ e.mac = m /\ e.at \in PrunedAttempts[m]
  <2> TAKE e \in window
  <2>1. e \in log /\ e.mac = m /\ e.at > clock - Hour
      OBVIOUS
  <2>2. e.at \in attempts[m]
      BY <1>0, <2>1 DEF MemoryInv
  <2> QED
      BY <2>1, <2>2 DEF PrunedAttempts
<1> DEFINE f == [e \in window |-> e.at]
<1>2. f \in Injection(window, PrunedAttempts[m])
  <2>1. f \in [window -> PrunedAttempts[m]]
      BY <1>1
  <2>2. ASSUME NEW d \in window, NEW e \in window, f[d] = f[e] PROVE d = e
    <3>1. /\ d \in [mac : Macs, at : Nat] /\ e \in [mac : Macs, at : Nat]
          /\ d.mac = e.mac /\ d.at = e.at
        BY <1>0, <1>1, <2>2
    <3> QED
        BY <3>1
  <2> HIDE DEF f
  <2> QED
      BY <2>1, <2>2 DEF Injection, IsInjective
<1>3. IsFiniteSet(PrunedAttempts[m])
    BY <1>0, EntriesFinite
<1>4. IsFiniteSet(window) /\ Cardinality(window) <= Cardinality(PrunedAttempts[m])
    BY <1>2, <1>3, FS_Injection
<1>5. Cardinality(window) \in Nat /\ Cardinality(PrunedAttempts[m]) \in Nat
    BY <1>3, <1>4, FS_CardinalityType
<1> QED
    BY <1>0, <1>4, <1>5, GuardAssumption

\* record_attempt() remembers the action, and may forget clients than which enough others are more recent.
LEMMA RecordStep ==
  ASSUME GuardInv, NEW m \in Macs, RecordAttempt(m)
  PROVE  GuardInv'
<1> DEFINE pa   == PrunedAttempts
<1> DEFINE pl   == PrunedLast
<1> DEFINE a    == [pa EXCEPT ![m] = @ \union {clock}]
<1> DEFINE gone == Evicted(a)
<1> DEFINE top  == [k \in Macs |-> IF k = m THEN clock ELSE last[k]]
<1> DEFINE new  == [mac |-> m, at |-> clock]
<1> DEFINE present == { k \in Macs : a[k] # {} }
<1>0. /\ TablesInv /\ MemoryInv /\ clock \in Nat /\ log \in SUBSET [mac : Macs, at : Nat]
      /\ last \in [Macs -> Nat \union {None}]
      /\ \A e \in log : e.at < clock
      /\ \A k \in Macs : \A t \in attempts[k] : [mac |-> k, at |-> t] \in log
      /\ \A k \in Macs : attempts[k] # {} => last[k] \in attempts[k] /\ \A t \in attempts[k] : t <= last[k]
      /\ attempts \in [Macs -> SUBSET Nat]
    BY DEF GuardInv, TablesInv
<1>1. /\ granted = m /\ granted' = None /\ clock' = clock + 1
      /\ log' = log \union {new}
      /\ attempts' = [k \in Macs |-> IF k \in gone THEN {} ELSE a[k]]
      /\ last' = [k \in Macs |-> IF k \in gone THEN None ELSE IF k = m THEN clock ELSE pl[k]]
    BY DEF RecordAttempt
<1>2. /\ pl \in [Macs -> Nat \union {None}]
      /\ pa \in [Macs -> SUBSET Nat]
      /\ \A k \in Macs : pa[k] = { t \in attempts[k] : t > clock - Hour }
      /\ \A k \in Macs : last[k] # None /\ clock - last[k] < Cooldown => pl[k] = last[k]
      /\ \A k \in Macs : pa[k] # {} => last[k] \in pa[k] /\ pl[k] = last[k]
      /\ Cooldown <= Hour => \A k \in Macs : pl[k] # None => pa[k] # {}
    BY <1>0, Pruning
<1> HIDE DEF pa, pl
<1>3. a \in [Macs -> SUBSET Nat] /\ a[m] = pa[m] \union {clock} /\ \A k \in Macs : k # m => a[k] = pa[k]
    BY <1>0, <1>2
<1> HIDE DEF a
<1>4. /\ top \in [Macs -> Nat \union {None}] /\ top[m] = clock
      /\ \A k \in Macs : k # m => top[k] = last[k]
      /\ \A k \in Macs : a[k] # {} => top[k] \in a[k] /\ \A t \in a[k] : t <= top[k]
  <2>1. top \in [Macs -> Nat \union {None}] /\ top[m] = clock /\ \A k \in Macs : k # m => top[k] = last[k]
      BY <1>0
  <2> HIDE DEF top
  <2>2. \A t \in a[m] : t <= top[m] /\ top[m] \in a[m]
    <3>1. \A t \in pa[m] : t \in Nat /\ [mac |-> m, at |-> t] \in log
        BY <1>0, <1>2
    <3>2. \A t \in pa[m] : t <= clock
      <4> TAKE t \in pa[m]
      <4>1. [mac |-> m, at |-> t] \in log /\ t \in Nat
          BY <3>1
      <4>2. [mac |-> m, at |-> t].at < clock
          BY <1>0, <4>1
      <4> QED
          BY <1>0, <4>1, <4>2
    <3> QED
        BY <1>0, <1>3, <2>1, <3>2
  <2>3. \A k \in Macs : k # m /\ a[k] # {} => top[k] \in a[k] /\ \A t \in a[k] : t <= top[k]
      BY <1>0, <1>2, <1>3, <2>1
  <2>4. a[m] # {}
      BY <1>3
  <2> QED
      BY <1>3, <2>1, <2>2, <2>3, <2>4
<1>5. present \in SUBSET Macs /\ (\A k \in Macs : k \in present <=> a[k] # {}) /\ m \in present
    BY <1>3
<1> HIDE DEF top, new, present
<1>6. /\ gone \in SUBSET present /\ IsFiniteSet(present \ gone) /\ Cardinality(present \ gone) <= MaxEntries
      /\ gone # {} => Cardinality(present \ gone) = MaxEntries
      /\ \A k \in gone, j \in present \ gone : top[k] <= top[j]
    BY <1>3, <1>4, <1>5, Eviction
<1> HIDE DEF gone
<1>7. m \notin gone
  <2> SUFFICES ASSUME m \in gone PROVE FALSE
      OBVIOUS
  <2>1. PICK j \in present \ gone : TRUE
      BY <1>6, FS_EmptySet, GuardAssumption
  <2>2. j \in Macs /\ j # m /\ a[j] # {}
      BY <1>5, <2>1
  <2>3. top[j] = last[j] /\ last[j] \in a[j]
      BY <1>4, <2>2
  <2>4. last[j] \in attempts[j] /\ last[j] \in Nat
      BY <1>0, <1>2, <1>3, <2>2, <2>3
  <2>5. [mac |-> j, at |-> last[j]] \in log
      BY <1>0, <2>2, <2>4
  <2>6. last[j] < clock
      BY <1>0, <2>5
  <2>7. clock <= last[j]
      BY <1>4, <1>6, <2>1, <2>3
  <2> QED
      BY <1>0, <2>4, <2>6, <2>7
<1>8. log \subseteq log' /\ new \in log' /\ log' \in SUBSET [mac : Macs, at : Nat] /\ clock' \in Nat /\ clock <= clock'
  <2>1. new \in [mac : Macs, at : Nat]
      BY <1>0 DEF new
  <2> QED
      BY <1>0, <1>1, <2>1
<1>9. ASSUME NEW k \in gone, NEW t \in Nat, t <= top[k]
      PROVE  OthersActed(k, t, clock)' >= MaxEntries
  <2>1. present \ gone \in SUBSET Others(log', k, t, clock')
    <3> SUFFICES ASSUME NEW j \in present \ gone PROVE j \in Others(log', k, t, clock')
        OBVIOUS
    <3>1. j \in Macs /\ k \in Macs /\ j # k /\ a[j] # {} /\ a[k] # {}
        BY <1>5, <1>6
    <3>2. top[j] \in a[j] /\ top[j] \in Nat /\ top[k] \in Nat /\ top[k] <= top[j]
        BY <1>3, <1>4, <1>6, <3>1
    <3>3. [mac |-> j, at |-> top[j]] \in log' /\ top[j] <= clock
      <4>1. CASE j = m
          BY <1>0, <1>4, <1>8, <4>1 DEF new
      <4>2. CASE j # m
        <5>1. [mac |-> j, at |-> top[j]] \in log
            BY <1>0, <1>2, <1>3, <3>1, <3>2, <4>2
        <5>2. top[j] < clock
            BY <1>0, <5>1
        <5> QED
            BY <1>0, <1>8, <3>2, <5>1, <5>2
      <4> QED
          BY <4>1, <4>2
    <3>4. t <= top[j] /\ top[j] <= clock'
        BY <1>0, <1>1, <1>9, <3>2, <3>3
    <3> DEFINE x == [mac |-> j, at |-> top[j]]
    <3>5. x \in log' /\ x.mac = j /\ x.mac # k /\ t <= x.at /\ x.at <= clock'
        BY <3>1, <3>3, <3>4
    <3> HIDE DEF x
    <3> QED
        BY <3>5 DEF Others
  <2>2. IsFiniteSet(Others(log', k, t, clock'))
    <3>1. Others(log', k, t, clock') \in SUBSET Macs
        BY <1>8 DEF Others
    <3> QED
        BY <3>1, MacsAssumption, FS_Subset
  <2>3. Cardinality(present \ gone) <= Cardinality(Others(log', k, t, clock'))
      BY <2>1, <2>2, FS_Subset
  <2>4. Cardinality(present \ gone) = MaxEntries
      BY <1>6
  <2>5. OthersActed(k, t, clock)' = Cardinality(Others(log', k, t, clock'))
      BY DEF OthersActed, Others
  <2>6. Cardinality(Others(log', k, t, clock')) \in Nat
      BY <2>2, FS_CardinalityType
  <2> QED
      BY <2>3, <2>4, <2>5, <2>6, GuardAssumption

<1>10. ASSUME NEW k \in Macs, NEW t \in Nat
       PROVE  /\ OthersActed(k, t, clock) >= MaxEntries => OthersActed(k, t, clock)' >= MaxEntries
              /\ \A u \in Nat : OthersActed(k, t, u) >= MaxEntries => OthersActed(k, t, u)' >= MaxEntries
  <2>1. OthersActed(k, t, clock) >= MaxEntries => OthersActed(k, t, clock') >= MaxEntries
      BY <1>0, <1>8, ForgottenStays
  <2>2. \A u \in Nat : OthersActed(k, t, u) >= MaxEntries => OthersActed(k, t, u)' >= MaxEntries
    <3> SUFFICES ASSUME NEW u \in Nat, OthersActed(k, t, u) >= MaxEntries
                 PROVE  OthersActed(k, t, u)' >= MaxEntries
        OBVIOUS
    <3>1. u <= u
        OBVIOUS
    <3> QED
        BY <1>0, <1>8, <3>1, ForgottenStays
  <2>3. OthersActed(k, t, clock) >= MaxEntries => OthersActed(k, t, clock)' >= MaxEntries
    <3>1. OthersActed(k, t, clock) = Cardinality(Others(log, k, t, clock))
        BY DEF OthersActed, Others
    <3>2. OthersActed(k, t, clock)' = Cardinality(Others(log', k, t, clock'))
        BY DEF OthersActed, Others
    <3>3. /\ Cardinality(Others(log, k, t, clock)) \in Nat /\ Cardinality(Others(log', k, t, clock')) \in Nat
          /\ Cardinality(Others(log, k, t, clock)) <= Cardinality(Others(log', k, t, clock'))
        BY <1>0, <1>8, OthersGrow
    <3> QED
        BY <3>1, <3>2, <3>3, GuardAssumption
  <2> QED
      BY <2>2, <2>3
<1>11. /\ \A k \in Macs : attempts'[k] = IF k \in gone THEN {} ELSE a[k]
       /\ \A k \in Macs : last'[k] = IF k \in gone THEN None ELSE IF k = m THEN clock ELSE pl[k]
       /\ attempts' \in [Macs -> SUBSET Nat] /\ last' \in [Macs -> Nat \union {None}]
    BY <1>0, <1>1, <1>2, <1>3
<1>12. ASSUME NEW k \in Macs, k \notin gone, a[k] # {}
       PROVE  last'[k] = top[k]
  <2>1. CASE k = m
      BY <1>4, <1>11, <1>12, <2>1
  <2>2. CASE k # m
      BY <1>2, <1>3, <1>4, <1>11, <1>12, <2>2
  <2> QED
      BY <2>1, <2>2
<1>13. TablesInv'
  <2>1. \A e \in log' : e.at < clock + 1
    <3> TAKE e \in log'
    <3>1. CASE e = new
        BY <1>0, <3>1 DEF new
    <3>2. CASE e \in log
      <4>1. e.at < clock /\ e.at \in Nat
          BY <1>0, <3>2
      <4> QED
          BY <1>0, <4>1
    <3> QED
        BY <1>1, <3>1, <3>2
  <2>2. ASSUME NEW k \in Macs, NEW t \in attempts'[k] PROVE [mac |-> k, at |-> t] \in log'
    <3>1. t \in a[k]
        BY <1>11
    <3>2. CASE k = m /\ t = clock
        BY <1>8, <3>2 DEF new
    <3>3. CASE ~(k = m /\ t = clock)
      <4>1. t \in attempts[k]
          BY <1>2, <1>3, <3>1, <3>3
      <4> QED
          BY <1>0, <1>8, <4>1
    <3> QED
        BY <3>2, <3>3
  <2>3. \A k \in Macs : attempts'[k] # {} => last'[k] \in attempts'[k] /\ \A t \in attempts'[k] : t <= last'[k]
    <3> SUFFICES ASSUME NEW k \in Macs, attempts'[k] # {}
                 PROVE  last'[k] \in attempts'[k] /\ \A t \in attempts'[k] : t <= last'[k]
        OBVIOUS
    <3>1. k \notin gone /\ attempts'[k] = a[k] /\ a[k] # {}
        BY <1>11
    <3>2. last'[k] = top[k]
        BY <1>12, <3>1
    <3> QED
        BY <1>4, <3>1, <3>2
  <2>4. Cardinality({ k \in Macs : attempts'[k] # {} }) <= MaxEntries
    <3>1. { k \in Macs : attempts'[k] # {} } = present \ gone
        BY <1>5, <1>11
    <3> QED
        BY <1>6, <3>1
  <2>5. Cooldown <= Hour => \A k \in Macs : last'[k] # None => attempts'[k] # {}
    <3> SUFFICES ASSUME Cooldown <= Hour, NEW k \in Macs, last'[k] # None PROVE attempts'[k] # {}
        OBVIOUS
    <3>1. k \notin gone /\ attempts'[k] = a[k] /\ (k = m \/ pl[k] # None)
        BY <1>11
    <3>2. a[k] # {}
        BY <1>2, <1>3, <3>1
    <3> QED
        BY <3>1, <3>2
  <2> QED
      BY <1>1, <1>8, <1>11, <2>1, <2>2, <2>3, <2>4, <2>5 DEF TablesInv
<1>14. MemoryInv'
  <2> SUFFICES ASSUME NEW e \in log'
               PROVE  /\ e.at > clock' - Hour => e.at \in attempts'[e.mac] \/ OthersActed(e.mac, e.at, clock)' >= MaxEntries
                      /\ clock' - e.at < Cooldown =>
                            \/ last'[e.mac] # None /\ last'[e.mac] >= e.at
                            \/ OthersActed(e.mac, e.at, clock)' >= MaxEntries
      BY DEF MemoryInv, Forgotten
  <2>1. CASE e = new
    <3>1. e.mac = m /\ e.at = clock
        BY <2>1 DEF new
    <3>2. attempts'[m] = a[m] /\ last'[m] = clock /\ clock \in a[m]
        BY <1>3, <1>7, <1>11
    <3> QED
        BY <1>0, <3>1, <3>2, GuardAssumption
  <2>2. CASE e \in log
    <3>1. e.at \in Nat /\ e.mac \in Macs /\ last[e.mac] \in Nat \union {None} /\ e.at < clock
        BY <1>0, <2>2
    <3>2. /\ e.at > clock - Hour =>
                e.at \in attempts[e.mac] \/ OthersActed(e.mac, e.at, clock) >= MaxEntries
          /\ clock - e.at < Cooldown =>
                \/ last[e.mac] # None /\ last[e.mac] >= e.at
                \/ OthersActed(e.mac, e.at, clock) >= MaxEntries
        BY <1>0, <2>2 DEF MemoryInv, Forgotten
    <3>3. OthersActed(e.mac, e.at, clock) >= MaxEntries => OthersActed(e.mac, e.at, clock)' >= MaxEntries
        BY <1>10, <3>1
    <3>4. e.mac \in gone /\ e.at <= top[e.mac] => OthersActed(e.mac, e.at, clock)' >= MaxEntries
        BY <1>9, <3>1
    <3>5. ASSUME e.at > clock' - Hour, e.at \in attempts[e.mac]
          PROVE  e.at \in attempts'[e.mac] \/ OthersActed(e.mac, e.at, clock)' >= MaxEntries
      <4>1. e.at > clock - Hour
          BY <1>0, <1>1, <3>1, <3>5, GuardAssumption
      <4>2. e.at \in a[e.mac]
          BY <1>2, <1>3, <3>1, <3>5, <4>1
      <4>3. e.at <= top[e.mac]
          BY <1>4, <3>1, <4>2
      <4> QED
          BY <1>11, <3>1, <3>4, <4>2, <4>3
    <3>6. ASSUME clock' - e.at < Cooldown, last[e.mac] # None, last[e.mac] >= e.at
          PROVE  \/ last'[e.mac] # None /\ last'[e.mac] >= e.at
                 \/ OthersActed(e.mac, e.at, clock)' >= MaxEntries
      <4>1. pl[e.mac] = last[e.mac] /\ last[e.mac] \in Nat
          BY <1>0, <1>1, <1>2, <3>1, <3>6, GuardAssumption
      <4>2. CASE e.mac \in gone
        <5>1. a[e.mac] # {} /\ e.mac # m
            BY <1>5, <1>6, <1>7, <3>1, <4>2
        <5>2. top[e.mac] = last[e.mac]
            BY <1>4, <3>1, <5>1
        <5> QED
            BY <3>4, <3>6, <4>2, <5>2
      <4>3. CASE e.mac \notin gone
        <5>1. last'[e.mac] = IF e.mac = m THEN clock ELSE last[e.mac]
            BY <1>11, <3>1, <4>1, <4>3
        <5> QED
            BY <1>0, <3>1, <3>6, <5>1, GuardAssumption
      <4> QED
          BY <4>2, <4>3
    <3>7. /\ e.at > clock' - Hour => e.at > clock - Hour
          /\ clock' - e.at < Cooldown => clock - e.at < Cooldown
        BY <1>0, <1>1, <3>1, GuardAssumption
    <3> QED
        BY <3>2, <3>3, <3>5, <3>6, <3>7
  <2> QED
      BY <1>1, <2>1, <2>2
<1>15. SpacedUnlessEvicted'
  <2> SUFFICES ASSUME NEW e \in log', NEW f \in log', e.mac = f.mac, e.at < f.at, f.at - e.at < Cooldown
               PROVE  OthersActed(e.mac, e.at, f.at)' >= MaxEntries
      BY DEF SpacedUnlessEvicted
  <2>0. e.at \in Nat /\ f.at \in Nat /\ e.mac \in Macs
      BY <1>8
  <2>1. CASE f \in log
    <3>1. e \in log
      <4>1. e # new
          BY <1>0, <2>0, <2>1 DEF new
      <4> QED
          BY <1>1, <4>1
    <3>2. OthersActed(e.mac, e.at, f.at) >= MaxEntries
        BY <2>1, <3>1 DEF GuardInv, SpacedUnlessEvicted
    <3> QED
        BY <1>10, <2>0, <3>2
  <2>2. CASE f = new
    <3>1. f.mac = m /\ f.at = clock /\ e.mac = m
        BY <2>2 DEF new
    <3>2. e \in log
      <4>1. e # new
          BY <2>0, <3>1 DEF new
      <4> QED
          BY <1>1, <4>1
    <3>3. last[m] # None => clock - last[m] >= Cooldown
        BY <1>1, GuardAssumption DEF GuardInv, GrantInv
    <3>4. ~(last[m] # None /\ last[m] >= e.at)
        BY <1>0, <2>0, <3>1, <3>3, GuardAssumption
    <3>5. OthersActed(e.mac, e.at, clock) >= MaxEntries
        BY <1>0, <3>1, <3>2, <3>4 DEF MemoryInv, Forgotten
    <3> QED
        BY <1>0, <1>10, <2>0, <3>1, <3>5
  <2> QED
      BY <1>1, <2>1, <2>2
<1>16. HourlyLimitUnlessEvicted'
  <2> SUFFICES ASSUME NEW f \in log', NEW window,
                      window = { e \in log' : e.mac = f.mac /\ e.at <= f.at /\ e.at > f.at - Hour },
                      Cardinality(window) > HourlyLimit
               PROVE  \E e \in window : OthersActed(f.mac, e.at, f.at)' >= MaxEntries
      BY DEF HourlyLimitUnlessEvicted
  <2>0. f.at \in Nat /\ f.mac \in Macs /\ \A e \in window : e \in log' /\ e.at \in Nat
      BY <1>8
  <2>1. CASE f \in log
    <3>1. window = { e \in log : e.mac = f.mac /\ e.at <= f.at /\ e.at > f.at - Hour }
      <4>1. f.at < clock
          BY <1>0, <2>1
      <4>2. ~(new.at <= f.at)
          BY <1>0, <2>0, <4>1 DEF new
      <4> QED
          BY <1>1, <4>2
    <3>2. \E e \in window : OthersActed(f.mac, e.at, f.at) >= MaxEntries
        BY <2>1, <3>1 DEF GuardInv, HourlyLimitUnlessEvicted
    <3> QED
        BY <1>10, <2>0, <3>2
  <2>2. CASE f = new
    <3> SUFFICES ASSUME \A e \in window : ~(OthersActed(f.mac, e.at, f.at)' >= MaxEntries) PROVE FALSE
        OBVIOUS
    <3>1. f.mac = m /\ f.at = clock
        BY <2>2 DEF new
    <3> DEFINE earlier == window \ {new}
    <3>2. earlier \subseteq { e \in log : e.mac = m /\ e.at > clock - Hour }
        BY <1>1, <3>1
    <3>3. \A e \in earlier : ~Forgotten(m, e.at, clock)
        BY <1>0, <1>10, <2>0, <3>1 DEF Forgotten
    <3> HIDE DEF earlier
    <3>4. IsFiniteSet(earlier) /\ Cardinality(earlier) < HourlyLimit
        BY <1>1, <3>2, <3>3, WindowCounted
    <3>5. window \in SUBSET (earlier \union {new})
        BY DEF earlier
    <3>6. /\ IsFiniteSet(earlier \union {new})
          /\ Cardinality(earlier \union {new}) = IF new \in earlier THEN Cardinality(earlier) ELSE Cardinality(earlier) + 1
        BY <3>4, FS_AddElement
    <3>7. Cardinality(earlier) \in Nat
        BY <3>4, FS_CardinalityType
    <3>8. Cardinality(earlier \union {new}) <= HourlyLimit
        BY <3>4, <3>6, <3>7, GuardAssumption
    <3>9. IsFiniteSet(window) /\ Cardinality(window) <= Cardinality(earlier \union {new})
        BY <3>5, <3>6, FS_Subset
    <3>10. Cardinality(window) \in Nat /\ Cardinality(earlier \union {new}) \in Nat
        BY <3>6, <3>9, FS_CardinalityType
    <3> QED
        BY <3>8, <3>9, <3>10, GuardAssumption
  <2> QED
      BY <1>1, <2>1, <2>2
<1>17. GrantInv'
    BY <1>1 DEF GrantInv
<1> QED
    BY <1>13, <1>14, <1>15, <1>16, <1>17 DEF GuardInv

-----------------------------------------------------------------------------
(* What the guard promises its caller *)

GuardActs == Tick \/ AuditFails \/ \E m \in Macs : Check(m) \/ RecordAttempt(m)

\* Empty tables and an empty log satisfy the invariant.
LEMMA GuardInitially == GuardInit => GuardInv
<1> SUFFICES ASSUME GuardInit PROVE GuardInv
    OBVIOUS
<1>1. \A m \in Macs : attempts[m] = {} /\ last[m] = None
    BY DEF GuardInit
<1>2. Cardinality({ m \in Macs : attempts[m] # {} }) = 0
  <2>1. { m \in Macs : attempts[m] # {} } = {}
      BY <1>1
  <2> QED
      BY <2>1, FS_EmptySet
<1>3. TablesInv
    BY <1>1, <1>2, GuardAssumption DEF GuardInit, TablesInv
<1> QED
    BY <1>3 DEF GuardInit, GuardInv, MemoryInv, GrantInv, SpacedUnlessEvicted, HourlyLimitUnlessEvicted

\* Every use of the guard keeps it.
LEMMA GuardInvStep == GuardInv /\ [GuardActs]_guardVars => GuardInv'
<1> SUFFICES ASSUME GuardInv, [GuardActs]_guardVars PROVE GuardInv'
    OBVIOUS
<1>1. CASE Tick
    BY <1>1, TickStep
<1>2. CASE AuditFails
    BY <1>2, AuditFailsStep
<1>3. CASE \E m \in Macs : Check(m)
    BY <1>3, CheckStep
<1>4. CASE \E m \in Macs : RecordAttempt(m)
    BY <1>4, RecordStep
<1>5. CASE UNCHANGED guardVars
  <2>0. clock' = clock /\ last' = last /\ attempts' = attempts /\ granted' = granted /\ log' = log
      BY <1>5 DEF guardVars
  <2>1. TablesInv'
      BY <2>0 DEF GuardInv, TablesInv
  <2>2. MemoryInv'
      BY <2>0 DEF GuardInv, MemoryInv, Forgotten, OthersActed
  <2>3. GrantInv'
    <3>1. PrunedAttempts' = PrunedAttempts
        BY <2>0 DEF PrunedAttempts
    <3> QED
        BY <2>0, <3>1 DEF GuardInv, GrantInv, UnderLimit
  <2> QED
      BY <2>0, <2>1, <2>2, <2>3, RecordUnchanged DEF GuardInv
<1> QED
    BY <1>1, <1>2, <1>3, <1>4, <1>5 DEF GuardActs

\* Whatever the cleaner does, it uses the guard by check() and record_attempt().
LEMMA CleanerUsesGuard == ConfirmInv /\ [Next]_vars => [GuardActs]_guardVars
<1> SUFFICES ASSUME ConfirmInv, [Next]_vars PROVE [GuardActs]_guardVars
    OBVIOUS
<1>1. CASE UNCHANGED vars
    BY <1>1 DEF vars
<1>2. CASE StartScan \/ EndWorker \/ ListClients \/ ListFails \/ NextCandidate \/ SkipRest \/ ScanDone
    BY <1>2 DEF StartScan, EndWorker, ListClients, ListFails, NextCandidate, SkipRest, ScanDone
<1>3. CASE FinishScan \/ ScanAborts \/ Check1 \/ AskPreflight \/ Preflight \/ Check2 \/ GuardRefuses
    BY <1>3 DEF FinishScan, ScanAborts, Check1, AskPreflight, Preflight, Check2, GuardRefuses
<1>4. CASE AskGuard \/ SendPost
  <2>1. cand.mac \in Macs
      BY <1>4 DEF AskGuard, SendPost, Goto, ConfirmInv, SessionInv, HoldsCandidate, Pcs, Candidate
  <2> QED
      BY <1>4, <2>1 DEF AskGuard, SendPost, GuardActs
<1>5. CASE PlanFails
    BY <1>5 DEF PlanFails, GuardActs
<1>6. CASE WritePlan \/ PostAnswered \/ TokenExpired \/ AskRecover \/ Recover \/ Recheck \/ SendPost2
    BY <1>6 DEF WritePlan, PostAnswered, TokenExpired, AskRecover, Recover, Recheck, SendPost2
<1>7. CASE AskVerify \/ VerifyEnds \/ Verify \/ Complete
    BY <1>7 DEF AskVerify, VerifyEnds, Verify, Complete
<1>8. CASE BeginStopping \/ CloseJournal \/ \E m \in Mobile : Rejoin(m) \/ EnterPortal(m) \/ LeavePortal(m)
    BY <1>8 DEF BeginStopping, CloseJournal, Rejoin, EnterPortal, LeavePortal
<1>9. CASE TimePasses
    BY <1>9 DEF TimePasses, GuardActs
<1> QED
    BY <1>1, <1>2, <1>3, <1>4, <1>5, <1>6, <1>7, <1>8, <1>9 DEF Next, Worker, Environment

\* Before the first scan there is no candidate.
LEMMA ConfirmInitially == Init => ConfirmInv
    BY DEF Init, GuardInit, ConfirmInv, ClockInv, SessionInv, ConfirmedIsReal, HoldsCandidate,
           HoldsReading, HoldsSession, Pcs, NoVerdict, Session

\* The cleaner as a whole never breaks the guard's invariant: check() and record_attempt() are not
\* one critical section, but only the scan that was granted an action records one.
LEMMA GuardInvAlways == Spec => [](ConfirmInv /\ GuardInv)
<1>1. Init => ConfirmInv /\ GuardInv
    BY ConfirmInitially, GuardInitially DEF Init
<1> QED
    BY <1>1, ConfirmInvStep, CleanerUsesGuard, GuardInvStep, PTL DEF Spec

\* Two requests for one client are at least action_cooldown_seconds apart unless _bound_locked has
\* evicted its entry, which takes max_cache_entries other clients in between.
THEOREM Spacing == Spec => []SpacedUnlessEvicted
<1>1. GuardInv => SpacedUnlessEvicted
    BY DEF GuardInv
<1> QED
    BY <1>1, GuardInvAlways, PTL

\* In no hour is a client acted on more than max_actions_per_mac_per_hour times, with the same exception.
THEOREM HourlyLimitation == Spec => []HourlyLimitUnlessEvicted
<1>1. GuardInv => HourlyLimitUnlessEvicted
    BY DEF GuardInv
<1> QED
    BY <1>1, GuardInvAlways, PTL

LEMMA MemoryKept == ASSUME GuardInv, Cooldown <= Hour PROVE MemoryBounded
<1> DEFINE entries == { m \in Macs : attempts[m] # {} }
<1> DEFINE lasts   == { m \in Macs : last[m] # None }
<1>1. Cardinality(entries) <= MaxEntries /\ lasts \in SUBSET entries /\ entries \in SUBSET Macs
    BY DEF GuardInv, TablesInv
<1> HIDE DEF entries, lasts
<1>2. IsFiniteSet(entries)
    BY <1>1, MacsAssumption, FS_Subset
<1>3. IsFiniteSet(lasts) /\ Cardinality(lasts) <= Cardinality(entries)
    BY <1>1, <1>2, FS_Subset
<1>4. Cardinality(lasts) \in Nat /\ Cardinality(entries) \in Nat
    BY <1>2, <1>3, FS_CardinalityType
<1>5. Cardinality(lasts) <= MaxEntries
    BY <1>1, <1>3, <1>4, GuardAssumption
<1> QED
    BY <1>1, <1>5 DEF MemoryBounded, entries, lasts

\* The two tables agree: a client's last attempt is the latest of its recorded ones.
LEMMA TablesAgree == ASSUME GuardInv PROVE GuardTypeOK
<1>1. TablesInv
    BY DEF GuardInv
<1>2. ASSUME NEW m \in Macs, attempts[m] # {}
      PROVE  last[m] = Max(attempts[m]) /\ last[m] < clock
  <2>1. attempts[m] \in SUBSET Nat /\ last[m] \in attempts[m] /\ \A t \in attempts[m] : t <= last[m]
      BY <1>1, <1>2 DEF TablesInv
  <2>2. last[m] = Max(attempts[m])
      BY <2>1, MaxIs
  <2>3. [mac |-> m, at |-> last[m]] \in log
      BY <1>1, <2>1 DEF TablesInv
  <2>4. [mac |-> m, at |-> last[m]].at < clock
      BY <1>1, <2>3 DEF TablesInv
  <2> QED
      BY <2>2, <2>4
<1> QED
    BY <1>1, <1>2 DEF TablesInv, GuardTypeOK

\* Both tables stay within max_cache_entries, provided the cooldown is no longer than an hour; with
\* a longer one a client's last attempt may outlive its entries and _bound_locked no longer counts it.
THEOREM MemoryBound == Cooldown <= Hour => (Spec => []MemoryBounded)
<1> SUFFICES ASSUME Cooldown <= Hour PROVE Spec => []MemoryBounded
    OBVIOUS
<1>1. GuardInv => MemoryBounded
    BY MemoryKept
<1> QED
    BY <1>1, GuardInvAlways, PTL

\* The same of the guard by itself, whoever uses it in whatever order: what the guard promises does
\* not depend on the cleaner's scans.
THEOREM GuardAlone ==
    GuardSpec => [](/\ GuardTypeOK /\ SpacedUnlessEvicted /\ HourlyLimitUnlessEvicted
                    /\ Cooldown <= Hour => MemoryBounded)
<1>1. GuardNext => GuardActs
    BY DEF GuardNext, GuardActs
<1>2. GuardInv => /\ GuardTypeOK /\ SpacedUnlessEvicted /\ HourlyLimitUnlessEvicted
                  /\ Cooldown <= Hour => MemoryBounded
    BY TablesAgree, MemoryKept DEF GuardInv
<1> QED
    BY <1>1, <1>2, GuardInitially, GuardInvStep, PTL DEF GuardSpec

-----------------------------------------------------------------------------
(* Types *)

\* From the guard's permission on, the action in hand still fits into the scan's limit.
Granted == {"plan", "post", "postSent", "recover", "recoverSent", "recheck1", "recheck2", "post2",
            "post2Sent", "verify", "verifySent", "complete"}

ScanInv ==
    /\ pc \in Pcs
    /\ todo \in SUBSET Candidate
    /\ cand \in Candidate \union {None}
    /\ reading \in Reading \union {None} /\ before \in Reading \union {None}
    /\ deadline \in Nat
    /\ actions \in 0 .. MaxActions
    /\ pc \in Granted => actions < MaxActions
    /\ rounds \in 0 .. VerifyRounds

FlagsInv ==
    /\ journalOk \in BOOLEAN /\ stop \in BOOLEAN /\ closed \in BOOLEAN
    /\ lateEntry \in BOOLEAN /\ lateSends \in Nat

WorldInv ==
    /\ client \in [Macs -> Session]
    /\ portal \in [Macs -> [active : BOOLEAN, until : Nat]]
    /\ verdict \in Verdict

TypeInv == ScanInv /\ FlagsInv /\ WorldInv

\* An action is only counted up from below the limit, and a round of verification likewise.
LEMMA ScanInvStep == ConfirmInv /\ TypeInv /\ [Next]_vars => ScanInv'
<1> SUFFICES ASSUME ConfirmInv, TypeInv, [Next]_vars PROVE ScanInv'
    OBVIOUS
<1> USE CleanerAssumption DEF TypeInv, ScanInv, Granted, Pcs, Goto
<1>0. clock \in Nat /\ todo' \in SUBSET Candidate
  <2>1. ConfirmInv'
      BY ConfirmInvStep
  <2> QED
      BY <2>1 DEF ConfirmInv, ClockInv
<1>1. CASE UNCHANGED vars
    BY <1>1 DEF vars, scanVars
<1>2. CASE StartScan \/ EndWorker \/ ListFails \/ ScanDone
    BY <1>0, <1>2 DEF StartScan, EndWorker, ListFails, ScanDone, scanVars
<1>3. CASE ListClients \/ NextCandidate \/ SkipRest
    BY <1>0, <1>3 DEF ListClients, NextCandidate, SkipRest
<1>4. CASE FinishScan \/ ScanAborts
    BY <1>4 DEF FinishScan, ScanAborts, DropCandidate
<1>5. CASE Check1 \/ AskPreflight \/ Check2
    BY <1>5 DEF Check1, AskPreflight, Check2, Skip, DropCandidate, KeepCandidate
<1>6. CASE Preflight \/ Recover
  <2>1. [since |-> client[cand.mac].since, at |-> clock] \in Reading
    <3>1. cand.mac \in Macs
        BY <1>6 DEF Preflight, Recover, ConfirmInv, SessionInv, HoldsCandidate, Candidate
    <3> QED
        BY <1>0, <3>1 DEF WorldInv, Session, Reading
  <2> QED
      BY <1>6, <2>1 DEF Preflight, Recover, Skip, DropCandidate
<1>7. CASE GuardRefuses \/ AskGuard
    BY <1>7 DEF GuardRefuses, AskGuard, Skip, DropCandidate, KeepCandidate
<1>8. CASE WritePlan \/ TokenExpired \/ AskRecover
    BY <1>8 DEF WritePlan, TokenExpired, AskRecover, scanVars
<1>9. CASE SendPost \/ SendPost2 \/ PostAnswered
    BY <1>9 DEF SendPost, SendPost2, PostAnswered, scanVars
<1>10. CASE Recheck
    BY <1>10 DEF Recheck
<1>11. CASE AskVerify \/ VerifyEnds \/ Verify
    BY <1>11 DEF AskVerify, VerifyEnds, Verify, scanVars
<1>12. CASE Complete
    BY <1>12 DEF Complete, DropCandidate
<1>13. CASE Environment
    BY <1>13 DEF Environment, BeginStopping, CloseJournal, TimePasses, Rejoin, EnterPortal, LeavePortal, scanVars
<1>14. CASE PlanFails
    BY <1>14 DEF PlanFails, DropCandidate
<1> QED
    BY <1>1, <1>2, <1>3, <1>4, <1>5, <1>6, <1>7, <1>8, <1>9, <1>10, <1>11, <1>12, <1>13, <1>14 DEF Next, Worker

\* Flags stay flags, and the history counts up.
LEMMA FlagsInvStep == FlagsInv /\ [Next]_vars => FlagsInv'
<1> SUFFICES ASSUME FlagsInv, [Next]_vars PROVE FlagsInv'
    OBVIOUS
<1> USE DEF FlagsInv
<1>1. CASE UNCHANGED vars
    BY <1>1 DEF vars, envVars
<1>2. CASE StartScan \/ EndWorker \/ ListClients \/ ListFails \/ NextCandidate \/ SkipRest \/ ScanDone
    BY <1>2 DEF StartScan, EndWorker, ListClients, ListFails, NextCandidate, SkipRest, ScanDone, envVars
<1>3. CASE FinishScan \/ ScanAborts
    BY <1>3 DEF FinishScan, ScanAborts, DropCandidate, envVars
<1>4. CASE Check1 \/ AskPreflight \/ Preflight \/ Check2
    BY <1>4 DEF Check1, AskPreflight, Preflight, Check2, Skip, DropCandidate, KeepCandidate, envVars
<1>5. CASE GuardRefuses \/ AskGuard
    BY <1>5 DEF GuardRefuses, AskGuard, Skip, DropCandidate, KeepCandidate, envVars
<1>6. CASE WritePlan \/ PlanFails
    BY <1>6 DEF WritePlan, PlanFails, DropCandidate, envVars
<1>7. CASE SendPost \/ SendPost2
    BY <1>7 DEF SendPost, SendPost2, CountSend, envVars
<1>8. CASE PostAnswered \/ TokenExpired \/ AskRecover \/ Recover \/ Recheck
    BY <1>8 DEF PostAnswered, TokenExpired, AskRecover, Recover, Recheck, envVars
<1>9. CASE AskVerify \/ VerifyEnds \/ Verify \/ Complete
    BY <1>9 DEF AskVerify, VerifyEnds, Verify, Complete, DropCandidate, envVars
<1>10. CASE BeginStopping \/ CloseJournal \/ TimePasses
    BY <1>10 DEF BeginStopping, CloseJournal, TimePasses, envVars
<1>11. CASE \E m \in Mobile : Rejoin(m) \/ EnterPortal(m) \/ LeavePortal(m)
    BY <1>11 DEF Rejoin, EnterPortal, LeavePortal
<1> QED
    BY <1>1, <1>2, <1>3, <1>4, <1>5, <1>6, <1>7, <1>8, <1>9, <1>10, <1>11 DEF Next, Worker, Environment

\* Clients and portal sessions keep their shape.
LEMMA WorldInvStep == ConfirmInv /\ WorldInv /\ [Next]_vars => WorldInv'
<1> SUFFICES ASSUME ConfirmInv, WorldInv, [Next]_vars PROVE WorldInv'
    OBVIOUS
<1> USE DEF WorldInv
<1>0. clock \in Nat /\ client' \in [Macs -> Session]
  <2>1. ConfirmInv'
      BY ConfirmInvStep
  <2> QED
      BY <2>1 DEF ConfirmInv, ClockInv
<1>1. CASE UNCHANGED vars
    BY <1>1 DEF vars, envVars
<1>2. CASE StartScan \/ EndWorker \/ ListClients \/ ListFails \/ NextCandidate \/ SkipRest \/ ScanDone
    BY <1>2 DEF StartScan, EndWorker, ListClients, ListFails, NextCandidate, SkipRest, ScanDone, envVars
<1>3. CASE FinishScan \/ ScanAborts \/ Check1 \/ AskPreflight \/ Preflight \/ Check2 \/ GuardRefuses \/ AskGuard
    BY <1>3 DEF FinishScan, ScanAborts, Check1, AskPreflight, Preflight, Check2, GuardRefuses, AskGuard, envVars
<1>4. CASE WritePlan \/ PlanFails \/ SendPost \/ SendPost2 \/ TokenExpired \/ AskRecover \/ Recover \/ Recheck
    BY <1>4 DEF WritePlan, PlanFails, SendPost, SendPost2, TokenExpired, AskRecover, Recover, Recheck, envVars
<1>5. CASE PostAnswered
    BY <1>0, <1>5 DEF PostAnswered, scanVars
<1>6. CASE AskVerify \/ VerifyEnds
    BY <1>6 DEF AskVerify, VerifyEnds, envVars
<1>7. CASE Verify
  <2>1. verdict' \in Verdict
    <3>1. cand.mac \in Macs /\ before.since \in Nat
        BY <1>7 DEF Verify, Goto, ConfirmInv, SessionInv, HoldsCandidate, HoldsReading, HoldsSession, Pcs, Candidate
    <3>2. client[cand.mac].since \in Nat
        BY <3>1 DEF Session
    <3> QED
        BY <1>7, <3>1, <3>2 DEF Verify, Verdict
  <2> QED
      BY <1>7, <2>1 DEF Verify, envVars
<1>8. CASE Complete
    BY <1>8 DEF Complete, NoVerdict, Verdict, envVars
<1>9. CASE BeginStopping \/ CloseJournal \/ TimePasses
    BY <1>9 DEF BeginStopping, CloseJournal, TimePasses, envVars
<1>10. CASE \E m \in Mobile : Rejoin(m) \/ EnterPortal(m)
    BY <1>0, <1>10 DEF Rejoin, EnterPortal
<1>11. CASE \E m \in Mobile : LeavePortal(m)
  <2> PICK m \in Mobile : LeavePortal(m)
      BY <1>11
  <2>1. [active |-> FALSE, until |-> clock + Grace] \in [active : BOOLEAN, until : Nat]
      BY <1>0, CleanerAssumption
  <2>2. portal' \in [Macs -> [active : BOOLEAN, until : Nat]]
      BY <2>1 DEF LeavePortal
  <2> QED
      BY <1>0, <2>2 DEF LeavePortal
<1> QED
    BY <1>1, <1>2, <1>3, <1>4, <1>5, <1>6, <1>7, <1>8, <1>9, <1>10, <1>11 DEF Next, Worker, Environment

\* The shape of the state, with the agreement of _last_attempt and _attempts, the scan's action limit
\* and the number of verification rounds.
THEOREM TypeCorrectness == Spec => []TypeOK
<1>1. Init => TypeInv
  <2>1. Init => ScanInv
      BY CleanerAssumption DEF Init, ScanInv, Granted, Pcs
  <2>2. Init => FlagsInv
    <3>1. Init => journalOk = TRUE /\ stop = FALSE /\ closed = FALSE /\ lateEntry = FALSE /\ lateSends = 0
        BY DEF Init
    <3>2. Init => lateSends \in Nat
        BY <3>1
    <3>3. Init => journalOk \in BOOLEAN /\ stop \in BOOLEAN /\ closed \in BOOLEAN /\ lateEntry \in BOOLEAN
        BY <3>1
    <3> QED
        BY <3>2, <3>3 DEF FlagsInv
  <2>3. Init => WorldInv
      BY DEF Init, WorldInv, Session, Verdict, NoVerdict
  <2> QED
      BY <2>1, <2>2, <2>3 DEF TypeInv
<1>2. GuardInv => GuardTypeOK
    BY TablesAgree
<1>3. GuardInv /\ TypeInv => TypeOK
    BY <1>2 DEF TypeInv, ScanInv, FlagsInv, WorldInv, TypeOK
<1>4. ConfirmInv /\ TypeInv /\ [Next]_vars => TypeInv'
    BY ScanInvStep, FlagsInvStep, WorldInvStep DEF TypeInv
<1> QED
    BY <1>1, <1>3, <1>4, GuardInvAlways, PTL DEF Spec

\* What the cleaner has from its guard, in any interleaving of scans, clients and shutdown: spaced
\* attempts and the hourly limit, with eviction as the one exception, in bounded memory.
THEOREM GuardCorrectness == Spec => []GuardHolds
<1>1. GuardInv /\ TypeOK => GuardHolds
    BY MemoryKept DEF GuardInv, GuardHolds
<1> QED
    BY <1>1, GuardInvAlways, TypeCorrectness, PTL
=============================================================================
