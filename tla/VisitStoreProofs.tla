-------------------------- MODULE VisitStoreProofs --------------------------
(***************************************************************************)
(* Proofs about VisitStore.  Only an open visit gets authorizations and    *)
(* only an event that closed nothing yet closes one; so what justified a   *)
(* close when it was written (the times, the networks, the end of the      *)
(* grace period) can be read from the tables ever after.                   *)
(***************************************************************************)
EXTENDS VisitStore, WriteCoordinator, NaturalsInduction, WellFoundedInduction, FiniteSetTheorems, SequenceTheorems, TLAPS

-----------------------------------------------------------------------------
(* The invariant *)

VisitType ==
  [client : Client, ssid : STRING \cup {None}, started : Nat, created : Nat,
   status : {"open", "closed"}, closed : Int \cup {None}, source : {None, "controller", "received"},
   reason : {None, "offline", "recovered"}, event : Event \cup {None}, device : Device \cup {None}]

AuthType == [visit : Nat, run : Run, at : 0 .. MaxTime, ssid : STRING \cup {None}]

EventType ==
  [result : {"none", "pending_match", "closed", "unmatched", "invalid"},
   reason : {None, "no_open_visit", "stale_or_ambiguous", "ssid_changed"},
   visit : Nat \cup {None}, until : Nat \cup {None}, evidence : Evidence \cup {None}]

CallType ==
  [pc : {"new", "active", "writing", "done"}, attempt : Nat, at : 0 .. MaxTime,
   now : Nat, status : {"none", "stored", "failed"}]

\* The networks of a visit w with the authorizations A agree with an event's.
Agrees(w, A, ssid) ==
  LET known == ({a.ssid : a \in A} \cup {w.ssid}) \ {None}
  IN ssid = None \/ known = {} \/ ssid \in known

\* What justifies that the event of a row closed a visit w with the authorizations A.
Fits(w, row, A) ==
  /\ w.closed \in Int /\ w.closed >= w.started
  /\ \A a \in A : a.at <= w.closed
  /\ w.reason = "offline" /\ row.until # None => w.created <= row.until
  /\ Agrees(w, A, row.evidence.ssid)
  /\ w.reason = "recovered" => row.evidence.controller = w.closed

\* A row of an event says what became of it.
RowOk(row) ==
  /\ row \in EventType
  /\ row.result # "none" => row.evidence \in Evidence
  /\ row.result = "pending_match" => row.until \in Nat

VisitsInv ==
  /\ visits \in Seq(VisitType)
  /\ \A v \in DOMAIN visits : \E a \in AuthsOf(v) : a.at >= visits[v].started
  /\ \A v \in DOMAIN visits : visits[v].status = "open" =>
       visits[v].closed = None /\ visits[v].event = None /\ visits[v].reason = None
  /\ \A u, v \in DOMAIN visits :
       visits[u].status = "open" /\ visits[v].status = "open" /\ visits[u].client = visits[v].client => u = v

AuthsInv ==
  /\ auths \subseteq AuthType
  /\ \A a \in auths : a.visit \in DOMAIN visits
  /\ \A a, b \in auths : a.run = b.run => a = b

EventsInv ==
  /\ DOMAIN events = Event
  /\ \A e \in Event : RowOk(events[e])
  /\ \A e \in Event : events[e].result = "closed" =>
       /\ events[e].visit \in DOMAIN visits
       /\ visits[events[e].visit].event = e

ClosesInv ==
  \A v \in DOMAIN visits : visits[v].status = "closed" =>
    /\ visits[v].event \in Event
    /\ events[visits[v].event].result = "closed" /\ events[visits[v].event].visit = v
    /\ Fits(visits[v], events[visits[v].event], AuthsOf(v))

CallsInv ==
  /\ call \in [Run -> CallType]
  /\ \A r \in Run : call[r].status = "stored" => \E a \in auths : a.run = r

LinkInv == link = NoLink \/ (link.visit \in DOMAIN visits /\ link.device \in Device)

ClockInv == clock \in 0 .. Horizon /\ accepting \in BOOLEAN

IInv == VisitsInv /\ AuthsInv /\ EventsInv /\ ClosesInv /\ CallsInv /\ LinkInv /\ ClockInv

-----------------------------------------------------------------------------
(* Minima and maxima of sets of numbers *)

LEMMA MinOfSet ==
  ASSUME NEW S \in SUBSET Nat, S # {}
  PROVE  Min(S) \in S /\ \A y \in S : Min(S) <= y
  <1>. DEFINE R == {ss \in Nat \X Nat : ss[1] < ss[2]}
  <1>1. OpToRel(<, Nat) = R
    BY DEF OpToRel
  <1>2. PICK m \in S : \A x \in S : <<x, m>> \notin R
    <2>1. IsWellFoundedOn(R, Nat)
      BY <1>1, NatLessThanWellFounded
    <2>. HIDE DEF R
    <2>. QED
      BY <2>1, WFMin
  <1>3. ASSUME NEW x \in S PROVE m <= x
    <2>1. <<x, m>> \in Nat \X Nat /\ <<x, m>>[1] = x /\ <<x, m>>[2] = m
      OBVIOUS
    <2>. QED
      BY <1>2, <2>1
  <1>4. \E x \in S : \A y \in S : x =< y
    BY <1>3
  <1>. QED
    BY <1>4 DEF Min

LEMMA MaxOfSet ==
  ASSUME NEW n \in Nat, NEW S \in SUBSET (0 .. n), S # {}
  PROVE  Max(S) \in S /\ \A y \in S : y <= Max(S)
  <1>. DEFINE T == {n - x : x \in S}
  <1>1. T \in SUBSET Nat /\ T # {}
    <2>1. \A x \in S : n - x \in Nat
      OBVIOUS
    <2>. QED
      BY <2>1
  <1>2. PICK m \in T : \A y \in T : m <= y
    <2>. HIDE DEF T
    <2>. QED
      BY <1>1, MinOfSet
  <1>3. PICK x \in S : m = n - x
    BY <1>2
  <1>4. ASSUME NEW y \in S PROVE x >= y
    <2>1. m <= n - y
      BY <1>2
    <2>. QED
      BY <1>3, <2>1
  <1>5. \E z \in S : \A y \in S : z >= y
    BY <1>4
  <1>6. Max(S) \in S /\ \A y \in S : Max(S) >= y
    BY <1>5 DEF Max
  <1>. QED
    BY <1>6

-----------------------------------------------------------------------------
(* What the tables say about one visit *)

Domain == DOMAIN visits = 1 .. Len(visits) /\ Len(visits) \in Nat

LEMMA VisitRows ==
  ASSUME VisitsInv
  PROVE  Domain /\ \A v \in DOMAIN visits : visits[v] \in VisitType
  BY DEF VisitsInv, Domain

\* The latest authorization of a visit bounds all of them, and the start.
LEMMA Latest ==
  ASSUME VisitsInv, AuthsInv, NEW v \in DOMAIN visits
  PROVE  /\ LatestAuthorized(v) \in Nat
         /\ \A a \in AuthsOf(v) : a.at <= LatestAuthorized(v) /\ a.at \in Nat
         /\ visits[v].started <= LatestAuthorized(v)
         /\ Max({visits[v].started, LatestAuthorized(v)}) = LatestAuthorized(v)
  <1>. DEFINE S == {a.at : a \in AuthsOf(v)}
  <1>1. \A a \in AuthsOf(v) : a \in AuthType
    BY DEF AuthsInv, AuthsOf
  <1>2. S \in SUBSET (0 .. MaxTime) /\ S # {} /\ MaxTime \in Nat
    BY <1>1, StoreAssumption DEF VisitsInv, AuthType
  <1>3. Max(S) \in S /\ \A y \in S : y <= Max(S)
    <2>. HIDE DEF S
    <2>. QED
      BY <1>2, MaxOfSet
  <1>4. LatestAuthorized(v) \in S /\ \A y \in S : y <= LatestAuthorized(v)
    BY <1>3 DEF LatestAuthorized
  <1>5. /\ LatestAuthorized(v) \in Nat
        /\ \A a \in AuthsOf(v) : a.at <= LatestAuthorized(v) /\ a.at \in Nat
    BY <1>2, <1>4
  <1>6. visits[v].started <= LatestAuthorized(v) /\ visits[v].started \in Nat
    <2>1. visits[v].started \in Nat
      BY VisitRows DEF VisitType
    <2>2. PICK a \in AuthsOf(v) : a.at >= visits[v].started
      BY DEF VisitsInv
    <2>. QED
      BY <1>5, <2>1, <2>2
  <1>7. Max({visits[v].started, LatestAuthorized(v)}) = LatestAuthorized(v)
    <2>. DEFINE P == {visits[v].started, LatestAuthorized(v)}
    <2>1. \A x \in P : (\A y \in P : x >= y) => x = LatestAuthorized(v)
      BY <1>5, <1>6
    <2>2. \E x \in P : \A y \in P : x >= y
      BY <1>5, <1>6
    <2>3. Max(P) \in P /\ \A y \in P : Max(P) >= y
      <3>. HIDE DEF P
      <3>. QED
        BY <2>2 DEF Max
    <2>. QED
      BY <2>1, <2>3
  <1>. QED
    BY <1>5, <1>6, <1>7

\* What the matching accepts fits the visit in time and network.
LEMMA MatchFits ==
  ASSUME VisitsInv, AuthsInv, NEW v \in DOMAIN visits, NEW ev \in Evidence
  PROVE  LET match == MatchOffline(ev, v)
         IN  /\ match.closed = None => match.reason \in {"stale_or_ambiguous", "ssid_changed"}
             /\ match.closed # None =>
                  /\ match.closed \in Int /\ match.source \in {"controller", "received"}
                  /\ match.closed >= visits[v].started
                  /\ \A a \in AuthsOf(v) : a.at <= match.closed
                  /\ Agrees(visits[v], AuthsOf(v), ev.ssid)
  <1>. DEFINE floor == LatestAuthorized(v)
              match == MatchOffline(ev, v)
  <1>1. /\ floor \in Nat /\ visits[v].started <= floor /\ visits[v].started \in Nat
        /\ \A a \in AuthsOf(v) : a.at <= floor /\ a.at \in Nat
        /\ Max({visits[v].started, LatestAuthorized(v)}) = floor
    BY Latest, VisitRows DEF VisitType
  <1>2. ev.controller \in Int \cup {None} /\ ev.received \in Int \cup {None}
    BY EvidenceAssumption
  <1>3. \/ /\ match.closed \in Int /\ match.closed >= floor /\ match.source \in {"controller", "received"}
           /\ SsidIsSafe(v, ev.ssid)
        \/ match.closed = None /\ match.reason \in {"stale_or_ambiguous", "ssid_changed"}
    <2>1. match.closed \in Int \/ match.closed = None
      BY <1>2 DEF MatchOffline, Rejected
    <2>. QED
      BY <1>1, <1>2, NoneAssumption DEF MatchOffline, Rejected
  <1>4. SsidIsSafe(v, ev.ssid) => Agrees(visits[v], AuthsOf(v), ev.ssid)
    BY DEF SsidIsSafe, KnownSsids, Agrees
  <1>. HIDE DEF match, floor
  <1>5. match.closed \in Int /\ match.closed >= floor =>
          match.closed >= visits[v].started /\ \A a \in AuthsOf(v) : a.at <= match.closed
    BY <1>1
  <1>. QED
    BY <1>3, <1>4, <1>5, NoneAssumption DEF match

-----------------------------------------------------------------------------
(* Changes of the tables *)

TablesInv == VisitsInv /\ AuthsInv /\ EventsInv /\ ClosesInv

\* A row that closes nothing.
LEMMA OtherOutcome ==
  ASSUME TablesInv, NEW e \in Event, events[e].result # "closed", NEW row, RowOk(row), row.result # "closed",
         events' = [events EXCEPT ![e] = row], UNCHANGED <<visits, auths>>
  PROVE  TablesInv'
  <1>1. DOMAIN events' = Event /\ events'[e] = row /\ \A f \in Event : f # e => events'[f] = events[f]
    BY DEF TablesInv, EventsInv
  <1>2. VisitsInv' /\ AuthsInv'
    BY DEF TablesInv, VisitsInv, AuthsInv, AuthsOf
  <1>3. EventsInv'
    BY <1>1 DEF TablesInv, EventsInv
  <1>4. ClosesInv'
    <2>1. ASSUME NEW v \in DOMAIN visits, visits[v].status = "closed"
          PROVE  /\ visits[v].event \in Event
                 /\ events'[visits[v].event].result = "closed" /\ events'[visits[v].event].visit = v
                 /\ Fits(visits[v], events'[visits[v].event], AuthsOf(v))
      <3>1. /\ visits[v].event \in Event /\ events[visits[v].event].result = "closed"
            /\ events[visits[v].event].visit = v
            /\ Fits(visits[v], events[visits[v].event], AuthsOf(v))
        BY <2>1 DEF TablesInv, ClosesInv
      <3>. QED
        BY <1>1, <3>1
    <2>. QED
      BY <2>1 DEF ClosesInv, AuthsOf
  <1>. QED
    BY <1>2, <1>3, <1>4 DEF TablesInv

\* What a close leaves of the visit's row.
LEMMA ClosedRow ==
  ASSUME VisitsInv, NEW v \in DOMAIN visits, NEW e \in Event, NEW closed \in Int,
         NEW source \in {"controller", "received"}, NEW reason \in {"offline", "recovered"},
         visits' = Closed(v, closed, source, reason, e)
  PROVE  \E w \in VisitType :
           /\ visits' = [visits EXCEPT ![v] = w]
           /\ w.client = visits[v].client /\ w.ssid = visits[v].ssid /\ w.started = visits[v].started
           /\ w.created = visits[v].created /\ w.device = visits[v].device
           /\ w.status = "closed" /\ w.closed = closed /\ w.reason = reason /\ w.event = e
  <1>. DEFINE w == [visits[v] EXCEPT !.status = "closed", !.closed = closed, !.source = source,
                                     !.reason = reason, !.event = e]
  <1>1. visits[v] \in VisitType
    BY VisitRows
  <1>2. visits' = [visits EXCEPT ![v] = w]
    BY DEF Closed
  <1>3. /\ w \in VisitType /\ w.client = visits[v].client /\ w.ssid = visits[v].ssid
        /\ w.started = visits[v].started /\ w.created = visits[v].created /\ w.device = visits[v].device
        /\ w.status = "closed" /\ w.closed = closed /\ w.reason = reason /\ w.event = e
    BY <1>1 DEF VisitType
  <1>. HIDE DEF w
  <1>. QED
    BY <1>2, <1>3

\* One row of a visit is replaced.
LEMMA OneVisit ==
  ASSUME VisitsInv, NEW v \in DOMAIN visits, NEW w \in VisitType, visits' = [visits EXCEPT ![v] = w]
  PROVE  /\ visits' \in Seq(VisitType) /\ DOMAIN visits' = DOMAIN visits
         /\ visits'[v] = w /\ \A u \in DOMAIN visits : u # v => visits'[u] = visits[u]
  <1>1. visits \in Seq(VisitType) /\ v \in 1 .. Len(visits)
    BY VisitRows DEF VisitsInv, Domain
  <1>2. visits' \in Seq(VisitType)
    BY <1>1, ExceptSeq
  <1>. QED
    BY <1>1, <1>2

\* An event that has closed nothing closes an open visit that it fits.
LEMMA Closing ==
  ASSUME TablesInv, NEW v \in DOMAIN visits, visits[v].status = "open",
         NEW e \in Event, events[e].result # "closed",
         NEW row, RowOk(row), row.result = "closed", row.visit = v,
         NEW closed \in Int, NEW source \in {"controller", "received"}, NEW reason \in {"offline", "recovered"},
         closed >= visits[v].started, \A a \in AuthsOf(v) : a.at <= closed,
         Agrees(visits[v], AuthsOf(v), row.evidence.ssid),
         reason = "offline" /\ row.until # None => visits[v].created <= row.until,
         reason = "recovered" => row.evidence.controller = closed,
         events' = [events EXCEPT ![e] = row], visits' = Closed(v, closed, source, reason, e), UNCHANGED auths
  PROVE  TablesInv'
  <1>0. VisitsInv /\ AuthsInv /\ EventsInv /\ ClosesInv
    BY DEF TablesInv
  <1>1. PICK w \in VisitType :
          /\ visits' = [visits EXCEPT ![v] = w]
          /\ w.client = visits[v].client /\ w.ssid = visits[v].ssid /\ w.started = visits[v].started
          /\ w.created = visits[v].created /\ w.device = visits[v].device
          /\ w.status = "closed" /\ w.closed = closed /\ w.reason = reason /\ w.event = e
    BY <1>0, ClosedRow
  <1>2. /\ visits' \in Seq(VisitType) /\ DOMAIN visits' = DOMAIN visits
        /\ visits'[v] = w /\ \A u \in DOMAIN visits : u # v => visits'[u] = visits[u]
    BY <1>0, <1>1, OneVisit
  <1>3. DOMAIN events' = Event /\ events'[e] = row /\ \A f \in Event : f # e => events'[f] = events[f]
    BY <1>0 DEF EventsInv
  <1>4. \A u : AuthsOf(u)' = AuthsOf(u)
    BY DEF AuthsOf
  <1>5. VisitsInv'
    BY <1>0, <1>1, <1>2, <1>4 DEF VisitsInv
  <1>6. AuthsInv'
    BY <1>0, <1>2 DEF AuthsInv
  <1>7. EventsInv'
    <2>1. ASSUME NEW f \in Event, events'[f].result = "closed"
          PROVE  events'[f].visit \in DOMAIN visits' /\ visits'[events'[f].visit].event = f
      <3>1. CASE f = e
        BY <1>1, <1>2, <1>3, <3>1
      <3>2. CASE f # e
        <4>1. events'[f] = events[f] /\ events[f].visit \in DOMAIN visits /\ visits[events[f].visit].event = f
          BY <1>0, <1>3, <2>1, <3>2 DEF EventsInv
        <4>2. visits[v].event = None /\ f # None
          BY <1>0, StoreAssumption, NoneAssumption DEF VisitsInv
        <4>3. events[f].visit # v
          BY <4>1, <4>2
        <4>. QED
          BY <1>2, <4>1, <4>3
      <3>. QED
        BY <3>1, <3>2
    <2>. QED
      BY <1>0, <1>3, <2>1 DEF EventsInv
  <1>8. ClosesInv'
    <2>1. ASSUME NEW u \in DOMAIN visits', visits'[u].status = "closed"
          PROVE  /\ visits'[u].event \in Event
                 /\ events'[visits'[u].event].result = "closed" /\ events'[visits'[u].event].visit = u
                 /\ Fits(visits'[u], events'[visits'[u].event], AuthsOf(u))
      <3>1. CASE u = v
        BY <1>1, <1>2, <1>3, <3>1 DEF Fits, Agrees
      <3>2. CASE u # v
        <4>1. visits'[u] = visits[u] /\ u \in DOMAIN visits
          BY <1>2, <3>2
        <4>2. /\ visits[u].event \in Event
              /\ events[visits[u].event].result = "closed" /\ events[visits[u].event].visit = u
              /\ Fits(visits[u], events[visits[u].event], AuthsOf(u))
          BY <1>0, <2>1, <4>1 DEF ClosesInv
        <4>3. events'[visits[u].event] = events[visits[u].event]
          BY <1>3, <4>2
        <4>. QED
          BY <4>1, <4>2, <4>3
      <3>. QED
        BY <3>1, <3>2
    <2>. QED
      BY <1>4, <2>1 DEF ClosesInv
  <1>. QED
    BY <1>5, <1>6, <1>7, <1>8 DEF TablesInv

\* The visit that a writer picks among the open ones.
LEMMA PickedVisit ==
  ASSUME VisitsInv, NEW c, NEW open \in SUBSET OpenVisit(c), open # {}
  PROVE  /\ Max(open) \in open /\ Max(open) \in DOMAIN visits
         /\ visits[Max(open)].status = "open" /\ visits[Max(open)].client = c
  <1>1. open \subseteq DOMAIN visits /\ \A v \in open : visits[v].status = "open" /\ visits[v].client = c
    BY DEF OpenVisit
  <1>2. DOMAIN visits \subseteq 0 .. Len(visits) /\ Len(visits) \in Nat
    BY VisitRows DEF Domain
  <1>3. Max(open) \in open
    BY <1>1, <1>2, MaxOfSet
  <1>. QED
    BY <1>1, <1>3

\* A start is recorded with an open visit, or with a new one.
LEMMA StartWritten ==
  ASSUME TablesInv, NEW r \in Run, call[r] \in CallType, CreateOrReuseStart(r), UNCHANGED events
  PROVE  /\ TablesInv'
         /\ DOMAIN visits \subseteq DOMAIN visits' /\ auths \subseteq auths' /\ \E a \in auths' : a.run = r
         /\ \A v \in DOMAIN visits : visits'[v] = visits[v]
  <1>. DEFINE c == RunOf[r].client
              open == OpenVisit(c)
              v == IF open = {} THEN Len(visits) + 1 ELSE Max(open)
              A == Authorization(r, v)
  <1>0. VisitsInv /\ AuthsInv /\ EventsInv /\ ClosesInv
    BY DEF TablesInv
  <1>1. CASE \E a \in auths : a.run = r
    <2>1. UNCHANGED <<visits, auths>>
      BY <1>1 DEF CreateOrReuseStart
    <2>. QED
      BY <1>1, <2>1 DEF TablesInv, VisitsInv, AuthsInv, EventsInv, ClosesInv, AuthsOf
  <1>2. CASE ~\E a \in auths : a.run = r
    <2>1. /\ visits' = IF open = {} THEN Append(visits, NewVisit(r)) ELSE visits
          /\ auths' = auths \cup {A}
      BY <1>2 DEF CreateOrReuseStart
    <2>2. Domain /\ visits \in Seq(VisitType)
      BY <1>0, VisitRows DEF VisitsInv
    <2>3. /\ NewVisit(r) \in VisitType /\ NewVisit(r).client = c /\ NewVisit(r).started = call[r].at
          /\ NewVisit(r).status = "open" /\ NewVisit(r).closed = None /\ NewVisit(r).event = None
          /\ NewVisit(r).reason = None
      BY StoreAssumption DEF NewVisit, VisitType, CallType
    <2>4. v \in Nat /\ (open # {} => v \in open /\ v \in DOMAIN visits /\ visits[v].status = "open")
      <3>1. CASE open = {}
        BY <2>2, <3>1 DEF Domain
      <3>2. CASE open # {}
        BY <1>0, <2>2, <3>2, PickedVisit DEF Domain
      <3>. QED
        BY <3>1, <3>2
    <2>5. /\ A \in AuthType /\ A.visit = v /\ A.run = r /\ A.at = call[r].at
      <3>. HIDE DEF v
      <3>. QED
        BY <2>4, StoreAssumption DEF Authorization, AuthType, CallType
    <2>6. /\ visits' \in Seq(VisitType) /\ DOMAIN visits \subseteq DOMAIN visits'
          /\ DOMAIN visits' = DOMAIN visits \cup {v} /\ v \in DOMAIN visits'
          /\ \A u \in DOMAIN visits : visits'[u] = visits[u]
          /\ v \notin DOMAIN visits => visits'[v] = NewVisit(r)
          /\ visits'[v].status = "open" /\ visits'[v].client = c
      <3>1. CASE open = {}
        <4>1. visits' = Append(visits, NewVisit(r)) /\ v = Len(visits) + 1
          BY <2>1, <3>1
        <4>2. /\ visits' \in Seq(VisitType) /\ Len(visits') = Len(visits) + 1
              /\ \A u \in 1 .. Len(visits) : visits'[u] = visits[u]
              /\ visits'[Len(visits) + 1] = NewVisit(r) /\ DOMAIN visits' = 1 .. Len(visits')
          BY <2>2, <2>3, <4>1, AppendProperties
        <4>. HIDE DEF v, open
        <4>. QED
          BY <2>2, <2>3, <4>1, <4>2 DEF Domain
      <3>2. CASE open # {}
        <4>1. visits' = visits /\ v \in DOMAIN visits /\ visits[v].status = "open" /\ visits[v].client = c
          BY <2>1, <2>4, <3>2 DEF OpenVisit
        <4>. HIDE DEF v, open
        <4>. QED
          BY <2>2, <4>1
      <3>. QED
        BY <3>1, <3>2
    <2>7. open = {} => \A u \in DOMAIN visits : ~(visits[u].client = c /\ visits[u].status = "open")
      BY DEF OpenVisit
    <2>8. open = {} => v \notin DOMAIN visits
      BY <2>2 DEF Domain
    <2>. HIDE DEF A, v, open, c
    <2>9. \A u : u # v => AuthsOf(u)' = AuthsOf(u)
      BY <2>1, <2>5 DEF AuthsOf
    <2>10. \A u : AuthsOf(u) \subseteq AuthsOf(u)' /\ (u = v => A \in AuthsOf(u)')
      BY <2>1, <2>5 DEF AuthsOf
    <2>11. VisitsInv'
      <3>1. ASSUME NEW u \in DOMAIN visits' PROVE \E a \in AuthsOf(u)' : a.at >= visits'[u].started
        <4>1. CASE u \in DOMAIN visits
          <5>1. PICK a \in AuthsOf(u) : a.at >= visits[u].started
            BY <1>0, <4>1 DEF VisitsInv
          <5>2. a \in AuthsOf(u)'
            BY <2>10, <5>1
          <5>. QED
            BY <2>6, <4>1, <5>1, <5>2
        <4>2. CASE u \notin DOMAIN visits
          <5>1. u = v /\ visits'[u] = NewVisit(r)
            BY <2>6, <4>2
          <5>2. A.at >= NewVisit(r).started
            BY <2>3, <2>5, StoreAssumption DEF AuthType
          <5>. QED
            BY <2>10, <5>1, <5>2
        <4>. QED
          BY <4>1, <4>2
      <3>2. \A u \in DOMAIN visits' : visits'[u].status = "open" =>
              visits'[u].closed = None /\ visits'[u].event = None /\ visits'[u].reason = None
        BY <1>0, <2>3, <2>6 DEF VisitsInv
      <3>3. ASSUME NEW u \in DOMAIN visits', NEW w \in DOMAIN visits', visits'[u].status = "open",
                   visits'[w].status = "open", visits'[u].client = visits'[w].client
            PROVE  u = w
        <4>1. CASE u \in DOMAIN visits /\ w \in DOMAIN visits
          BY <1>0, <2>6, <3>3, <4>1 DEF VisitsInv
        <4>2. CASE ~(u \in DOMAIN visits /\ w \in DOMAIN visits)
          <5>1. open = {} /\ visits'[u].client = c /\ visits'[w].client = c
            BY <2>4, <2>6, <3>3, <4>2
          <5>. QED
            BY <2>6, <2>7, <3>3, <5>1
        <4>. QED
          BY <4>1, <4>2
      <3>. QED
        BY <2>6, <3>1, <3>2, <3>3 DEF VisitsInv
    <2>12. AuthsInv'
      BY <1>0, <1>2, <2>1, <2>5, <2>6 DEF AuthsInv
    <2>13. EventsInv'
      BY <1>0, <2>6 DEF EventsInv
    <2>14. ClosesInv'
      <3>1. ASSUME NEW u \in DOMAIN visits', visits'[u].status = "closed"
            PROVE  /\ visits'[u].event \in Event
                   /\ events'[visits'[u].event].result = "closed" /\ events'[visits'[u].event].visit = u
                   /\ Fits(visits'[u], events'[visits'[u].event], AuthsOf(u)')
        <4>1. u # v /\ u \in DOMAIN visits
          BY <2>6, <3>1
        <4>2. visits'[u] = visits[u] /\ AuthsOf(u)' = AuthsOf(u)
          BY <2>6, <2>9, <4>1
        <4>. QED
          BY <1>0, <3>1, <4>1, <4>2 DEF ClosesInv
      <3>. QED
        BY <3>1 DEF ClosesInv
    <2>. QED
      BY <2>1, <2>5, <2>6, <2>11, <2>12, <2>13, <2>14 DEF TablesInv
  <1>. QED
    BY <1>1, <1>2

\* _finalize_or_reject closes the visit only with an event that fits it.
LEMMA Finalized ==
  ASSUME TablesInv, NEW e \in Event, events[e].result # "closed",
         NEW row \in EventType, row.evidence \in Evidence,
         NEW v \in DOMAIN visits, visits[v].status = "open",
         row.until # None => visits[v].created <= row.until,
         FinalizeOrReject(e, row, v), UNCHANGED auths
  PROVE  TablesInv'
  <1>. DEFINE match == MatchOffline(row.evidence, v)
              rejected == [row EXCEPT !.result = "unmatched", !.reason = match.reason]
              closed == [row EXCEPT !.result = "closed", !.reason = None, !.visit = v]
  <1>1. /\ match.closed = None => match.reason \in {"stale_or_ambiguous", "ssid_changed"}
        /\ match.closed # None =>
             /\ match.closed \in Int /\ match.source \in {"controller", "received"}
             /\ match.closed >= visits[v].started
             /\ \A a \in AuthsOf(v) : a.at <= match.closed
             /\ Agrees(visits[v], AuthsOf(v), row.evidence.ssid)
    BY MatchFits DEF TablesInv
  <1>2. v \in Nat
    BY VisitRows DEF Domain, TablesInv
  <1>3. match.closed = None =>
          events' = [events EXCEPT ![e] = rejected] /\ UNCHANGED visits
    BY DEF FinalizeOrReject
  <1>4. match.closed # None =>
          events' = [events EXCEPT ![e] = closed]
          /\ visits' = Closed(v, match.closed, match.source, "offline", e)
    BY DEF FinalizeOrReject
  <1>. HIDE DEF match
  <1>5. CASE match.closed = None
    <2>1. RowOk(rejected) /\ rejected.result = "unmatched"
      BY <1>1, <1>5 DEF EventType, RowOk
    <2>. HIDE DEF rejected
    <2>. QED
      BY <1>3, <1>5, <2>1, OtherOutcome
  <1>6. CASE match.closed # None
    <2>1. /\ RowOk(closed) /\ closed.result = "closed" /\ closed.visit = v
          /\ closed.evidence = row.evidence /\ closed.until = row.until
      BY <1>2 DEF EventType, RowOk
    <2>. HIDE DEF closed
    <2>2. Agrees(visits[v], AuthsOf(v), closed.evidence.ssid) /\ (closed.until # None => visits[v].created <= closed.until)
      BY <1>1, <1>6, <2>1
    <2>. QED
      BY <1>1, <1>4, <1>6, <2>1, <2>2, Closing
  <1>. QED
    BY <1>5, <1>6

LEMMA LineApplied ==
  ASSUME TablesInv, NEW e \in Event, NEW ev \in Evidence, clock \in Nat, ApplyJournalLine(e, ev), UNCHANGED auths
  PROVE  TablesInv' /\ DOMAIN visits' = DOMAIN visits
  <1>. DEFINE open == OpenVisit(ev.client)
              row == [NoRow EXCEPT !.evidence = ev]
              invalid == [row EXCEPT !.result = "invalid"]
              pending == [row EXCEPT !.result = "pending_match", !.reason = "no_open_visit",
                                     !.until = clock + Grace]
  <1>1. row \in EventType /\ row.evidence = ev /\ row.until = None
    BY DEF NoRow, EventType
  <1>. HIDE DEF row
  <1>2. RowOk(invalid) /\ invalid.result = "invalid"
    BY <1>1 DEF RowOk, EventType
  <1>3. RowOk(pending) /\ pending.result = "pending_match"
    <2>1. clock + Grace \in Nat
      BY StoreAssumption
    <2>. QED
      BY <1>1, <2>1 DEF RowOk, EventType
  <1>4. \/ UNCHANGED <<visits, events>>
        \/ /\ events[e].result = "none"
           /\ \/ events' = [events EXCEPT ![e] = invalid] /\ UNCHANGED visits
              \/ events' = [events EXCEPT ![e] = pending] /\ UNCHANGED visits
              \/ open # {} /\ FinalizeOrReject(e, row, Max(open))
    BY DEF ApplyJournalLine, row
  <1>. HIDE DEF invalid, pending
  <1>5. CASE UNCHANGED <<visits, events>>
    BY <1>5 DEF TablesInv, VisitsInv, AuthsInv, EventsInv, ClosesInv, AuthsOf
  <1>6. CASE events[e].result = "none" /\ events' = [events EXCEPT ![e] = invalid] /\ UNCHANGED visits
    BY <1>2, <1>6, OtherOutcome
  <1>7. CASE events[e].result = "none" /\ events' = [events EXCEPT ![e] = pending] /\ UNCHANGED visits
    BY <1>3, <1>7, OtherOutcome
  <1>8. CASE events[e].result = "none" /\ open # {} /\ FinalizeOrReject(e, row, Max(open))
    <2>1. Max(open) \in DOMAIN visits /\ visits[Max(open)].status = "open"
      BY <1>8, PickedVisit DEF TablesInv
    <2>2. TablesInv'
      BY <1>1, <1>8, <2>1, Finalized
    <2>. QED
      BY <1>8, <2>2 DEF FinalizeOrReject, Closed
  <1>. QED
    BY <1>4, <1>5, <1>6, <1>7, <1>8

LEMMA RowRetried ==
  ASSUME TablesInv, NEW e \in Event, events[e].result = "pending_match", RetryPendingRow(e), UNCHANGED auths
  PROVE  TablesInv' /\ DOMAIN visits' = DOMAIN visits
  <1>. DEFINE row == events[e]
              open == {v \in OpenVisit(row.evidence.client) : visits[v].created <= row.until}
              result == IF clock >= row.until THEN "unmatched" ELSE "pending_match"
              later == [row EXCEPT !.result = result]
  <1>1. RowOk(row) /\ row \in EventType /\ row.evidence \in Evidence
    BY DEF TablesInv, EventsInv, RowOk
  <1>2. CASE open # {}
    <2>1. Max(open) \in open /\ Max(open) \in DOMAIN visits /\ visits[Max(open)].status = "open"
      BY <1>2, PickedVisit DEF TablesInv
    <2>2. FinalizeOrReject(e, row, Max(open)) /\ visits[Max(open)].created <= row.until
      BY <1>2, <2>1 DEF RetryPendingRow
    <2>3. TablesInv'
      BY <1>1, <2>1, <2>2, Finalized
    <2>. QED
      BY <2>2, <2>3 DEF FinalizeOrReject, Closed
  <1>3. CASE open = {}
    <2>1. events' = [events EXCEPT ![e] = later] /\ UNCHANGED visits
      BY <1>3 DEF RetryPendingRow, TablesInv, EventsInv
    <2>2. result \in {"unmatched", "pending_match"}
      OBVIOUS
    <2>. HIDE DEF result
    <2>3. RowOk(later) /\ later.result # "closed"
      BY <1>1, <2>2 DEF RowOk, EventType
    <2>. HIDE DEF later
    <2>. QED
      BY <2>1, <2>3, OtherOutcome
  <1>. QED
    BY <1>2, <1>3

\* The recovery tool takes the earliest event that is not older than any authorization of the visit.
LEMMA VisitRecovered ==
  ASSUME TablesInv, NEW v \in DOMAIN visits, Recover(v)
  PROVE  TablesInv' /\ DOMAIN visits' = DOMAIN visits
  <1>. DEFINE e == Min(Earliest(v))
              row == events[e]
              closed == [row EXCEPT !.result = "closed", !.reason = None, !.visit = v]
              time == row.evidence.controller
  <1>1. /\ visits[v].status = "open" /\ Recoverable(v) # {} /\ UNCHANGED auths
        /\ events' = [events EXCEPT ![e].result = "closed", ![e].reason = None, ![e].visit = v]
        /\ visits' = Closed(v, time, "controller", "recovered", e)
    BY DEF Recover
  <1>2. \A f \in Recoverable(v) :
          /\ f \in Event /\ f \in Nat /\ events[f].result = "unmatched"
          /\ events[f].evidence.controller \in Int
          /\ events[f].evidence.controller >= LatestAuthorized(v)
          /\ SsidIsSafe(v, events[f].evidence.ssid)
    <2>1. \A f \in Event : events[f].result = "unmatched" => events[f].evidence \in Evidence
      BY DEF TablesInv, EventsInv, RowOk
    <2>. QED
      BY <2>1, StoreAssumption, EvidenceAssumption DEF Recoverable
  <1>3. e \in Recoverable(v)
    <2>. DEFINE times == {events[f].evidence.controller : f \in Recoverable(v)}
    <2>1. times \in SUBSET Nat /\ times # {}
      <3>1. LatestAuthorized(v) \in Nat
        BY Latest DEF TablesInv
      <3>. QED
        BY <1>1, <1>2, <3>1
    <2>2. PICK t \in times : \A s \in times : t <= s
      <3>. HIDE DEF times
      <3>. QED
        BY <2>1, MinOfSet
    <2>3. Earliest(v) # {}
      BY <2>2 DEF Earliest
    <2>4. Earliest(v) \in SUBSET Nat /\ Earliest(v) \subseteq Recoverable(v)
      BY <1>2 DEF Earliest
    <2>. QED
      BY <2>3, <2>4, MinOfSet
  <1>. HIDE DEF e
  <1>4. /\ e \in Event /\ row.result = "unmatched" /\ time \in Int
        /\ time >= LatestAuthorized(v) /\ SsidIsSafe(v, row.evidence.ssid)
    BY <1>2, <1>3
  <1>5. /\ LatestAuthorized(v) \in Nat /\ visits[v].started <= LatestAuthorized(v)
        /\ \A a \in AuthsOf(v) : a.at <= LatestAuthorized(v) /\ a.at \in Nat
        /\ visits[v].started \in Nat /\ v \in Nat
    <2>1. VisitsInv /\ AuthsInv
      BY DEF TablesInv
    <2>2. visits[v].started \in Nat /\ v \in Nat
      BY <2>1, VisitRows DEF VisitType, Domain
    <2>. QED
      BY <2>1, <2>2, Latest
  <1>6. time >= visits[v].started /\ \A a \in AuthsOf(v) : a.at <= time
    <2>. HIDE DEF time
    <2>. QED
      BY <1>4, <1>5
  <1>7. RowOk(row)
    BY <1>4 DEF TablesInv, EventsInv
  <1>8. events' = [events EXCEPT ![e] = closed]
    BY <1>1, <1>4 DEF TablesInv, EventsInv
  <1>9. /\ RowOk(closed) /\ closed.result = "closed" /\ closed.visit = v
        /\ closed.evidence = row.evidence /\ closed.evidence.controller = time
    BY <1>4, <1>5, <1>7 DEF RowOk, EventType
  <1>10. Agrees(visits[v], AuthsOf(v), row.evidence.ssid)
    BY <1>4 DEF SsidIsSafe, KnownSsids, Agrees
  <1>. HIDE DEF closed, row, time
  <1>11. row.result # "closed" /\ events[e].result # "closed"
    BY <1>4 DEF row
  <1>12. Agrees(visits[v], AuthsOf(v), closed.evidence.ssid)
    BY <1>9, <1>10
  <1>13. TablesInv'
    BY <1>1, <1>4, <1>6, <1>8, <1>9, <1>11, <1>12, Closing
  <1>. QED
    BY <1>1, <1>13 DEF Closed

-----------------------------------------------------------------------------
(* Every step preserves the invariant *)

LEMMA Rest ==
  ASSUME IInv, TablesInv', DOMAIN visits \subseteq DOMAIN visits', auths \subseteq auths',
         clock' \in 0 .. Horizon, UNCHANGED <<call, accepting, link>>
  PROVE  IInv'
  BY DEF IInv, TablesInv, CallsInv, LinkInv, ClockInv, NoLink

\* The tables are as they were.
LEMMA SameTables ==
  ASSUME IInv, UNCHANGED <<visits, auths, events>>
  PROVE  TablesInv'
  BY DEF IInv, TablesInv, VisitsInv, AuthsInv, EventsInv, ClosesInv, AuthsOf

\* One call moves on; only one whose run is on record reports that it was stored.
LEMMA CallMoves ==
  ASSUME IInv, NEW r \in Run, NEW c \in CallType, call' = [call EXCEPT ![r] = c],
         auths \subseteq auths', c.status = "stored" => \E a \in auths' : a.run = r
  PROVE  CallsInv'
  BY DEF IInv, CallsInv

LEMMA DoneType ==
  ASSUME NEW status \in {"none", "stored", "failed"}
  PROVE  Done(status) \in CallType /\ Done(status).status = status /\ Done(status).pc = "done"
  <1>1. NoCall \in CallType
    BY StoreAssumption DEF NoCall, CallType
  <1>. QED
    BY <1>1 DEF Done, CallType

LEMMA SubmitterInv ==
  ASSUME IInv, NEW r \in Run, Submitter(r)
  PROVE  IInv'
  <1>0. /\ call[r] \in CallType /\ call[r].status \in {"none", "stored", "failed"}
        /\ clock \in 0 .. Horizon /\ clock \in Nat /\ MaxTime \in Nat
        /\ TablesInv
    BY StoreAssumption DEF IInv, TablesInv, CallsInv, CallType, ClockInv, Horizon
  <1>1. ASSUME NEW status \in {"none", "failed"}, Finish(r, status) PROVE CallsInv' \/ ~(auths \subseteq auths')
    BY <1>1, DoneType, CallMoves DEF Finish
  <1>2. ASSUME UNCHANGED <<visits, auths, events, clock, accepting, link>>, CallsInv' PROVE IInv'
    BY <1>2, SameTables DEF IInv, TablesInv, LinkInv, ClockInv
  <1>3. ASSUME auths \subseteq auths', NEW c \in CallType, c.status # "stored",
               call' = [call EXCEPT ![r] = c]
        PROVE  CallsInv'
    BY <1>3, CallMoves
  <1>4. CASE SubmitAuthorized(r)
    <2>. DEFINE c == [NoCall EXCEPT !.pc = "active", !.at = clock]
    <2>1. NoCall \in CallType /\ NoCall.status = "none" /\ clock \in 0 .. MaxTime
      BY <1>0, <1>4, StoreAssumption DEF NoCall, CallType, SubmitAuthorized
    <2>2. c \in CallType /\ c.status = "none"
      BY <2>1 DEF CallType
    <2>. HIDE DEF c
    <2>3. call' = [call EXCEPT ![r] = c] \/ call' = [call EXCEPT ![r] = Done("failed")]
      BY <1>4 DEF SubmitAuthorized, c
    <2>4. CallsInv'
      BY <1>3, <1>4, <2>2, <2>3, DoneType DEF SubmitAuthorized
    <2>. QED
      BY <1>2, <1>4, <2>4 DEF SubmitAuthorized
  <1>5. CASE BeginAttempt(r)
    <2>. DEFINE c == [call[r] EXCEPT !.pc = "writing", !.attempt = @ + 1, !.now = clock]
    <2>1. c \in CallType /\ c.status = call[r].status
      <3>1. call[r].attempt + 1 \in Nat
        BY <1>0 DEF CallType
      <3>. QED
        BY <1>0, <3>1 DEF CallType
    <2>2. call' = [call EXCEPT ![r] = c] \/ call' = [call EXCEPT ![r] = Done("failed")]
      BY <1>5 DEF BeginAttempt, Finish, IInv, CallsInv
    <2>3. call[r].status = "stored" => \E a \in auths' : a.run = r
      BY <1>5 DEF BeginAttempt, IInv, CallsInv
    <2>. HIDE DEF c
    <2>4. CallsInv'
      BY <1>3, <1>5, <2>1, <2>2, <2>3, DoneType, CallMoves DEF BeginAttempt
    <2>. QED
      BY <1>2, <1>5, <2>4 DEF BeginAttempt
  <1>6. ASSUME CreateOrReuseStart(r), CallsInv', UNCHANGED <<clock, events, accepting, link>>
        PROVE  IInv'
    <2>1. TablesInv' /\ DOMAIN visits \subseteq DOMAIN visits'
      BY <1>0, <1>6, StartWritten
    <2>. QED
      BY <1>6, <2>1 DEF IInv, TablesInv, LinkInv, NoLink, ClockInv
  <1>7. CASE StartCommits(r)
    <2>1. auths \subseteq auths' /\ \E a \in auths' : a.run = r
      BY <1>0, <1>7, StartWritten DEF StartCommits
    <2>2. CallsInv'
      BY <1>7, <2>1, DoneType, CallMoves DEF StartCommits, Finish
    <2>. QED
      BY <1>6, <1>7, <2>2 DEF StartCommits
  <1>8. CASE StartIsBusy(r)
    <2>. DEFINE c == [call[r] EXCEPT !.pc = "active"]
    <2>1. auths \subseteq auths'
      BY <1>0, <1>8, StartWritten DEF StartIsBusy
    <2>2. c \in CallType /\ c.status = call[r].status
      BY <1>0 DEF CallType
    <2>3. call' = [call EXCEPT ![r] = c] \/ call' = [call EXCEPT ![r] = Done("failed")]
      BY <1>8 DEF StartIsBusy, AfterBusy, Finish, IInv, CallsInv
    <2>4. call[r].status = "stored" => \E a \in auths' : a.run = r
      BY <2>1 DEF IInv, CallsInv
    <2>. HIDE DEF c
    <2>5. CallsInv'
      BY <1>3, <2>1, <2>2, <2>3, <2>4, DoneType, CallMoves
    <2>. QED
      BY <1>2, <1>6, <1>8, <2>5 DEF StartIsBusy
  <1>9. CASE StartFails(r)
    BY <1>1, <1>2, <1>9 DEF StartFails
  <1>. QED
    BY <1>4, <1>5, <1>7, <1>8, <1>9 DEF Submitter

LEMMA LinkerInv ==
  ASSUME IInv,
         \/ \E v \in DOMAIN visits, d \in Device : LookUp(v, d)
         \/ \E stored \in BOOLEAN : RecordReconciliationAttempt(stored)
  PROVE  IInv'
  <1>1. ASSUME NEW v \in DOMAIN visits, NEW d \in Device, LookUp(v, d) PROVE IInv'
    <2>1. /\ UNCHANGED <<clock, visits, auths, events, call, accepting>>
          /\ link' = [visit |-> v, device |-> d]
      BY <1>1 DEF LookUp
    <2>2. LinkInv' /\ CallsInv' /\ ClockInv'
      BY <2>1 DEF IInv, LinkInv, CallsInv, ClockInv
    <2>. QED
      BY <2>1, <2>2, SameTables DEF IInv, TablesInv
  <1>2. ASSUME NEW stored \in BOOLEAN, RecordReconciliationAttempt(stored) PROVE IInv'
    <2>0. /\ link.visit \in DOMAIN visits /\ link.device \in Device /\ link' = NoLink
          /\ UNCHANGED <<clock, auths, events, call, accepting>>
          /\ VisitsInv
      BY <1>2 DEF RecordReconciliationAttempt, IInv, LinkInv
    <2>1. CASE visits' = visits
      <3>1. LinkInv' /\ CallsInv' /\ ClockInv'
        BY <2>0, <2>1 DEF IInv, LinkInv, CallsInv, ClockInv
      <3>. QED
        BY <2>0, <2>1, <3>1, SameTables DEF IInv, TablesInv
    <2>2. CASE visits' = [visits EXCEPT ![link.visit].device = link.device]
      <3>1. PICK v \in DOMAIN visits, d \in Device : v = link.visit /\ d = link.device
        BY <2>0
      <3>. DEFINE w == [visits[v] EXCEPT !.device = d]
      <3>2. visits' = [visits EXCEPT ![v] = w]
        BY <2>2, <3>1
      <3>3. /\ w \in VisitType /\ w.client = visits[v].client /\ w.ssid = visits[v].ssid
            /\ w.started = visits[v].started /\ w.created = visits[v].created /\ w.status = visits[v].status
            /\ w.closed = visits[v].closed /\ w.reason = visits[v].reason /\ w.event = visits[v].event
        BY <2>0, VisitRows DEF VisitType
      <3>. HIDE DEF w
      <3>4. /\ visits' \in Seq(VisitType) /\ DOMAIN visits' = DOMAIN visits
            /\ visits'[v] = w /\ \A u \in DOMAIN visits : u # v => visits'[u] = visits[u]
        BY <2>0, <3>2, <3>3, OneVisit
      <3>5. \A u \in DOMAIN visits :
              /\ visits'[u].client = visits[u].client /\ visits'[u].ssid = visits[u].ssid
              /\ visits'[u].started = visits[u].started /\ visits'[u].created = visits[u].created
              /\ visits'[u].status = visits[u].status /\ visits'[u].closed = visits[u].closed
              /\ visits'[u].reason = visits[u].reason /\ visits'[u].event = visits[u].event
        BY <3>3, <3>4
      <3>6. \A u : AuthsOf(u)' = AuthsOf(u)
        BY <2>0 DEF AuthsOf
      <3>7. VisitsInv'
        BY <2>0, <3>4, <3>5, <3>6 DEF VisitsInv
      <3>8. AuthsInv' /\ EventsInv'
        BY <2>0, <3>4, <3>5 DEF IInv, AuthsInv, EventsInv
      <3>9. ClosesInv'
        <4>1. \A u \in DOMAIN visits : \A row, A : Fits(visits[u], row, A) => Fits(visits'[u], row, A)
          BY <3>5 DEF Fits, Agrees
        <4>. QED
          BY <2>0, <3>4, <3>5, <3>6, <4>1 DEF IInv, ClosesInv
      <3>10. LinkInv' /\ CallsInv' /\ ClockInv'
        BY <2>0 DEF IInv, LinkInv, CallsInv, ClockInv
      <3>. QED
        BY <3>7, <3>8, <3>9, <3>10 DEF IInv
    <2>. QED
      BY <1>2, <2>1, <2>2 DEF RecordReconciliationAttempt
  <1>. QED
    BY <1>1, <1>2

LEMMA ReaderInv ==
  ASSUME IInv,
         \/ \E e \in Event, ev \in Evidence : ReadLine(e, ev)
         \/ \E e \in Event : RetryPending(e)
         \/ \E v \in DOMAIN visits : Recover(v)
  PROVE  IInv'
  <1>0. TablesInv /\ clock \in Nat /\ clock \in 0 .. Horizon
    BY StoreAssumption DEF IInv, TablesInv, ClockInv, Horizon
  <1>1. ASSUME NEW e \in Event, NEW ev \in Evidence, ReadLine(e, ev) PROVE IInv'
    <2>1. ApplyJournalLine(e, ev) /\ UNCHANGED <<clock, auths, call, accepting, link>>
      BY <1>1 DEF ReadLine
    <2>2. TablesInv' /\ DOMAIN visits' = DOMAIN visits
      BY <1>0, <2>1, LineApplied
    <2>. QED
      BY <1>0, <2>1, <2>2, Rest
  <1>2. ASSUME NEW e \in Event, RetryPending(e) PROVE IInv'
    <2>1. /\ RetryPendingRow(e) /\ events[e].result = "pending_match"
          /\ UNCHANGED <<clock, auths, call, accepting, link>>
      BY <1>2 DEF RetryPending, PendingAfter
    <2>2. TablesInv' /\ DOMAIN visits' = DOMAIN visits
      BY <1>0, <2>1, RowRetried
    <2>. QED
      BY <1>0, <2>1, <2>2, Rest
  <1>3. ASSUME NEW v \in DOMAIN visits, Recover(v) PROVE IInv'
    <2>1. UNCHANGED <<clock, auths, call, accepting, link>>
      BY <1>3 DEF Recover
    <2>2. TablesInv' /\ DOMAIN visits' = DOMAIN visits
      BY <1>0, <1>3, VisitRecovered
    <2>. QED
      BY <1>0, <2>1, <2>2, Rest
  <1>. QED
    BY <1>1, <1>2, <1>3

\* The steps that leave the tables alone.
LEMMA OtherInv ==
  ASSUME IInv,
         \/ Tick \/ StopAccepting \/ BeginPass \/ \E early \in BOOLEAN : EndPass(early)
         \/ Restart \/ UNCHANGED vars
  PROVE  IInv'
  <1>1. UNCHANGED <<visits, auths, events>>
    BY DEF Tick, StopAccepting, BeginPass, EndPass, Restart, vars
  <1>2. TablesInv'
    BY <1>1, SameTables
  <1>3. ClockInv'
    <2>1. Horizon \in Nat /\ clock \in 0 .. Horizon /\ accepting \in BOOLEAN
      BY StoreAssumption DEF IInv, ClockInv, Horizon
    <2>2. CASE Tick
      BY <2>1, <2>2 DEF Tick, ClockInv, Horizon
    <2>3. CASE ~Tick
      BY <2>1, <2>3 DEF ClockInv, StopAccepting, BeginPass, EndPass, Restart, vars, Horizon
    <2>. QED
      BY <2>2, <2>3
  <1>4. LinkInv'
    BY <1>1 DEF IInv, LinkInv, NoLink, Tick, StopAccepting, BeginPass, EndPass, Restart, vars
  <1>5. CallsInv'
    <2>1. CASE UNCHANGED call
      BY <1>1, <2>1 DEF IInv, CallsInv
    <2>2. CASE Restart
      <3>1. Done("failed") \in CallType /\ Done("failed").status = "failed"
        BY DoneType
      <3>. QED
        BY <1>1, <2>2, <3>1 DEF IInv, CallsInv, Restart
    <2>. QED
      BY <2>1, <2>2 DEF Tick, StopAccepting, BeginPass, EndPass, vars
  <1>. QED
    BY <1>2, <1>3, <1>4, <1>5 DEF IInv, TablesInv

LEMMA InitInv == Init => IInv
  <1>. SUFFICES ASSUME Init PROVE IInv
    OBVIOUS
  <1>1. visits \in Seq(VisitType) /\ DOMAIN visits = {}
    BY DEF Init
  <1>2. VisitsInv /\ AuthsInv /\ ClosesInv
    BY <1>1 DEF Init, VisitsInv, AuthsInv, ClosesInv
  <1>3. EventsInv
    <2>1. RowOk(NoRow) /\ NoRow.result = "none"
      BY DEF NoRow, RowOk, EventType
    <2>. QED
      BY <2>1 DEF Init, EventsInv
  <1>4. CallsInv
    <2>1. NoCall \in CallType /\ NoCall.status = "none"
      BY StoreAssumption DEF NoCall, CallType
    <2>. QED
      BY <2>1 DEF Init, CallsInv
  <1>5. LinkInv /\ ClockInv
    BY StoreAssumption DEF Init, LinkInv, ClockInv, Horizon
  <1>. QED
    BY <1>2, <1>3, <1>4, <1>5 DEF IInv

LEMMA NextInv ==
  ASSUME IInv, [Next]_vars
  PROVE  IInv'
  BY SubmitterInv, LinkerInv, ReaderInv, OtherInv DEF Next

THEOREM Invariance == Spec => []IInv
  <1>1. Init => IInv
    BY InitInv
  <1>2. IInv /\ [Next]_vars => IInv'
    BY NextInv
  <1>. QED
    BY <1>1, <1>2, PTL DEF Spec

-----------------------------------------------------------------------------
(* Every start, close and event counts once *)

LEMMA AtMostOne ==
  ASSUME NEW S, \A x, y \in S : x = y
  PROVE  Cardinality(S) <= 1
  <1>1. CASE S = {}
    BY <1>1, FS_EmptySet
  <1>2. CASE S # {}
    <2>1. PICK x \in S : S = {x}
      BY <1>2
    <2>2. Cardinality({x}) = 1
      BY FS_Singleton
    <2>. QED
      BY <2>1, <2>2
  <1>. QED
    BY <1>1, <1>2

LEMMA Once == IInv => VisitsHappenOnce
  <1>. SUFFICES ASSUME IInv PROVE VisitsHappenOnce
    OBVIOUS
  <1>0. VisitsInv /\ AuthsInv /\ EventsInv /\ ClosesInv /\ CallsInv /\ ClockInv
    BY DEF IInv
  <1>1. TypeOK
    <2>1. \A v \in DOMAIN visits : visits[v] \in VisitType
      BY <1>0, VisitRows
    <2>2. \A v \in DOMAIN visits : visits[v].client \in Client /\ visits[v].status \in {"open", "closed"}
      BY <2>1 DEF VisitType
    <2>3. \A v \in DOMAIN visits : visits[v].status = "closed" => visits[v].closed >= visits[v].started
      BY <1>0 DEF ClosesInv, Fits
    <2>4. \A v \in DOMAIN visits : AuthsOf(v) # {}
      BY <1>0 DEF VisitsInv
    <2>5. \A a \in auths : a.visit \in DOMAIN visits /\ a.run \in Run
      BY <1>0 DEF AuthsInv, AuthType
    <2>6. \A e \in Event : events[e].result \in {"none", "pending_match", "closed", "unmatched", "invalid"}
      BY <1>0 DEF EventsInv, RowOk, EventType
    <2>7. \A r \in Run : call[r].pc \in {"new", "active", "writing", "done"}
      BY <1>0 DEF CallsInv, CallType
    <2>. QED
      BY <1>0, <2>2, <2>3, <2>4, <2>5, <2>6, <2>7 DEF VisitsInv, ClockInv, TypeOK
  <1>2. OneOpenVisit
    <2>1. ASSUME NEW c \in Client PROVE \A u, v \in OpenVisit(c) : u = v
      BY <1>0 DEF VisitsInv, OpenVisit
    <2>. QED
      BY <2>1, AtMostOne DEF OneOpenVisit
  <1>3. ClosedByOneEvent
    BY <1>0 DEF EventsInv, ClosesInv, ClosedByOneEvent
  <1>4. RunRecordedOnce
    <2>1. ASSUME NEW r \in Run PROVE \A a, b \in {a \in auths : a.run = r} : a = b
      BY <1>0 DEF AuthsInv
    <2>. QED
      BY <1>0, <2>1, AtMostOne DEF CallsInv, RunRecordedOnce
  <1>. QED
    BY <1>1, <1>2, <1>3, <1>4 DEF VisitsHappenOnce

\* For any number of clients, runs and events: a client has at most one open visit, an event and the
\* visit it closed name each other, and a run is recorded once, whatever is retried, read again,
\* recovered or restarted (create_or_reuse_start, apply_journal_line, recovery).
THEOREM Uniqueness == Spec => []VisitsHappenOnce
  BY Invariance, Once, PTL

-----------------------------------------------------------------------------
(* Every close is justified *)

LEMMA Justified == IInv => ClosesAreJustified
  <1>. SUFFICES ASSUME IInv PROVE ClosesAreJustified
    OBVIOUS
  <1>0. VisitsInv /\ AuthsInv /\ EventsInv /\ ClosesInv
    BY DEF IInv
  <1>1. \A v \in DOMAIN visits : visits[v].status \in {"open", "closed"} /\ visits[v] \in VisitType
    BY <1>0, VisitRows DEF VisitType
  <1>2. NotClosedBeforeAuthorization
    BY <1>0 DEF AuthsInv, AuthsOf, ClosesInv, Fits, NotClosedBeforeAuthorization
  <1>3. None \notin {"offline", "recovered"}
    BY NoneAssumption
  <1>4. \A v \in DOMAIN visits : visits[v].status = "open" => visits[v].reason = None
    BY <1>0 DEF VisitsInv
  <1>5. GraceLimitsMatch
    BY <1>0, <1>1, <1>3, <1>4 DEF ClosesInv, Fits, GraceLimitsMatch
  <1>6. SsidsAgree
    BY <1>0 DEF ClosesInv, Fits, Agrees, SsidIsSafe, KnownSsids, SsidsAgree
  <1>7. RecoveredIsSound
    <2>1. ASSUME NEW v \in DOMAIN visits, visits[v].reason = "recovered"
          PROVE  /\ events[visits[v].event].evidence.controller = visits[v].closed
                 /\ \A a \in AuthsOf(v) : a.at <= visits[v].closed
                 /\ \A u \in DOMAIN visits : visits[u].event = visits[v].event => u = v
      <3>0. \A e \in Event : e # None
        BY StoreAssumption, NoneAssumption
      <3>1. visits[v].status = "closed"
        BY <1>1, <1>3, <1>4, <2>1
      <3>2. visits[v].event \in Event /\ visits[v].event # None
        BY <1>0, <3>0, <3>1 DEF ClosesInv
      <3>3. \A u \in DOMAIN visits : visits[u].event = visits[v].event => visits[u].status = "closed"
        BY <1>0, <1>1, <3>2 DEF VisitsInv
      <3>. QED
        BY <1>0, <2>1, <3>1, <3>3 DEF ClosesInv, Fits
    <2>. QED
      BY <2>1 DEF RecoveredIsSound
  <1>. QED
    BY <1>2, <1>5, <1>6, <1>7 DEF ClosesAreJustified

\* For any times, networks, grace period and clock skew: no visit is closed before an authorization
\* it has, by an event of another network, by an event that waited for longer than the grace period,
\* or twice, by the reader, the retry or the recovery tool (_match_offline, _retry_pending_row,
\* _apply_one).
THEOREM Justification == Spec => []ClosesAreJustified
  BY Invariance, Justified, PTL

-----------------------------------------------------------------------------
(* Closed visits and an idle store stay as they are *)

\* A step keeps visit v, or closes it without touching its device.
Keeps(v) ==
  \/ visits'[v] = visits[v]
  \/ visits[v].status = "open" /\ visits'[v].device = visits[v].device

LEMMA ClosesOne ==
  ASSUME VisitsInv, NEW u \in DOMAIN visits, visits[u].status = "open", NEW closed, NEW source, NEW reason, NEW e,
         visits' = Closed(u, closed, source, reason, e), NEW v \in DOMAIN visits
  PROVE  Keeps(v)
  <1>. DEFINE w == [visits[u] EXCEPT !.status = "closed", !.closed = closed, !.source = source,
                                     !.reason = reason, !.event = e]
  <1>1. visits[u] \in VisitType
    BY VisitRows
  <1>2. w.device = visits[u].device
    BY <1>1 DEF VisitType
  <1>3. visits' = [visits EXCEPT ![u] = w]
    BY DEF Closed
  <1>. HIDE DEF w
  <1>. QED
    BY <1>2, <1>3 DEF Keeps

LEMMA StepKeepsClosed ==
  ASSUME IInv, Next
  PROVE  KeepsClosed
  <1>0. TablesInv /\ VisitsInv
    BY DEF IInv, TablesInv
  <1>1. ASSUME NEW v \in DOMAIN visits, Keeps(v)
        PROVE  /\ visits[v].status = "closed" => [visits'[v] EXCEPT !.device = None] = [visits[v] EXCEPT !.device = None]
               /\ visits[v].device # None => visits'[v].device = visits[v].device
    BY <1>1 DEF Keeps
  <1>2. (\A v \in DOMAIN visits : Keeps(v)) => KeepsClosed
    BY <1>1 DEF KeepsClosed
  <1>3. ASSUME visits' = visits PROVE KeepsClosed
    BY <1>2, <1>3 DEF Keeps
  <1>4. ASSUME NEW r \in Run, CreateOrReuseStart(r), UNCHANGED events PROVE KeepsClosed
    <2>1. call[r] \in CallType
      BY DEF IInv, CallsInv
    <2>2. \A v \in DOMAIN visits : visits'[v] = visits[v]
      BY <1>0, <1>4, <2>1, StartWritten
    <2>. QED
      BY <1>2, <2>2 DEF Keeps
  <1>5. ASSUME NEW e \in Event, NEW row, NEW u \in DOMAIN visits, visits[u].status = "open",
               FinalizeOrReject(e, row, u)
        PROVE  KeepsClosed
    <2>. DEFINE match == MatchOffline(row.evidence, u)
    <2>1. visits' = visits \/ visits' = Closed(u, match.closed, match.source, "offline", e)
      BY <1>5 DEF FinalizeOrReject
    <2>. HIDE DEF match
    <2>2. CASE visits' = Closed(u, match.closed, match.source, "offline", e)
      <3>1. \A v \in DOMAIN visits : Keeps(v)
        BY <1>0, <1>5, <2>2, ClosesOne
      <3>. QED
        BY <1>2, <3>1
    <2>. QED
      BY <1>3, <2>1, <2>2
  <1>6. ASSUME NEW r \in Run, Submitter(r) PROVE KeepsClosed
    BY <1>3, <1>4, <1>6
       DEF Submitter, SubmitAuthorized, BeginAttempt, StartCommits, StartIsBusy, StartFails
  <1>7. ASSUME NEW e \in Event, NEW ev \in Evidence, ReadLine(e, ev) PROVE KeepsClosed
    <2>. DEFINE open == OpenVisit(ev.client)
                row == [NoRow EXCEPT !.evidence = ev]
    <2>1. visits' = visits \/ (open # {} /\ FinalizeOrReject(e, row, Max(open)))
      BY <1>7 DEF ReadLine, ApplyJournalLine
    <2>2. CASE open # {} /\ FinalizeOrReject(e, row, Max(open))
      <3>1. Max(open) \in DOMAIN visits /\ visits[Max(open)].status = "open"
        BY <1>0, <2>2, PickedVisit
      <3>. HIDE DEF open, row
      <3>. QED
        BY <1>5, <2>2, <3>1
    <2>. QED
      BY <1>3, <2>1, <2>2
  <1>8. ASSUME NEW e \in Event, RetryPending(e) PROVE KeepsClosed
    <2>. DEFINE row == events[e]
                open == {v \in OpenVisit(row.evidence.client) : visits[v].created <= row.until}
    <2>1. visits' = visits \/ (open # {} /\ FinalizeOrReject(e, row, Max(open)))
      BY <1>8 DEF RetryPending, RetryPendingRow
    <2>2. CASE open # {} /\ FinalizeOrReject(e, row, Max(open))
      <3>1. Max(open) \in DOMAIN visits /\ visits[Max(open)].status = "open"
        BY <1>0, <2>2, PickedVisit
      <3>. HIDE DEF open, row
      <3>. QED
        BY <1>5, <2>2, <3>1
    <2>. QED
      BY <1>3, <2>1, <2>2
  <1>9. ASSUME NEW u \in DOMAIN visits, Recover(u) PROVE KeepsClosed
    <2>1. /\ visits[u].status = "open"
          /\ visits' = Closed(u, events[Min(Earliest(u))].evidence.controller, "controller", "recovered",
                              Min(Earliest(u)))
      BY <1>9 DEF Recover
    <2>2. \A v \in DOMAIN visits : Keeps(v)
      BY <1>0, <2>1, ClosesOne
    <2>. QED
      BY <1>2, <2>2
  <1>10. ASSUME NEW stored \in BOOLEAN, RecordReconciliationAttempt(stored) PROVE KeepsClosed
    <2>1. \/ visits' = visits
          \/ visits[link.visit].device = None /\ visits' = [visits EXCEPT ![link.visit].device = link.device]
      BY <1>10 DEF RecordReconciliationAttempt
    <2>2. CASE visits[link.visit].device = None /\ visits' = [visits EXCEPT ![link.visit].device = link.device]
      <3>1. ASSUME NEW v \in DOMAIN visits
            PROVE  /\ [visits'[v] EXCEPT !.device = None] = [visits[v] EXCEPT !.device = None]
                   /\ visits[v].device # None => visits'[v].device = visits[v].device
        <4>1. visits[v] \in VisitType
          BY <1>0, VisitRows
        <4>2. CASE v = link.visit
          <5>1. visits'[v] = [visits[v] EXCEPT !.device = link.device]
            BY <2>2, <4>2
          <5>2. [visits'[v] EXCEPT !.device = None] = [visits[v] EXCEPT !.device = None]
            BY <4>1, <5>1 DEF VisitType
          <5>. QED
            BY <2>2, <4>2, <5>2
        <4>3. CASE v # link.visit
          BY <2>2, <4>3
        <4>. QED
          BY <4>2, <4>3
      <3>. QED
        BY <3>1 DEF KeepsClosed
    <2>. QED
      BY <1>3, <2>1, <2>2
  <1>11. CASE UNCHANGED visits
    BY <1>3, <1>11
  <1>. QED
    BY <1>6, <1>7, <1>8, <1>9, <1>10, <1>11
       DEF Next, Tick, StopAccepting, BeginPass, EndPass, LookUp, Restart

LEMMA StepKeepsIdle ==
  ASSUME IInv, Next
  PROVE  KeepsIdle
  <1>. SUFFICES ASSUME Idle PROVE auths' = auths /\ (accepting' \/ Idle')
    BY DEF KeepsIdle
  <1>1. ~accepting /\ \A r \in Run : call[r].pc \in {"new", "done"}
    BY DEF Idle
  <1>2. ASSUME NEW r \in Run, Submitter(r) PROVE auths' = auths /\ (accepting' \/ Idle')
    <2>1. SubmitAuthorized(r)
      BY <1>1, <1>2 DEF Submitter, BeginAttempt, StartCommits, StartIsBusy, StartFails
    <2>2. call' = [call EXCEPT ![r] = Done("failed")] /\ UNCHANGED <<auths, accepting>>
      BY <1>1, <2>1 DEF SubmitAuthorized
    <2>3. Done("failed").pc = "done"
      BY DoneType
    <2>. QED
      BY <1>1, <2>2, <2>3 DEF Idle, IInv, CallsInv
  <1>3. CASE Restart
    BY <1>3 DEF Restart
  <1>4. CASE UNCHANGED <<auths, call>> /\ accepting' \in {accepting, FALSE}
    BY <1>1, <1>4 DEF Idle
  <1>. QED
    BY <1>1, <1>2, <1>3, <1>4
       DEF Next, Tick, StopAccepting, ReadLine, BeginPass, RetryPending, EndPass, Recover, LookUp,
           RecordReconciliationAttempt

\* For any number of clients, runs and events: no step changes a closed visit, except that the
\* reconciler fills in a missing device once, and no start is written once the submitter was stopped
\* and no call is active (stop_accepting, wait_for_idle, record_reconciliation_attempt).
THEOREM Finality == Spec => NothingIsWrittenLate
  <1>1. IInv /\ [Next]_vars => [KeepsClosed /\ KeepsIdle]_vars
    BY StepKeepsClosed, StepKeepsIdle
  <1>. QED
    BY <1>1, Invariance, PTL DEF Spec, NothingIsWrittenLate

-----------------------------------------------------------------------------
(* The write slot: the queues *)

\* q holds each member of W once and nothing else.
Lists(q, W) ==
    /\ q \in Seq(W)
    /\ \A i, j \in 1 .. Len(q) : q[i] = q[j] => i = j
    /\ \A w \in W : \E i \in 1 .. Len(q) : q[i] = w

\* Taking a member out of a queue.
LEMMA ListsWithout ==
  ASSUME NEW q, NEW W, NEW t, Lists(q, W)
  PROVE  Lists(Without(q, t), W \ {t}) /\ (t \notin W => Without(q, t) = q)
<1>0. /\ q \in Seq(W) /\ DOMAIN q = 1 .. Len(q) /\ Len(q) \in Nat
      /\ \A i \in 1 .. Len(q) : q[i] \in W
      /\ \A i, j \in 1 .. Len(q) : q[i] = q[j] => i = j
      /\ \A w \in W : \E i \in 1 .. Len(q) : q[i] = w
    BY LenProperties, ElementOfSeq DEF Lists
<1>1. CASE t \notin W
  <2>1. Without(q, t) = q
    <3>1. \A i \in DOMAIN q : q[i] # t
        BY <1>0, <1>1
    <3> QED
        BY <3>1 DEF Without
  <2>2. W \ {t} = W
      BY <1>1
  <2> QED
      BY <2>1, <2>2
<1>2. CASE t \in W
  <2> DEFINE at == CHOOSE i \in DOMAIN q : q[i] = t
  <2>1. at \in 1 .. Len(q) /\ q[at] = t
      BY <1>0, <1>2
  <2> DEFINE p == [i \in 1 .. Len(q) - 1 |-> q[IF i < at THEN i ELSE i + 1]]
  <2>2. Without(q, t) = p
      BY <1>0, <1>2 DEF Without
  <2> HIDE DEF at
  <2>3. \A i \in 1 .. Len(q) - 1 : /\ (IF i < at THEN i ELSE i + 1) \in 1 .. Len(q)
                                   /\ (IF i < at THEN i ELSE i + 1) # at
      BY <1>0, <2>1
  <2>4. \A i \in 1 .. Len(q) - 1 : p[i] \in W \ {t}
      BY <1>0, <2>1, <2>3
  <2>5. p \in Seq(W \ {t}) /\ Len(p) = Len(q) - 1
    <3>1. Len(q) - 1 \in Nat
        BY <1>0, <2>1
    <3>2. p \in [1 .. Len(q) - 1 -> W \ {t}]
        BY <2>4
    <3> HIDE DEF p
    <3>3. p \in Seq(W \ {t})
        BY <3>1, <3>2, SeqDef
    <3> QED
        BY <3>1, <3>2, <3>3, LenProperties
  <2>6. \A i, j \in 1 .. Len(q) - 1 : p[i] = p[j] => i = j
      BY <1>0, <2>1, <2>3
  <2>7. ASSUME NEW w \in W \ {t} PROVE \E i \in 1 .. Len(q) - 1 : p[i] = w
    <3>1. PICK j \in 1 .. Len(q) : q[j] = w
        BY <1>0
    <3>2. j # at
        BY <2>1, <3>1
    <3> DEFINE i == IF j < at THEN j ELSE j - 1
    <3>3. i \in 1 .. Len(q) - 1 /\ (IF i < at THEN i ELSE i + 1) = j
        BY <1>0, <2>1, <3>2
    <3>4. p[i] = w
        BY <3>1, <3>3
    <3> QED
        BY <3>3, <3>4
  <2> HIDE DEF p
  <2> QED
      BY <1>2, <2>2, <2>5, <2>6, <2>7 DEF Lists
<1> QED
    BY <1>1, <1>2

\* A newcomer at the end of a queue.
LEMMA ListsAppend ==
  ASSUME NEW q, NEW W, NEW t, t \notin W, Lists(q, W)
  PROVE  Lists(Append(q, t), W \union {t}) /\ Append(q, t) # <<>>
<1>0. /\ q \in Seq(W) /\ DOMAIN q = 1 .. Len(q) /\ Len(q) \in Nat
      /\ \A i \in 1 .. Len(q) : q[i] \in W
      /\ \A i, j \in 1 .. Len(q) : q[i] = q[j] => i = j
      /\ \A w \in W : \E i \in 1 .. Len(q) : q[i] = w
    BY LenProperties, ElementOfSeq DEF Lists
<1> DEFINE p == Append(q, t)
<1>1. q \in Seq(W \union {t})
    BY <1>0, SeqDef
<1>2. /\ p \in Seq(W \union {t}) /\ Len(p) = Len(q) + 1
      /\ \A i \in 1 .. Len(q) : p[i] = q[i]
      /\ p[Len(q) + 1] = t
    BY <1>1, AppendProperties
<1> HIDE DEF p
<1>3. \A i, j \in 1 .. Len(p) : p[i] = p[j] => i = j
    BY <1>0, <1>2
<1>4. \A w \in W \union {t} : \E i \in 1 .. Len(p) : p[i] = w
    BY <1>0, <1>2
<1>5. p # <<>>
    BY <1>0, <1>2
<1> QED
    BY <1>2, <1>3, <1>4, <1>5 DEF Lists, p

\* A queue is as long as the set of its members is large.
LEMMA ListsLength ==
  ASSUME NEW q, NEW W, Lists(q, W)
  PROVE  /\ IsFiniteSet(W) /\ Cardinality(W) = Len(q)
         /\ q = <<>> <=> W = {}
<1>0. /\ q \in Seq(W) /\ DOMAIN q = 1 .. Len(q) /\ Len(q) \in Nat
      /\ \A i \in 1 .. Len(q) : q[i] \in W
      /\ \A i, j \in 1 .. Len(q) : q[i] = q[j] => i = j
      /\ \A w \in W : \E i \in 1 .. Len(q) : q[i] = w
    BY LenProperties, ElementOfSeq DEF Lists
<1>1. q \in Bijection(1 .. Len(q), W)
  <2>1. q \in [1 .. Len(q) -> W]
      BY <1>0
  <2> QED
      BY <1>0, <2>1 DEF Bijection, Injection, Surjection, IsInjective
<1>2. ExistsBijection(1 .. Len(q), W)
    BY <1>1 DEF ExistsBijection
<1>3. IsFiniteSet(1 .. Len(q)) /\ Cardinality(1 .. Len(q)) = Len(q)
  <2>1. Len(q) \in Int /\ 1 \in Int /\ (IF 1 > Len(q) THEN 0 ELSE Len(q) - 1 + 1) = Len(q)
      BY <1>0
  <2>2. /\ IsFiniteSet(1 .. Len(q))
        /\ Cardinality(1 .. Len(q)) = IF 1 > Len(q) THEN 0 ELSE Len(q) - 1 + 1
      BY <2>1, FS_Interval
  <2> QED
      BY <2>1, <2>2
<1>4. IsFiniteSet(W) /\ Cardinality(W) = Len(q)
    BY <1>2, <1>3, FS_Bijection
<1>5. q = <<>> <=> W = {}
    BY <1>0
<1> QED
    BY <1>4, <1>5

-----------------------------------------------------------------------------
(* The write slot: turns *)

StartWaiters == { t \in Thread : thread[t].pc = "waiting" /\ thread[t].op = "start" }
OtherWaiters == { t \in Thread : thread[t].pc = "waiting" /\ thread[t].op # "start" }

Place == [pc : {"idle", "waiting", "holding"}, op : Operation \union {"none"}, left : 0 .. Wait]

SlotType ==
    /\ holder \in Thread \union {Nobody}
    /\ starvation \in [Classes -> Never .. Age]
    /\ required \in BOOLEAN
    /\ thread \in [Thread -> Place]
    /\ stopped \in SUBSET Thread
    /\ held \in Nat

\* Every waiter is once in the queue of its kind, and the thread in the slot is in none.
QueuesInv ==
    /\ \A t \in Thread : thread[t].pc = "holding" <=> holder = t
    /\ \A t \in Thread : thread[t].pc # "idle" => thread[t].op # "none"
    /\ Lists(foreground, StartWaiters)
    /\ Lists(background, OtherWaiters)

\* An escape leaves the turn to the starts as long as any of them waits, and the start that takes it
\* uses it up.
TurnInv ==
    /\ passed \in {0, 1} /\ escapes \in {0, 1}
    /\ passed = 1 => ~required
    /\ escapes = 1 => required /\ foreground # <<>>

SlotInv == SlotType /\ QueuesInv /\ TurnInv

\* At first the slot is free and nobody waits.
LEMMA SlotInitially == SlotInit => SlotInv
<1> SUFFICES ASSUME SlotInit PROVE SlotInv
    OBVIOUS
<1>1. StartWaiters = {} /\ OtherWaiters = {}
    BY DEF SlotInit, NotWaiting, StartWaiters, OtherWaiters
<1>2. Lists(<<>>, {})
  <2>1. <<>> \in Seq({}) /\ Len(<<>>) = 0
      OBVIOUS
  <2> QED
      BY <2>1 DEF Lists
<1>3. QueuesInv
    BY <1>1, <1>2, NobodyAssumption DEF SlotInit, NotWaiting, QueuesInv
<1>4. SlotType
  <2>1. thread \in [Thread -> Place]
      BY TimesAssumption DEF SlotInit, NotWaiting, Place
  <2>2. starvation \in [Classes -> Never .. Age]
      BY TimesAssumption DEF SlotInit, Never
  <2> QED
      BY <2>1, <2>2 DEF SlotInit, SlotType
<1> QED
    BY <1>3, <1>4 DEF SlotInv, TurnInv, SlotInit

\* What a pass of acquire() starts from: the queues with the thread in the one of its kind, and no
\* waiting start lost.
Arrived(t, op, F, B) ==
    /\ thread[t].pc # "holding"
    /\ Lists(F, (StartWaiters \ {t}) \union (IF op = "start" THEN {t} ELSE {}))
    /\ Lists(B, (OtherWaiters \ {t}) \union (IF op = "start" THEN {} ELSE {t}))
    /\ foreground # <<>> => F # <<>>

\* A pass of acquire() keeps the shape of the state, ...
LEMMA ExamineTypes ==
  ASSUME SlotInv, NEW t \in Thread, NEW op \in Operation, NEW left \in 0 .. Wait, NEW F, NEW B,
         Examine(t, op, left, F, B)
  PROVE  SlotType'
<1> DEFINE req == required /\ F # <<>>
<1>0. SlotType
    BY DEF SlotInv
<1>1. starvation' \in [Classes -> Never .. Age]
  <2>1. Unmarked(op) \in [Classes -> Never .. Age]
      BY <1>0, TimesAssumption DEF SlotType, Unmarked, Never
  <2>2. Marked(t, op, F, B) \in [Classes -> Never .. Age]
      BY <1>0, TimesAssumption DEF SlotType, Marked, Never
  <2>3. starvation' \in {Unmarked(op), Marked(t, op, F, B), starvation}
      BY DEF Examine, Take
  <2> QED
      BY <1>0, <2>1, <2>2, <2>3 DEF SlotType
<1>2. thread' \in [Thread -> Place]
  <2>1. NotWaiting \in Place /\ [pc |-> "holding", op |-> op, left |-> 0] \in Place
        /\ [pc |-> "waiting", op |-> op, left |-> left] \in Place
      BY TimesAssumption DEF NotWaiting, Place
  <2>2. PICK x \in Place : thread' = [thread EXCEPT ![t] = x]
      BY <2>1 DEF Examine, Take, Leave
  <2> QED
      BY <1>0, <2>2 DEF SlotType
<1>3. required' \in BOOLEAN
    BY DEF Examine, Take
<1>4. holder' \in Thread \union {Nobody} /\ held' \in Nat /\ stopped' = stopped
    BY <1>0 DEF SlotType, Examine, Take, Leave
<1> QED
    BY <1>0, <1>1, <1>2, <1>3, <1>4 DEF SlotType

\* ... puts the thread into its queue or takes it out, ...
LEMMA ExamineQueues ==
  ASSUME SlotInv, NEW t \in Thread, NEW op \in Operation, NEW left \in 0 .. Wait, NEW F, NEW B,
         Arrived(t, op, F, B), Examine(t, op, left, F, B)
  PROVE  QueuesInv'
<1>0. /\ thread \in [Thread -> Place] /\ op # "none" /\ holder \in Thread \union {Nobody}
      /\ \A k \in Thread : thread[k].pc = "holding" <=> holder = k
      /\ \A k \in Thread : thread[k].pc # "idle" => thread[k].op # "none"
      /\ thread[t].pc # "holding"
    BY DEF SlotInv, SlotType, QueuesInv, Arrived, Operation
<1> DEFINE FW == (StartWaiters \ {t}) \union (IF op = "start" THEN {t} ELSE {})
<1> DEFINE BW == (OtherWaiters \ {t}) \union (IF op = "start" THEN {} ELSE {t})
<1>1. Lists(F, FW) /\ Lists(B, BW)
    BY DEF Arrived
<1>2. Lists(Without(F, t), StartWaiters \ {t}) /\ Lists(Without(B, t), OtherWaiters \ {t})
  <2>1. FW \ {t} = StartWaiters \ {t} /\ BW \ {t} = OtherWaiters \ {t}
      OBVIOUS
  <2> HIDE DEF FW, BW
  <2>2. Lists(Without(F, t), FW \ {t}) /\ Lists(Without(B, t), BW \ {t})
      BY <1>1, ListsWithout
  <2> QED
      BY <2>1, <2>2
<1>3. ASSUME Leave(t, F, B) PROVE QueuesInv'
  <2>1. /\ holder' = holder /\ foreground' = Without(F, t) /\ background' = Without(B, t)
        /\ thread' = [thread EXCEPT ![t] = NotWaiting]
      BY <1>3 DEF Leave
  <2>2. /\ thread'[t] = NotWaiting /\ \A k \in Thread \ {t} : thread'[k] = thread[k]
      BY <1>0, <2>1
  <2>3. StartWaiters' = StartWaiters \ {t} /\ OtherWaiters' = OtherWaiters \ {t}
      BY <2>2 DEF StartWaiters, OtherWaiters, NotWaiting
  <2>4. \A k \in Thread : (thread'[k].pc = "holding" <=> holder = k) /\ (thread'[k].pc # "idle" => thread'[k].op # "none")
      BY <1>0, <2>2 DEF NotWaiting
  <2> QED
      BY <1>2, <2>1, <2>3, <2>4 DEF QueuesInv
<1>4. ASSUME NEW r, Take(t, op, F, B, r), holder = Nobody PROVE QueuesInv'
  <2>1. /\ holder' = t /\ foreground' = Without(F, t) /\ background' = Without(B, t)
        /\ thread' = [thread EXCEPT ![t] = [pc |-> "holding", op |-> op, left |-> 0]]
      BY <1>4 DEF Take
  <2>2. /\ thread'[t].pc = "holding" /\ thread'[t].op = op /\ \A k \in Thread \ {t} : thread'[k] = thread[k]
      BY <1>0, <2>1
  <2>3. StartWaiters' = StartWaiters \ {t} /\ OtherWaiters' = OtherWaiters \ {t}
      BY <2>2 DEF StartWaiters, OtherWaiters
  <2>4. \A k \in Thread : (thread'[k].pc = "holding" <=> holder' = k) /\ (thread'[k].pc # "idle" => thread'[k].op # "none")
      BY <1>0, <1>4, <2>1, <2>2, NobodyAssumption
  <2> QED
      BY <1>2, <2>1, <2>3, <2>4 DEF QueuesInv
<1>5. ASSUME /\ foreground' = F /\ background' = B /\ holder' = holder
             /\ thread' = [thread EXCEPT ![t] = [pc |-> "waiting", op |-> op, left |-> left]]
      PROVE  QueuesInv'
  <2>2. /\ thread'[t].pc = "waiting" /\ thread'[t].op = op /\ \A k \in Thread \ {t} : thread'[k] = thread[k]
      BY <1>0, <1>5
  <2>3. StartWaiters' = FW /\ OtherWaiters' = BW
      BY <2>2 DEF StartWaiters, OtherWaiters
  <2>4. \A k \in Thread : (thread'[k].pc = "holding" <=> holder = k) /\ (thread'[k].pc # "idle" => thread'[k].op # "none")
      BY <1>0, <2>2
  <2> HIDE DEF FW, BW
  <2> QED
      BY <1>1, <1>5, <2>3, <2>4 DEF QueuesInv
<1>6. \/ Leave(t, F, B)
      \/ \E r : Take(t, op, F, B, r) /\ holder = Nobody
      \/ /\ foreground' = F /\ background' = B /\ holder' = holder
         /\ thread' = [thread EXCEPT ![t] = [pc |-> "waiting", op |-> op, left |-> left]]
    BY DEF Examine, CanHold
<1> QED
    BY <1>3, <1>4, <1>5, <1>6

\* ... and gives the turn to the right side.
LEMMA ExamineTurns ==
  ASSUME SlotInv, NEW t \in Thread, NEW op \in Operation, NEW left \in 0 .. Wait, NEW F, NEW B,
         Arrived(t, op, F, B), Examine(t, op, left, F, B)
  PROVE  TurnInv'
<1> DEFINE req == required /\ F # <<>>
<1>0. TurnInv /\ required \in BOOLEAN /\ (foreground # <<>> => F # <<>>)
    BY DEF SlotInv, SlotType, Arrived
<1>1. CASE Leave(t, F, B) /\ CountLeave(t, F, B) /\ required' = req
    BY <1>0, <1>1 DEF TurnInv, Leave, CountLeave
<1>2. CASE CanHold(t, op, F, B, req) /\ Take(t, op, F, B, req)
  <2>1. CASE op = "start"
    <3>1. F # <<>>
        BY <1>2, <2>1 DEF CanHold, IsHead
    <3>2. req \/ ~AgedBackgroundHead(t, op, B)
        BY <1>2, <2>1, <3>1 DEF CanHold, PriorityAllows, AgedEscape
    <3>3. required' = FALSE /\ escapes' = 0 /\ passed' = IF AgedBackgroundHead(t, op, B) THEN passed + 1 ELSE 0
        BY <1>2, <2>1 DEF Take, CountTurn
    <3> QED
        BY <1>0, <3>2, <3>3 DEF TurnInv
  <2>2. CASE op # "start"
    <3>1. passed' = 0 /\ escapes' = IF F = <<>> THEN 0 ELSE escapes + 1
        BY <1>2, <2>2 DEF Take, CountTurn
    <3>2. CASE F = <<>>
        BY <1>0, <3>1, <3>2 DEF TurnInv
    <3>3. CASE F # <<>>
      <4>1. AgedEscape(t, op, B, req)
          BY <1>2, <2>2, <3>3 DEF CanHold, PriorityAllows
      <4>2. ~req
          BY <4>1 DEF AgedEscape
      <4>3. required' /\ escapes' = 1
        <5>1. required'
            BY <1>2, <2>2, <3>3, <4>1 DEF Take
        <5>2. escapes = 0
            BY <1>0, <3>3, <4>2 DEF TurnInv
        <5> QED
            BY <3>1, <3>3, <5>1, <5>2
      <4>4. foreground' = F
        <5>1. Lists(F, StartWaiters \ {t})
          <6>1. (StartWaiters \ {t}) \union (IF op = "start" THEN {t} ELSE {}) = StartWaiters \ {t}
              BY <2>2
          <6> QED
              BY <6>1 DEF Arrived
        <5>2. Without(F, t) = F
            BY <5>1, ListsWithout
        <5> QED
            BY <1>2, <5>2 DEF Take
      <4> QED
          BY <3>1, <3>3, <4>3, <4>4 DEF TurnInv
    <3> QED
        BY <3>2, <3>3
  <2> QED
      BY <2>1, <2>2
<1>3. CASE required' = req /\ foreground' = F /\ UNCHANGED <<passed, escapes>>
    BY <1>0, <1>3 DEF TurnInv
<1> QED
    BY <1>1, <1>2, <1>3 DEF Examine

\* A pass of acquire(), whether it is the first or a later one, keeps the invariant.
LEMMA EnterStep ==
  ASSUME SlotInv, NEW t \in Thread, NEW op \in Operation, NEW left \in 0 .. Wait, Enter(t, op, left)
  PROVE  SlotInv'
<1> DEFINE F == IF op = "start" THEN Append(foreground, t) ELSE foreground
<1> DEFINE B == IF op = "start" THEN background ELSE Append(background, t)
<1>1. Examine(t, op, left, F, B) /\ thread[t].pc = "idle"
    BY DEF Enter
<1>2. Lists(foreground, StartWaiters) /\ Lists(background, OtherWaiters)
    BY DEF SlotInv, QueuesInv
<1>3. t \notin StartWaiters /\ t \notin OtherWaiters
    BY <1>1 DEF StartWaiters, OtherWaiters
<1>4. /\ Lists(Append(foreground, t), StartWaiters \union {t}) /\ Append(foreground, t) # <<>>
      /\ Lists(Append(background, t), OtherWaiters \union {t})
    BY <1>2, <1>3, ListsAppend
<1>5. StartWaiters \ {t} = StartWaiters /\ OtherWaiters \ {t} = OtherWaiters
    BY <1>3
<1>6. Arrived(t, op, F, B)
  <2>1. CASE op = "start"
    <3>1. OtherWaiters \union {} = OtherWaiters
        OBVIOUS
    <3> QED
        BY <1>1, <1>2, <1>4, <1>5, <2>1, <3>1 DEF Arrived
  <2>2. CASE op # "start"
    <3>1. StartWaiters \union {} = StartWaiters
        OBVIOUS
    <3> QED
        BY <1>1, <1>2, <1>4, <1>5, <2>2, <3>1 DEF Arrived
  <2> QED
      BY <2>1, <2>2
<1> HIDE DEF F, B
<1> QED
    BY <1>1, <1>6, ExamineTypes, ExamineQueues, ExamineTurns DEF SlotInv

\* A waiter that looks again is already in its queue.
LEMMA WakeStep ==
  ASSUME SlotInv, NEW t \in Thread, Wake(t)
  PROVE  SlotInv'
<1> DEFINE op == thread[t].op
<1> DEFINE left == thread[t].left
<1>1. Examine(t, op, left, foreground, background) /\ thread[t].pc = "waiting"
    BY DEF Wake
<1>2. op \in Operation /\ left \in 0 .. Wait
    BY <1>1 DEF SlotInv, SlotType, QueuesInv, Place
<1>3. Lists(foreground, StartWaiters) /\ Lists(background, OtherWaiters)
    BY DEF SlotInv, QueuesInv
<1>4. /\ (StartWaiters \ {t}) \union (IF op = "start" THEN {t} ELSE {}) = StartWaiters
      /\ (OtherWaiters \ {t}) \union (IF op = "start" THEN {} ELSE {t}) = OtherWaiters
    BY <1>1 DEF StartWaiters, OtherWaiters
<1> HIDE DEF op, left
<1>5. Arrived(t, op, foreground, background)
    BY <1>1, <1>3, <1>4 DEF Arrived
<1> QED
    BY <1>1, <1>2, <1>5, ExamineTypes, ExamineQueues, ExamineTurns DEF SlotInv

\* The thread that leaves the slot is in no queue.
LEMMA ReleaseStep ==
  ASSUME SlotInv, NEW t \in Thread, NEW useful \in BOOLEAN, Release(t, useful)
  PROVE  SlotInv'
<1>0. /\ SlotType /\ QueuesInv /\ TurnInv /\ holder = t /\ holder' = Nobody /\ held' = 0
      /\ thread' = [thread EXCEPT ![t] = NotWaiting]
      /\ UNCHANGED <<foreground, background, required, stopped, passed, escapes>>
      /\ starvation' = IF useful THEN Unmarked(thread[t].op) ELSE starvation
    BY DEF SlotInv, Release
<1>1. NotWaiting \in Place
    BY TimesAssumption DEF NotWaiting, Place
<1>2. thread' \in [Thread -> Place] /\ thread'[t] = NotWaiting /\ \A k \in Thread \ {t} : thread'[k] = thread[k]
    BY <1>0, <1>1 DEF SlotType
<1>3. starvation' \in [Classes -> Never .. Age]
  <2>1. Unmarked(thread[t].op) \in [Classes -> Never .. Age]
      BY <1>0, TimesAssumption DEF SlotType, Unmarked, Never
  <2> QED
      BY <1>0, <2>1 DEF SlotType
<1>4. thread[t].pc = "holding"
    BY <1>0 DEF QueuesInv
<1>5. StartWaiters' = StartWaiters /\ OtherWaiters' = OtherWaiters
    BY <1>2, <1>4 DEF StartWaiters, OtherWaiters, NotWaiting
<1>6. QueuesInv'
  <2>1. \A k \in Thread : (thread'[k].pc = "holding" <=> Nobody = k) /\ (thread'[k].pc # "idle" => thread'[k].op # "none")
      BY <1>0, <1>2, NobodyAssumption DEF QueuesInv, NotWaiting
  <2> QED
      BY <1>0, <1>5, <2>1 DEF QueuesInv
<1>7. SlotType' /\ TurnInv'
    BY <1>0, <1>2, <1>3 DEF SlotType, TurnInv
<1> QED
    BY <1>6, <1>7 DEF SlotInv

\* What a step does that touches neither the queues nor the slot.
LEMMA AsideStep ==
  ASSUME SlotInv, UNCHANGED <<holder, foreground, background, required, passed, escapes>>,
         starvation' \in [Classes -> Never .. Age], stopped' \in SUBSET Thread, held' \in Nat,
         thread' \in [Thread -> Place],
         \A t \in Thread : thread'[t].pc = thread[t].pc /\ thread'[t].op = thread[t].op
  PROVE  SlotInv'
<1>1. StartWaiters' = StartWaiters /\ OtherWaiters' = OtherWaiters
    BY DEF StartWaiters, OtherWaiters
<1>2. QueuesInv'
    BY <1>1 DEF SlotInv, QueuesInv
<1>3. SlotType' /\ TurnInv'
    BY DEF SlotInv, SlotType, TurnInv
<1> QED
    BY <1>2, <1>3 DEF SlotInv

\* Waits run down and marks age.
LEMMA TickBodyStep ==
  ASSUME SlotInv, TickBody, held' \in Nat
  PROVE  SlotInv'
<1>0. SlotType
    BY DEF SlotInv
<1>1. starvation' \in [Classes -> Never .. Age]
    BY <1>0, TimesAssumption DEF TickBody, SlotType, Never
<1>2. ASSUME NEW t \in Thread
      PROVE  thread'[t] \in Place /\ thread'[t].pc = thread[t].pc /\ thread'[t].op = thread[t].op
  <2>1. thread[t] \in Place /\ thread'[t] = IF thread[t].left > 0 THEN [thread[t] EXCEPT !.left = @ - 1] ELSE thread[t]
      BY <1>0 DEF TickBody, SlotType
  <2> QED
      BY <2>1, TimesAssumption DEF Place
<1>3. thread' \in [Thread -> Place]
    BY <1>2 DEF TickBody
<1> QED
    BY <1>0, <1>1, <1>2, <1>3, AsideStep DEF TickBody, SlotType

\* No call breaks the invariant.
LEMMA SlotInvStep == SlotInv /\ [SlotNext]_slotVars => SlotInv'
<1> SUFFICES ASSUME SlotInv, [SlotNext]_slotVars PROVE SlotInv'
    OBVIOUS
<1>0. SlotType
    BY DEF SlotInv
<1>1. CASE UNCHANGED slotVars
    BY <1>0, <1>1, AsideStep DEF slotVars, SlotType
<1>2. CASE SlotTick
    BY <1>0, <1>2, TickBodyStep DEF SlotTick, SlotType
<1>3. ASSUME NEW t \in Thread, Call(t) PROVE SlotInv'
  <2>1. CASE \E op \in Operation, left \in 0 .. Wait : Enter(t, op, left)
      BY <2>1, EnterStep
  <2>2. CASE Wake(t)
      BY <2>2, WakeStep
  <2>3. CASE \E useful \in BOOLEAN : Release(t, useful)
      BY <2>3, ReleaseStep
  <2>4. CASE ClearBackgroundWork(t)
    <3>1. Unmarked("pending_retry") \in [Classes -> Never .. Age]
        BY <1>0, TimesAssumption DEF SlotType, Unmarked, Never
    <3> QED
        BY <1>0, <2>4, <3>1, AsideStep DEF ClearBackgroundWork, SlotType
  <2>5. CASE Stop(t)
      BY <1>0, <2>5, AsideStep DEF Stop, SlotType
  <2> QED
      BY <1>3, <2>1, <2>2, <2>3, <2>4, <2>5 DEF Call
<1> QED
    BY <1>1, <1>2, <1>3 DEF SlotNext

\* The invariant says that both sides take turns.
LEMMA TurnsFollow == SlotInv => SidesTakeTurns
<1> SUFFICES ASSUME SlotInv PROVE SidesTakeTurns
    OBVIOUS
<1>1. SlotType /\ QueuesInv /\ TurnInv
    BY DEF SlotInv
<1>2. AgedIsPassedAtMostOnce /\ StartsWaitForOneEscape
    BY <1>1 DEF TurnInv, AgedIsPassedAtMostOnce, StartsWaitForOneEscape
<1>3. /\ IsFiniteSet(StartWaiters) /\ Cardinality(StartWaiters) = Len(foreground)
      /\ IsFiniteSet(OtherWaiters) /\ Cardinality(OtherWaiters) = Len(background)
    BY <1>1, ListsLength DEF QueuesInv
<1>4. Len(foreground) + Len(background) = Cardinality(StartWaiters \union OtherWaiters)
  <2>1. StartWaiters \intersect OtherWaiters = {}
      BY DEF StartWaiters, OtherWaiters
  <2>2. Cardinality(StartWaiters \intersect OtherWaiters) = 0
      BY <2>1, FS_EmptySet
  <2>3. Cardinality(StartWaiters \union OtherWaiters)
           = Cardinality(StartWaiters) + Cardinality(OtherWaiters) - Cardinality(StartWaiters \intersect OtherWaiters)
      BY <1>3, FS_Union
  <2>4. Cardinality(StartWaiters) \in Nat /\ Cardinality(OtherWaiters) \in Nat
      BY <1>3, FS_CardinalityType
  <2> QED
      BY <1>3, <2>2, <2>3, <2>4
<1>5. StartWaiters \union OtherWaiters = { t \in Thread : thread[t].pc = "waiting" }
    BY DEF StartWaiters, OtherWaiters
<1>6. foreground \in Seq(StartWaiters) /\ background \in Seq(OtherWaiters)
    BY <1>1 DEF QueuesInv, Lists
<1>7. SlotTypeOK
  <2>1. Len(foreground) + Len(background) = Cardinality({ t \in Thread : thread[t].pc = "waiting" })
      BY <1>4, <1>5
  <2>2. /\ foreground \in Seq({ t \in Thread : thread[t].pc = "waiting" /\ thread[t].op = "start" })
        /\ background \in Seq({ t \in Thread : thread[t].pc = "waiting" /\ thread[t].op # "start" })
      BY <1>6 DEF StartWaiters, OtherWaiters
  <2> QED
      BY <1>1, <2>1, <2>2 DEF SlotTypeOK, SlotType, QueuesInv, Place
<1> QED
    BY <1>2, <1>7 DEF SidesTakeTurns

\* acquire() and release(), for any number of threads, any waits and any ages: starts and background
\* work take turns, and the queues hold the waiters and nobody else.
THEOREM TurnTaking == SlotSpec => []SidesTakeTurns
<1> QED
    BY TurnsFollow, SlotInitially, SlotInvStep, PTL DEF SlotSpec

\* Nor does any step of the prompt schedule.
LEMMA PromptInvStep == SlotInv /\ [PromptNext]_slotVars => SlotInv'
<1> SUFFICES ASSUME SlotInv, [PromptNext]_slotVars PROVE SlotInv'
    OBVIOUS
<1>1. CASE UNCHANGED slotVars
    BY <1>1, SlotInvStep
<1>2. CASE PromptTick
  <2>1. held' \in Nat
      BY <1>2 DEF PromptTick, SlotInv, SlotType
  <2> QED
      BY <1>2, <2>1, TickBodyStep DEF PromptTick
<1>3. ASSUME NEW t \in Thread,
             \/ \E op \in Operation : Enter(t, op, SlotWait(op))
             \/ Wake(t)
             \/ \E useful \in BOOLEAN : Release(t, useful)
      PROVE  SlotInv'
  <2>1. \A op \in Operation : SlotWait(op) \in 0 .. Wait
      BY TimesAssumption DEF SlotWait
  <2> QED
      BY <1>3, <2>1, EnterStep, WakeStep, ReleaseStep
<1> QED
    BY <1>1, <1>2, <1>3 DEF PromptNext

\* The same under the schedule for which liveness is checked.
THEOREM PromptTurnTaking == PromptSpec => []SidesTakeTurns
<1> QED
    BY TurnsFollow, SlotInitially, PromptInvStep, PTL DEF PromptSpec
=============================================================================
