--------------------------- MODULE ReadModelProofs ---------------------------
(***************************************************************************)
(* Proofs about the two parts that answer from what they have copied:      *)
(* CapportCache and TrafficProjection.                                     *)
(*                                                                         *)
(* The cache's invariant says that its entries belong to the current       *)
(* snapshot, and for each request, that the snapshot in its hands is one   *)
(* the cache has held.  What a request knows stays true when other threads *)
(* move on, because generations and the sets since[g] only grow.           *)
(*                                                                         *)
(* The projection's invariant relates the columns of a site to its rows,   *)
(* and the writer's place to both.  Its third part, that a sweep has seen  *)
(* to every cycle below its cursor, is disturbed by a repair that deletes  *)
(* later than another command sweeps: it is stated where that cannot       *)
(* happen (Apart).  Its last, that no cycle below the fast checkpoint or   *)
(* the projection's head is missing, where rows are written in the order   *)
(* of the source (InOrder).                                                *)
(***************************************************************************)
EXTENDS CapportCache, TrafficProjection, NaturalsInduction, WellFoundedInduction, FiniteSetTheorems,
        TLAPS


-----------------------------------------------------------------------------
(* The invariant *)

Clients == Mac \cup {None, Ambiguous}

Pcs == {"idle", "identity", "refresh", "listing", "listed", "state", "lock", "calling",
        "answered", "found", "not_found", "failed"}

RequestType == [pc : Pcs, ip : IP \cup {None}, force : BOOLEAN, attempt : 0 .. Attempts + 1,
                seen : -1 .. MaxGen, gen : -1 .. MaxGen, mac : Clients, auth : BOOLEAN,
                epoch : Nat]

EntryType == [mac : Mac, gen : 0 .. MaxGen, auth : BOOLEAN, left : 1 .. TTL]

SnapType == [map : [IP -> Clients], auth : SUBSET Mac]

WorldType ==
  /\ addr \in [IP -> Clients]
  /\ auth \in SUBSET Mac
  /\ gen \in -1 .. MaxGen
  /\ left \in 0 .. TTL
  /\ cooldown \in 0 .. FailureTTL
  /\ epoch \in [IP -> Nat]
  /\ snap \in [0 .. MaxGen -> SnapType]
  /\ since \in [0 .. MaxGen -> SUBSET Mac]
  /\ left > 0 => gen >= 0

\* The pcs at which a thread has a client to answer about.
Resolved == {"state", "lock", "calling", "answered", "found"}

\* What a request knows of the snapshots: it has looked at none that does not exist, and its client
\* was authorized since the snapshot it holds if it is about to say so.
RequestInv(r) ==
  /\ r \in RequestType
  /\ r.pc # "idle" => r.ip \in IP
  /\ r.pc \notin {"idle", "failed"} => r.attempt \in 1 .. Attempts
  /\ r.seen <= gen
  /\ r.gen <= gen
  /\ r.pc = "listed" => gen < MaxGen
  /\ r.pc \in Resolved => r.gen >= 0 /\ r.mac \in Mac
  /\ r.pc \in {"answered", "found"} /\ r.auth => r.mac \in since[r.gen]

RequestsInv == req \in [Thread -> RequestType] /\ \A t \in Thread : RequestInv(req[t])

\* The threads between get_clients and the store of its answer hold the site lock.
OneLists == \A t, u \in Listing : t = u

\* Every entry of the cache is the current snapshot's.
EntryInv(ip, s) ==
  s # None =>
    /\ s \in EntryType
    /\ s.gen = gen
    /\ s.mac = snap[gen].map[ip]
    /\ s.auth => s.mac \in since[gen]

EntriesInv ==
  /\ DOMAIN states = IP
  /\ \A ip \in IP : EntryInv(ip, states[ip])

\* The generations read so far: the stored ones, and the one a thread is about to store.
Read(g) == g <= gen \/ (g = gen + 1 /\ \E t \in Thread : req[t].pc = "listed")

\* What a list showed, and what the controller says now, has been so since the list was read.
SinceInv == \A g \in 0 .. MaxGen : Read(g) => snap[g].auth \cup auth \subseteq since[g]

IInv == WorldType /\ RequestsInv /\ OneLists /\ EntriesInv /\ SinceInv

-----------------------------------------------------------------------------
(* Steps of one request *)

\* A request that stays out of the site lock, or enters it while it is free, and touches of the
\* shared state at most the cache entry of its address and the cooldown.
LEMMA OneRequest ==
  ASSUME IInv, NEW t \in Thread, NEW r, RequestInv(r),
         req' = [req EXCEPT ![t] = r],
         req[t].pc # "listed", r.pc # "listed",
         r.pc = "listing" => Listing = {},
         EntriesInv', cooldown' \in 0 .. FailureTTL,
         UNCHANGED <<addr, auth, gen, left, snap, epoch, since>>
  PROVE  IInv'
  <1>1. WorldType'
    BY DEF IInv, WorldType
  <1>2. /\ req' \in [Thread -> RequestType]
        /\ req'[t] = r
        /\ \A u \in Thread : u # t => req'[u] = req[u]
    BY DEF IInv, RequestsInv, RequestInv
  <1>3. RequestsInv'
    <2>1. ASSUME NEW u \in Thread PROVE RequestInv(req[u])'
      <3>1. CASE u = t
        BY <1>2, <3>1 DEF RequestInv
      <3>2. CASE u # t
        BY <1>2, <3>2 DEF IInv, RequestsInv, RequestInv
      <3>. QED
        BY <3>1, <3>2
    <2>. QED
      BY <1>2, <2>1 DEF RequestsInv
  <1>4. OneLists'
    BY <1>2 DEF IInv, OneLists, Listing
  <1>5. SinceInv'
    <2>1. (\E u \in Thread : req'[u].pc = "listed") => \E u \in Thread : req[u].pc = "listed"
      BY <1>2
    <2>. QED
      BY <2>1 DEF IInv, SinceInv, Read
  <1>. QED
    BY <1>1, <1>3, <1>4, <1>5 DEF IInv

LEMMA EntriesStay ==
  ASSUME EntriesInv, UNCHANGED <<states, gen, snap, since>>
  PROVE  EntriesInv'
  BY DEF EntriesInv, EntryInv

\* What a thread holds once it has been given the snapshot of generation g.
LEMMA SnapshotTaken ==
  ASSUME IInv, NEW t \in Thread, req[t].pc \in {"identity", "refresh"}, gen >= 0
  PROVE  /\ RequestInv(WithSnapshot(t, gen))
         /\ WithSnapshot(t, gen).pc \in {"not_found", "failed", "state"}
         /\ WithSnapshot(t, gen).gen = gen
  <1>. DEFINE q == req[t]
              mac == snap[gen].map[q.ip]
              next == CASE mac = None -> "not_found" [] mac = Ambiguous -> "failed" [] OTHER -> "state"
  <1>1. q \in RequestType /\ q.ip \in IP /\ q.attempt \in 1 .. Attempts /\ q.seen <= gen
    BY DEF IInv, RequestsInv, RequestInv
  <1>2. gen \in 0 .. MaxGen /\ gen \in -1 .. MaxGen
    BY CapportAssumption DEF IInv, WorldType
  <1>3. mac \in Clients
    BY <1>1, <1>2 DEF IInv, WorldType, SnapType
  <1>4. next \in {"not_found", "failed", "state"} /\ (next = "state" => mac \in Mac)
    BY <1>3 DEF Clients
  <1>5. WithSnapshot(t, gen) = [q EXCEPT !.gen = gen, !.mac = mac, !.force = FALSE, !.pc = next]
    BY DEF WithSnapshot
  <1>6. WithSnapshot(t, gen) \in RequestType
    <2>. HIDE DEF mac, next, q
    <2>. QED
      BY <1>1, <1>2, <1>3, <1>4, <1>5 DEF RequestType, Pcs
  <1>7. /\ WithSnapshot(t, gen).pc = next /\ WithSnapshot(t, gen).gen = gen
        /\ WithSnapshot(t, gen).mac = mac /\ WithSnapshot(t, gen).ip = q.ip
        /\ WithSnapshot(t, gen).attempt = q.attempt /\ WithSnapshot(t, gen).seen = q.seen
    <2>. HIDE DEF mac, next, q
    <2>. QED
      BY <1>1, <1>5 DEF RequestType
  <1>. HIDE DEF mac, next, q
  <1>. QED
    BY <1>1, <1>2, <1>4, <1>6, <1>7 DEF RequestInv, Resolved

LEMMA FailInv ==
  ASSUME IInv, NEW t \in Thread, req[t].pc \notin {"idle", "listed"}, Fail(t),
         cooldown' \in 0 .. FailureTTL, EntriesInv',
         UNCHANGED <<addr, auth, gen, left, snap, epoch, since>>
  PROVE  IInv'
  <1>. DEFINE q == req[t]
              r == [q EXCEPT !.pc = "failed"]
  <1>1. RequestInv(q) /\ q \in RequestType
    BY DEF IInv, RequestsInv, RequestInv
  <1>2. req' = [req EXCEPT ![t] = r]
    BY <1>1 DEF Fail, IInv, RequestsInv
  <1>3. r \in RequestType /\ r.pc = "failed" /\ r.ip = q.ip /\ r.seen = q.seen /\ r.gen = q.gen
    <2>. HIDE DEF q
    <2>. QED
      BY <1>1 DEF RequestType, Pcs
  <1>4. RequestInv(r)
    <2>. HIDE DEF r
    <2>. QED
      BY <1>1, <1>3 DEF RequestInv, Resolved
  <1>. HIDE DEF r, q
  <1>. QED
    BY <1>2, <1>3, <1>4, OneRequest DEF q

\* Changing nothing of a request but its pc, from one place with a client in hand to the next.
LEMMA GotoInv ==
  ASSUME NEW q, RequestInv(q), NEW pc \in {"refresh", "listing", "lock", "calling"},
         NEW seen \in -1 .. MaxGen, seen <= gen, NEW e \in Nat,
         q.pc \notin {"idle", "failed"},
         pc \in {"lock", "calling"} => q.pc \in Resolved
  PROVE  RequestInv([q EXCEPT !.pc = pc, !.seen = seen, !.epoch = e])
  <1>. DEFINE r == [q EXCEPT !.pc = pc, !.seen = seen, !.epoch = e]
  <1>1. q \in RequestType
    BY DEF RequestInv
  <1>2. /\ r \in RequestType /\ r.pc = pc /\ r.ip = q.ip /\ r.seen = seen /\ r.gen = q.gen
        /\ r.attempt = q.attempt /\ r.mac = q.mac
    BY <1>1 DEF RequestType, Pcs
  <1>. HIDE DEF r
  <1>3. RequestInv(r)
    BY <1>2 DEF RequestInv, Resolved
  <1>. QED
    BY <1>3 DEF r

LEMMA StartInv ==
  ASSUME IInv, NEW t \in Thread, NEW ip \in IP, NEW force \in BOOLEAN, Start(t, ip, force)
  PROVE  IInv'
  <1>. DEFINE r == [Idle EXCEPT !.pc = "identity", !.ip = ip, !.force = force, !.attempt = 1]
  <1>1. gen \in -1 .. MaxGen /\ MaxGen \in Nat
    BY CapportAssumption DEF IInv, WorldType
  <1>2. Idle \in RequestType /\ Idle.seen = -1 /\ Idle.gen = -1
    BY <1>1 DEF Idle, RequestType, Pcs, Attempts, Clients
  <1>3. /\ r \in RequestType /\ r.pc = "identity" /\ r.ip = ip /\ r.attempt = 1
        /\ r.seen = -1 /\ r.gen = -1
    <2>1. "identity" \in Pcs /\ 1 \in 0 .. Attempts + 1
      BY DEF Pcs, Attempts
    <2>. QED
      BY <1>2, <2>1 DEF RequestType
  <1>4. RequestInv(r)
    <2>. HIDE DEF r
    <2>. QED
      BY <1>1, <1>3 DEF RequestInv, Resolved, Attempts
  <1>5. req' = [req EXCEPT ![t] = r] /\ req[t].pc # "listed" /\ r.pc = "identity"
    BY <1>3 DEF Start
  <1>6. EntriesInv' /\ cooldown' \in 0 .. FailureTTL
    BY EntriesStay DEF Start, IInv, WorldType
  <1>. HIDE DEF r
  <1>. QED
    BY <1>4, <1>5, <1>6, OneRequest DEF Start

LEMMA LookUpIdentityInv ==
  ASSUME IInv, NEW t \in Thread, LookUpIdentity(t)
  PROVE  IInv'
  <1>. USE DEF LookUpIdentity
  <1>1. EntriesInv' /\ cooldown' \in 0 .. FailureTTL
    BY EntriesStay DEF IInv, WorldType
  <1>2. CASE left > 0 /\ ~req[t].force
    <2>1. gen >= 0
      BY <1>2 DEF IInv, WorldType
    <2>2. req' = [req EXCEPT ![t] = WithSnapshot(t, gen)]
      BY <1>2 DEF IInv, WorldType
    <2>. QED
      BY <2>1, <2>2, <1>1, SnapshotTaken, OneRequest
  <1>3. CASE (left = 0 \/ req[t].force) /\ ~(left > 0 /\ ~req[t].force)
    <2>1. CASE cooldown > 0
      <3>1. Fail(t)
        BY <1>3, <2>1
      <3>. QED
        BY <1>1, <3>1, FailInv
    <2>2. CASE ~(cooldown > 0)
      <3>. DEFINE q == req[t]
                  seen == IF left > 0 THEN gen ELSE -1
                  r == [q EXCEPT !.pc = "refresh", !.seen = seen, !.epoch = q.epoch]
      <3>1. q \in RequestType /\ RequestInv(q)
        BY DEF IInv, RequestsInv
      <3>2. seen \in -1 .. MaxGen /\ seen <= gen
        BY CapportAssumption DEF IInv, WorldType
      <3>3. r = [q EXCEPT !.pc = "refresh", !.seen = seen] /\ q.epoch \in Nat
        <4>. HIDE DEF q, seen
        <4>. QED
          BY <3>1 DEF RequestType
      <3>4. RequestInv(r) /\ r.pc = "refresh"
        <4>. HIDE DEF seen
        <4>1. RequestInv(r)
          BY <3>1, <3>2, <3>3, GotoInv
        <4>2. r.pc = "refresh"
          BY <3>1 DEF RequestType
        <4>. QED
          BY <4>1, <4>2
      <3>5. req' = [req EXCEPT ![t] = r]
        <4>1. req' = [req EXCEPT ![t].pc = "refresh", ![t].seen = seen]
          BY <1>3, <2>2
        <4>2. [req EXCEPT ![t].pc = "refresh", ![t].seen = seen]
                = [req EXCEPT ![t] = [q EXCEPT !.pc = "refresh", !.seen = seen]]
          <5>. HIDE DEF seen
          <5>. QED
            BY DEF IInv, RequestsInv
        <4>. QED
          BY <4>1, <4>2, <3>3
      <3>. HIDE DEF r
      <3>. QED
        BY <1>1, <3>4, <3>5, OneRequest
    <2>. QED
      BY <2>1, <2>2
  <1>. QED
    BY <1>2, <1>3

LEMMA EnterRefreshInv ==
  ASSUME IInv, NEW t \in Thread, EnterRefresh(t)
  PROVE  IInv'
  <1>. DEFINE q == req[t]
              usable == left > 0 /\ (q.force => gen > q.seen)
  <1>. USE DEF EnterRefresh
  <1>1. EntriesInv' /\ cooldown' \in 0 .. FailureTTL
    BY EntriesStay DEF IInv, WorldType
  <1>2. q \in RequestType /\ RequestInv(q)
    BY DEF IInv, RequestsInv
  <1>3. CASE usable
    <2>1. gen >= 0
      BY <1>3 DEF IInv, WorldType
    <2>2. req' = [req EXCEPT ![t] = WithSnapshot(t, gen)]
      BY <1>3
    <2>. QED
      BY <2>1, <2>2, <1>1, SnapshotTaken, OneRequest
  <1>4. CASE ~usable /\ cooldown > 0
    <2>1. Fail(t)
      BY <1>4
    <2>. QED
      BY <1>1, <2>1, FailInv
  <1>5. CASE ~usable /\ ~(cooldown > 0)
    <2>. DEFINE r == [q EXCEPT !.pc = "listing", !.seen = q.seen, !.epoch = q.epoch]
    <2>1. q.seen \in -1 .. MaxGen /\ q.seen <= gen /\ q.epoch \in Nat
      BY <1>2 DEF RequestInv, RequestType
    <2>2. RequestInv(r) /\ r.pc = "listing"
      <3>1. RequestInv(r)
        BY <1>2, <2>1, GotoInv
      <3>2. r.pc = "listing"
        BY <1>2 DEF RequestType
      <3>. QED
        BY <3>1, <3>2
    <2>3. r = [q EXCEPT !.pc = "listing"]
      <3>. HIDE DEF q
      <3>. QED
        BY <1>2 DEF RequestType
    <2>4. req' = [req EXCEPT ![t] = r]
      <3>1. req' = [req EXCEPT ![t].pc = "listing"]
        BY <1>5
      <3>. HIDE DEF r
      <3>. QED
        BY <2>3, <3>1 DEF IInv, RequestsInv
    <2>. HIDE DEF r
    <2>. QED
      BY <1>1, <2>2, <2>4, OneRequest
  <1>. QED
    BY <1>3, <1>4, <1>5

\* IdentityChanged is raised only with a snapshot in hand.
LEMMA AgainInv ==
  ASSUME IInv, NEW t \in Thread, req[t].pc \in {"calling", "answered"}, Again(t),
         cooldown' \in 0 .. FailureTTL, EntriesInv',
         UNCHANGED <<addr, auth, gen, left, snap, epoch, since>>
  PROVE  IInv'
  <1>. DEFINE q == req[t]
              pc == IF q.attempt < Attempts THEN "identity" ELSE "failed"
              r == [q EXCEPT !.pc = pc, !.attempt = q.attempt + 1]
  <1>1. RequestInv(q) /\ q \in RequestType /\ q.attempt \in 1 .. Attempts
    BY DEF IInv, RequestsInv, RequestInv
  <1>2. req' = [req EXCEPT ![t] = r]
    BY <1>1 DEF Again, IInv, RequestsInv
  <1>3. /\ pc \in {"identity", "failed"} /\ pc \in Pcs
        /\ q.attempt + 1 \in 0 .. Attempts + 1
        /\ pc = "identity" => q.attempt + 1 \in 1 .. Attempts
    BY <1>1 DEF Attempts, Pcs
  <1>4. /\ r \in RequestType /\ r.pc = pc /\ r.ip = q.ip /\ r.seen = q.seen /\ r.gen = q.gen
        /\ r.attempt = q.attempt + 1
    <2>. HIDE DEF q, pc
    <2>. QED
      BY <1>1, <1>3 DEF RequestType
  <1>5. RequestInv(r)
    <2>. HIDE DEF r, pc
    <2>. QED
      BY <1>1, <1>3, <1>4 DEF RequestInv, Resolved
  <1>. HIDE DEF r, pc
  <1>. QED
    BY <1>2, <1>3, <1>4, <1>5, OneRequest

\* An answer about the client in hand.
LEMMA AnswerInv ==
  ASSUME IInv, NEW t \in Thread, req[t].pc \in Resolved, NEW authorized \in BOOLEAN,
         authorized => req[t].mac \in since[req[t].gen],
         req' = [req EXCEPT ![t] = Answer(t, authorized)],
         cooldown' \in 0 .. FailureTTL, EntriesInv',
         UNCHANGED <<addr, auth, gen, left, snap, epoch, since>>
  PROVE  IInv'
  <1>. DEFINE q == req[t]
              r == Answer(t, authorized)
  <1>1. RequestInv(q) /\ q \in RequestType
    BY DEF IInv, RequestsInv
  <1>2. r = [q EXCEPT !.pc = "found", !.auth = authorized]
    BY DEF Answer
  <1>3. /\ r \in RequestType /\ r.pc = "found" /\ r.ip = q.ip /\ r.seen = q.seen
        /\ r.gen = q.gen /\ r.attempt = q.attempt /\ r.mac = q.mac /\ r.auth = authorized
    <2>. HIDE DEF q, r
    <2>. QED
      BY <1>1, <1>2 DEF RequestType, Pcs
  <1>4. RequestInv(r)
    <2>. HIDE DEF r
    <2>. QED
      BY <1>1, <1>3 DEF RequestInv, Resolved
  <1>5. req' = [req EXCEPT ![t] = r] /\ q.pc # "listed"
    BY DEF Resolved
  <1>. HIDE DEF r
  <1>. QED
    BY <1>3, <1>4, <1>5, OneRequest

\* The look at the cache: its entry is about the client in hand, or there is none.
LEMMA ReadStateInv ==
  ASSUME IInv, NEW t \in Thread, NEW next \in {"lock", "calling"},
         req[t].pc = IF next = "lock" THEN "state" ELSE "lock",
         ReadState(t, next),
         UNCHANGED <<addr, auth, gen, left, snap, cooldown, epoch, since>>
  PROVE  IInv'
  <1>. DEFINE q == req[t]
              ip == req[t].ip
  <1>1. RequestInv(q) /\ q \in RequestType /\ q.pc \in Resolved /\ ip \in IP
    BY DEF IInv, RequestsInv, RequestInv, Resolved
  <1>2. gen \in -1 .. MaxGen /\ q.gen \in 0 .. MaxGen /\ cooldown' \in 0 .. FailureTTL
    BY <1>1, CapportAssumption DEF IInv, WorldType, RequestInv, RequestType
  <1>3. CASE Valid(t)
    <2>1. EntryInv(ip, states[ip]) /\ states[ip] # None
      BY <1>1, <1>3 DEF IInv, EntriesInv, Valid
    <2>2. states[ip].auth \in BOOLEAN /\ (states[ip].auth => q.mac \in since[q.gen])
      BY <1>3, <2>1 DEF EntryInv, EntryType, Valid
    <2>3. req' = [req EXCEPT ![t] = Answer(t, states[ip].auth)] /\ UNCHANGED states
      BY <1>3 DEF ReadState
    <2>4. EntriesInv'
      BY <2>3, EntriesStay DEF IInv
    <2>. QED
      BY <1>1, <1>2, <2>2, <2>3, <2>4, AnswerInv
  <1>4. CASE ~Valid(t)
    <2>1. states' = [states EXCEPT ![ip] = None]
      BY <1>4 DEF ReadState
    <2>2. EntriesInv'
      BY <1>1, <2>1 DEF IInv, EntriesInv, EntryInv
    <2>3. CASE cooldown > 0
      <3>1. Fail(t)
        BY <1>4, <2>3 DEF ReadState
      <3>. QED
        BY <1>2, <2>2, <3>1, FailInv
    <2>4. CASE ~(cooldown > 0)
      <3>. DEFINE e == IF next = "lock" THEN epoch[ip] ELSE q.epoch
                  r == [q EXCEPT !.pc = next, !.seen = q.seen, !.epoch = e]
      <3>1. q.seen \in -1 .. MaxGen /\ q.seen <= gen /\ e \in Nat
        BY <1>1 DEF RequestInv, RequestType, IInv, WorldType
      <3>2. RequestInv(r) /\ r.pc = next
        <4>. HIDE DEF e
        <4>1. RequestInv(r)
          BY <1>1, <3>1, GotoInv DEF Resolved
        <4>2. r.pc = next
          BY <1>1 DEF RequestType
        <4>. QED
          BY <4>1, <4>2
      <3>3. r = [q EXCEPT !.pc = next, !.epoch = e]
        <4>. HIDE DEF q, e
        <4>. QED
          BY <1>1 DEF RequestType
      <3>4. req' = [req EXCEPT ![t] = r]
        <4>1. req' = [req EXCEPT ![t].pc = next, ![t].epoch = e]
          BY <1>4, <2>4 DEF ReadState
        <4>2. [req EXCEPT ![t].pc = next, ![t].epoch = e]
                = [req EXCEPT ![t] = [q EXCEPT !.pc = next, !.epoch = e]]
          <5>. HIDE DEF e
          <5>. QED
            BY DEF IInv, RequestsInv
        <4>. HIDE DEF r, e
        <4>. QED
          BY <4>1, <4>2, <3>3
      <3>. HIDE DEF r
      <3>. QED
        BY <1>2, <2>2, <3>2, <3>4, OneRequest
    <2>. QED
      BY <2>3, <2>4
  <1>. QED
    BY <1>3, <1>4

LEMMA LookUpStateInv ==
  ASSUME IInv, NEW t \in Thread, LookUpState(t) \/ EnterLock(t)
  PROVE  IInv'
  <1>1. CASE LookUpState(t)
    BY <1>1, ReadStateInv DEF LookUpState
  <1>2. CASE EnterLock(t)
    BY <1>2, ReadStateInv DEF EnterLock
  <1>. QED
    BY <1>1, <1>2

LEMMA DetailReadInv ==
  ASSUME IInv, NEW t \in Thread, NEW fallback \in BOOLEAN, DetailRead(t, fallback)
  PROVE  IInv'
  <1>. DEFINE q == req[t]
              known == q.mac \in IF fallback THEN snap[q.gen].auth ELSE auth
              r == [q EXCEPT !.pc = "answered", !.auth = known]
  <1>1. RequestInv(q) /\ q \in RequestType /\ q.pc = "calling"
    BY DEF IInv, RequestsInv, DetailRead
  <1>2. EntriesInv' /\ cooldown' \in 0 .. FailureTTL
    BY EntriesStay DEF IInv, WorldType, DetailRead
  <1>3. CASE IdentityMatches(t)
    <2>1. gen \in 0 .. MaxGen /\ q.gen = gen /\ gen <= gen
      BY <1>1, <1>3, CapportAssumption DEF IdentityMatches, RequestInv, Resolved, IInv, WorldType
    <2>2. snap[gen].auth \cup auth \subseteq since[gen]
      BY <2>1 DEF IInv, SinceInv, Read
    <2>3. known \in BOOLEAN /\ (known => q.mac \in since[q.gen])
      BY <2>1, <2>2
    <2>4. req' = [req EXCEPT ![t] = r]
      <3>1. req' = [req EXCEPT ![t].pc = "answered", ![t].auth = known]
        BY <1>3 DEF DetailRead
      <3>. HIDE DEF known
      <3>. QED
        BY <3>1 DEF IInv, RequestsInv
    <2>5. /\ r \in RequestType /\ r.pc = "answered" /\ r.ip = q.ip /\ r.seen = q.seen
          /\ r.gen = q.gen /\ r.attempt = q.attempt /\ r.mac = q.mac /\ r.auth = known
      <3>. HIDE DEF q, known
      <3>. QED
        BY <1>1, <2>3 DEF RequestType, Pcs
    <2>6. RequestInv(r)
      <3>. HIDE DEF r, known
      <3>. QED
        BY <1>1, <2>3, <2>5 DEF RequestInv, Resolved
    <2>. HIDE DEF r, known
    <2>. QED
      BY <1>1, <1>2, <2>4, <2>5, <2>6, OneRequest DEF DetailRead
  <1>4. CASE ~IdentityMatches(t)
    BY <1>1, <1>2, <1>4, AgainInv DEF DetailRead
  <1>. QED
    BY <1>3, <1>4

LEMMA DetailFailsInv ==
  ASSUME IInv, NEW t \in Thread, DetailFails(t)
  PROVE  IInv'
  <1>1. EntriesInv'
    BY EntriesStay DEF IInv, DetailFails
  <1>2. cooldown' \in 0 .. FailureTTL
    BY CapportAssumption DEF IInv, WorldType, DetailFails
  <1>3. CASE IdentityMatches(t)
    BY <1>1, <1>2, <1>3, FailInv DEF DetailFails
  <1>4. CASE ~IdentityMatches(t)
    BY <1>1, <1>2, <1>4, AgainInv DEF DetailFails
  <1>. QED
    BY <1>3, <1>4

\* What is stored is about the current snapshot: the check and the store are one critical section.
LEMMA StoreStateInv ==
  ASSUME IInv, NEW t \in Thread, StoreState(t)
  PROVE  IInv'
  <1>. DEFINE q == req[t]
              e == Entry(t)
  <1>. USE DEF StoreState
  <1>1. RequestInv(q) /\ q \in RequestType /\ q.pc = "answered" /\ q.ip \in IP
    BY DEF IInv, RequestsInv, RequestInv
  <1>2. cooldown' \in 0 .. FailureTTL
    BY DEF IInv, WorldType
  <1>3. CASE IdentityMatches(t)
    <2>1. gen \in 0 .. MaxGen /\ q.gen = gen /\ q.mac = snap[gen].map[q.ip] /\ q.mac \in Mac
      BY <1>1, <1>3, CapportAssumption DEF IdentityMatches, RequestInv, Resolved, IInv, WorldType
    <2>2. q.auth \in BOOLEAN /\ (q.auth => q.mac \in since[gen])
      BY <1>1, <2>1 DEF RequestInv, RequestType
    <2>3. e \in EntryType
      BY <2>1, <2>2, CapportAssumption DEF Entry, EntryType
    <2>4. e.gen = gen /\ e.mac = q.mac /\ e.auth = q.auth
      BY <2>1 DEF Entry
    <2>5. EntriesInv'
      <3>1. states' = [states EXCEPT ![q.ip] = e] /\ UNCHANGED <<gen, snap, since>>
        BY <1>3
      <3>2. ASSUME NEW ip \in IP PROVE EntryInv(ip, states[ip])'
        <4>1. CASE ip = q.ip
          <5>1. states'[ip] = e
            BY <1>1, <3>1, <4>1 DEF IInv, EntriesInv
          <5>. HIDE DEF e
          <5>. QED
            BY <2>1, <2>2, <2>3, <2>4, <3>1, <4>1, <5>1 DEF EntryInv
        <4>2. CASE ip # q.ip
          <5>1. states'[ip] = states[ip]
            BY <3>1, <4>2 DEF IInv, EntriesInv
          <5>. QED
            BY <3>1, <5>1 DEF IInv, EntriesInv, EntryInv
        <4>. QED
          BY <4>1, <4>2
      <3>. QED
        BY <3>1, <3>2 DEF IInv, EntriesInv
    <2>6. req' = [req EXCEPT ![t] = Answer(t, q.auth)]
      BY <1>3
    <2>. QED
      BY <1>1, <1>2, <2>1, <2>2, <2>5, <2>6, AnswerInv DEF Resolved
  <1>4. CASE ~IdentityMatches(t)
    BY <1>1, <1>2, <1>4, AgainInv, EntriesStay DEF IInv
  <1>. QED
    BY <1>3, <1>4

LEMMA RespondInv ==
  ASSUME IInv, NEW t \in Thread, Respond(t)
  PROVE  IInv'
  <1>. USE DEF Respond
  <1>1. EntriesInv' /\ cooldown' \in 0 .. FailureTTL
    BY EntriesStay DEF IInv, WorldType
  <1>2. gen \in -1 .. MaxGen /\ MaxGen \in Nat
    BY CapportAssumption DEF IInv, WorldType
  <1>3. Idle \in RequestType /\ Idle.seen = -1 /\ Idle.gen = -1 /\ Idle.pc = "idle"
    BY <1>2 DEF Idle, RequestType, Pcs, Attempts, Clients
  <1>4. RequestInv(Idle)
    BY <1>2, <1>3 DEF RequestInv, Resolved
  <1>. QED
    BY <1>1, <1>3, <1>4, OneRequest

LEMMA ListFailsInv ==
  ASSUME IInv, NEW t \in Thread, ListFails(t)
  PROVE  IInv'
  <1>1. EntriesInv'
    BY EntriesStay DEF IInv, ListFails
  <1>2. cooldown' \in 0 .. FailureTTL
    BY CapportAssumption DEF ListFails
  <1>. QED
    BY <1>1, <1>2, FailInv DEF ListFails

-----------------------------------------------------------------------------
(* Steps that read the list and replace the snapshot *)

\* The list of the next generation is written where no entry of the cache and no request looks.
LEMMA ListReadInv ==
  ASSUME IInv, NEW t \in Thread, ListRead(t)
  PROVE  IInv'
  <1>. DEFINE q == req[t]
              r == [q EXCEPT !.pc = "listed"]
              g == gen + 1
  <1>. USE DEF ListRead
  <1>1. RequestInv(q) /\ q \in RequestType /\ q.pc = "listing"
    BY DEF IInv, RequestsInv
  <1>2. gen \in -1 .. MaxGen /\ MaxGen \in Nat /\ gen < MaxGen /\ g \in 0 .. MaxGen
    BY CapportAssumption DEF IInv, WorldType
  <1>3. /\ r \in RequestType /\ r.pc = "listed" /\ r.ip = q.ip /\ r.seen = q.seen
        /\ r.gen = q.gen /\ r.attempt = q.attempt
    <2>. HIDE DEF q
    <2>. QED
      BY <1>1 DEF RequestType, Pcs
  <1>4. RequestInv(r)
    <2>. HIDE DEF r
    <2>. QED
      BY <1>1, <1>2, <1>3 DEF RequestInv, Resolved
  <1>5. /\ req' = [req EXCEPT ![t] = r] /\ req' \in [Thread -> RequestType] /\ req'[t] = r
        /\ \A u \in Thread : u # t => req'[u] = req[u]
    <2>1. req' = [req EXCEPT ![t] = r]
      BY DEF IInv, RequestsInv
    <2>. HIDE DEF r
    <2>. QED
      BY <1>3, <2>1 DEF IInv, RequestsInv
  <1>6. [map |-> addr, auth |-> auth] \in SnapType /\ auth \in SUBSET Mac
    BY DEF IInv, WorldType, SnapType
  <1>7. /\ snap' = [snap EXCEPT ![g] = [map |-> addr, auth |-> auth]]
        /\ snap' \in [0 .. MaxGen -> SnapType] /\ snap'[g].auth = auth
        /\ \A h \in 0 .. MaxGen : h # g => snap'[h] = snap[h]
    <2>1. snap' = [snap EXCEPT ![g] = [map |-> addr, auth |-> auth]]
      OBVIOUS
    <2>. QED
      BY <1>2, <1>6, <2>1 DEF IInv, WorldType
  <1>8. /\ since' \in [0 .. MaxGen -> SUBSET Mac] /\ since'[g] = auth
        /\ \A h \in 0 .. MaxGen : h # g => since'[h] = since[h]
    BY <1>2, <1>6 DEF IInv, WorldType
  <1>9. WorldType'
    BY <1>7, <1>8 DEF IInv, WorldType
  <1>10. RequestsInv'
    <2>1. ASSUME NEW u \in Thread PROVE RequestInv(req[u])'
      <3>1. CASE u = t
        <4>1. req'[u] = r /\ gen' = gen
          BY <1>5, <3>1
        <4>. HIDE DEF r
        <4>. QED
          BY <1>2, <1>3, <1>4, <4>1 DEF RequestInv, Resolved
      <3>2. CASE u # t
        <4>1. RequestInv(req[u]) /\ req[u] \in RequestType
          BY DEF IInv, RequestsInv
        <4>2. req[u].gen >= 0 => req[u].gen \in 0 .. MaxGen /\ req[u].gen # g
          BY <1>2, <4>1 DEF RequestInv, RequestType
        <4>. QED
          BY <1>5, <1>8, <3>2, <4>1, <4>2 DEF RequestInv, Resolved
      <3>. QED
        BY <3>1, <3>2
    <2>. HIDE DEF r
    <2>. QED
      BY <1>5, <2>1 DEF RequestsInv
  <1>11. OneLists'
    BY <1>1, <1>3, <1>5 DEF IInv, OneLists, Listing
  <1>12. EntriesInv'
    <2>1. ASSUME NEW ip \in IP, states[ip] # None
          PROVE  gen \in 0 .. MaxGen /\ gen # g
      BY <1>2, <2>1 DEF IInv, EntriesInv, EntryInv, EntryType
    <2>. QED
      BY <1>2, <1>7, <1>8, <2>1 DEF IInv, EntriesInv, EntryInv
  <1>13. SinceInv'
    <2>1. ASSUME NEW h \in 0 .. MaxGen, Read(h)'
          PROVE  snap'[h].auth \cup auth \subseteq since'[h]
      <3>1. CASE h = g
        BY <1>7, <1>8, <3>1
      <3>2. CASE h # g
        <4>1. h <= gen
          BY <2>1, <1>2, <3>2 DEF Read
        <4>. QED
          BY <1>7, <1>8, <3>2, <4>1 DEF IInv, SinceInv, Read
      <3>. QED
        BY <3>1, <3>2
    <2>. QED
      BY <2>1 DEF SinceInv
  <1>. QED
    BY <1>9, <1>10, <1>11, <1>12, <1>13 DEF IInv

\* A new snapshot: every entry is of an earlier generation, and goes.
LEMMA StoreIdentityInv ==
  ASSUME IInv, NEW t \in Thread, StoreIdentity(t)
  PROVE  IInv'
  <1>. DEFINE q == req[t]
              g == gen + 1
              mac == snap[g].map[q.ip]
              next == CASE mac = None -> "not_found" [] mac = Ambiguous -> "failed" [] OTHER -> "state"
              r == WithSnapshot(t, g)
  <1>. USE DEF StoreIdentity
  <1>1. RequestInv(q) /\ q \in RequestType /\ q.pc = "listed" /\ q.ip \in IP
    BY DEF IInv, RequestsInv, RequestInv
  <1>2. gen \in -1 .. MaxGen /\ MaxGen \in Nat /\ gen < MaxGen /\ g \in 0 .. MaxGen /\ g \in -1 .. MaxGen
    BY <1>1, CapportAssumption DEF IInv, WorldType, RequestInv
  <1>3. mac \in Clients
    BY <1>1, <1>2 DEF IInv, WorldType, SnapType
  <1>4. next \in {"not_found", "failed", "state"} /\ (next = "state" => mac \in Mac)
    BY <1>3 DEF Clients
  <1>5. r = [q EXCEPT !.gen = g, !.mac = mac, !.force = FALSE, !.pc = next]
    BY DEF WithSnapshot
  <1>6. /\ r \in RequestType /\ r.pc = next /\ r.gen = g /\ r.mac = mac /\ r.ip = q.ip
        /\ r.attempt = q.attempt /\ r.seen = q.seen
    <2>. HIDE DEF g, mac, next, q, r
    <2>. QED
      BY <1>1, <1>2, <1>3, <1>4, <1>5 DEF RequestType, Pcs
  <1>7. /\ req' = [req EXCEPT ![t] = r] /\ req' \in [Thread -> RequestType] /\ req'[t] = r
        /\ \A u \in Thread : u # t => req'[u] = req[u]
    <2>1. req' = [req EXCEPT ![t] = r]
      OBVIOUS
    <2>. HIDE DEF r
    <2>. QED
      BY <1>6, <2>1 DEF IInv, RequestsInv
  <1>8. RequestsInv'
    <2>1. ASSUME NEW u \in Thread PROVE RequestInv(req[u])'
      <3>1. CASE u = t
        <4>1. req'[u] = r /\ gen' = g /\ since' = since
          BY <1>7, <3>1
        <4>2. r.seen <= g /\ r.gen <= g /\ r.gen >= 0
          <5>1. q.seen \in -1 .. MaxGen /\ q.seen <= gen
            BY <1>1 DEF RequestInv, RequestType
          <5>. HIDE DEF r, q
          <5>. QED
            BY <1>2, <1>6, <5>1
        <4>3. r.pc # "listed" /\ r.pc \notin {"answered", "found"} /\ (r.pc \in Resolved => r.mac \in Mac)
          <5>. HIDE DEF r, next, mac
          <5>. QED
            BY <1>4, <1>6 DEF Resolved
        <4>4. r.ip \in IP /\ r.attempt \in 1 .. Attempts
          <5>. HIDE DEF r
          <5>. QED
            BY <1>1, <1>6 DEF RequestInv
        <4>. HIDE DEF r, g
        <4>. QED
          BY <1>6, <4>1, <4>2, <4>3, <4>4 DEF RequestInv
      <3>2. CASE u # t
        <4>1. RequestInv(req[u]) /\ req[u] \in RequestType /\ req[u].pc # "listed"
          BY <1>1, <3>2 DEF IInv, RequestsInv, OneLists, Listing
        <4>2. req'[u] = req[u] /\ gen' = gen + 1 /\ since' = since
          BY <1>7, <3>2
        <4>3. req[u].seen <= gen' /\ req[u].gen <= gen'
          BY <1>2, <4>1, <4>2 DEF RequestInv, RequestType
        <4>. QED
          BY <4>1, <4>2, <4>3 DEF RequestInv
      <3>. QED
        BY <3>1, <3>2
    <2>. HIDE DEF r
    <2>. QED
      BY <1>7, <2>1 DEF RequestsInv
  <1>9. OneLists'
    <2>1. r.pc \notin {"listing", "listed"}
      <3>. HIDE DEF r, next
      <3>. QED
        BY <1>4, <1>6
    <2>. HIDE DEF r
    <2>. QED
      BY <1>7, <2>1 DEF IInv, OneLists, Listing
  <1>10. WorldType'
    <2>1. left' \in 0 .. TTL /\ gen' \in -1 .. MaxGen /\ gen' >= 0
      BY <1>2, CapportAssumption
    <2>2. epoch' \in [IP -> Nat]
      BY DEF IInv, WorldType
    <2>. QED
      BY <2>1, <2>2 DEF IInv, WorldType
  <1>11. EntriesInv'
    <2>1. states' = Pruned(g) /\ gen' = g /\ UNCHANGED <<snap, since>>
      OBVIOUS
    <2>2. DOMAIN states' = IP
      BY <2>1 DEF Pruned
    <2>3. ASSUME NEW ip \in IP, states'[ip] # None
          PROVE  FALSE
      <3>1. states'[ip] = states[ip] /\ states[ip].gen = g
        BY <2>1, <2>3 DEF Pruned
      <3>2. states[ip].gen = gen
        BY <2>3, <3>1 DEF IInv, EntriesInv, EntryInv
      <3>. QED
        BY <1>2, <3>1, <3>2
    <2>. QED
      BY <2>2, <2>3 DEF EntriesInv, EntryInv
  <1>12. SinceInv'
    <2>1. ASSUME NEW h \in 0 .. MaxGen, Read(h)' PROVE Read(h)
      <3>1. \A u \in Thread : req'[u].pc # "listed"
        <4>1. r.pc # "listed"
          <5>. HIDE DEF r, next
          <5>. QED
            BY <1>4, <1>6
        <4>. HIDE DEF r
        <4>. QED
          BY <1>1, <1>7, <4>1 DEF IInv, OneLists, Listing
      <3>2. h <= g
        BY <2>1, <3>1 DEF Read
      <3>. QED
        BY <1>1, <1>2, <3>2 DEF Read
    <2>. QED
      BY <2>1 DEF IInv, SinceInv
  <1>. QED
    BY <1>8, <1>9, <1>10, <1>11, <1>12 DEF IInv

-----------------------------------------------------------------------------
(* Steps of the world *)

LEMMA MoveInv ==
  ASSUME IInv, NEW ip \in IP, NEW mac \in Clients, Move(ip, mac)
  PROVE  IInv'
  <1>. USE DEF Move
  <1>1. WorldType'
    BY DEF IInv, WorldType
  <1>2. RequestsInv'
    BY DEF IInv, RequestsInv, RequestInv
  <1>3. OneLists'
    BY DEF IInv, OneLists, Listing
  <1>4. EntriesInv'
    BY EntriesStay DEF IInv
  <1>5. SinceInv'
    BY DEF IInv, SinceInv, Read
  <1>. QED
    BY <1>1, <1>2, <1>3, <1>4, <1>5 DEF IInv

LEMMA AuthorizeInv ==
  ASSUME IInv, NEW mac \in Mac, Authorize(mac)
  PROVE  IInv'
  <1>. USE DEF Authorize
  <1>1. auth' \in SUBSET Mac
    BY DEF IInv, WorldType
  <1>2. /\ since' \in [0 .. MaxGen -> SUBSET Mac]
        /\ \A g \in 0 .. MaxGen : since'[g] = since[g] \cup auth'
    <2>1. since' = [g \in 0 .. MaxGen |-> since[g] \cup auth']
      BY DEF IInv, WorldType
    <2>. QED
      BY <1>1, <2>1 DEF IInv, WorldType
  <1>3. WorldType'
    BY <1>1, <1>2 DEF IInv, WorldType
  <1>4. RequestsInv'
    <2>1. ASSUME NEW t \in Thread PROVE RequestInv(req[t])'
      <3>1. RequestInv(req[t]) /\ req[t] \in RequestType /\ gen \in -1 .. MaxGen /\ MaxGen \in Nat
        BY CapportAssumption DEF IInv, RequestsInv, WorldType
      <3>2. req[t].pc \in Resolved => req[t].gen \in 0 .. MaxGen
        BY <3>1 DEF RequestInv, RequestType
      <3>3. req[t].pc \in {"answered", "found"} /\ req[t].auth => req[t].mac \in since'[req[t].gen]
        BY <1>2, <3>1, <3>2 DEF RequestInv, Resolved
      <3>. QED
        BY <3>1, <3>3 DEF RequestInv
    <2>. QED
      BY <2>1 DEF IInv, RequestsInv
  <1>5. OneLists'
    BY DEF IInv, OneLists, Listing
  <1>6. EntriesInv'
    <2>1. ASSUME NEW ip \in IP, states[ip] # None PROVE gen \in 0 .. MaxGen
      BY <2>1 DEF IInv, EntriesInv, EntryInv, EntryType
    <2>. QED
      BY <1>2, <2>1 DEF IInv, EntriesInv, EntryInv
  <1>7. SinceInv'
    <2>1. ASSUME NEW g \in 0 .. MaxGen, Read(g)'
          PROVE  snap'[g].auth \cup auth' \subseteq since'[g]
      <3>1. Read(g)
        BY <2>1 DEF Read
      <3>. QED
        BY <1>2, <3>1 DEF IInv, SinceInv
    <2>. QED
      BY <2>1 DEF SinceInv
  <1>. QED
    BY <1>3, <1>4, <1>5, <1>6, <1>7 DEF IInv

LEMMA TickInv ==
  ASSUME IInv, Tick
  PROVE  IInv'
  <1>. USE DEF Tick
  <1>1. WorldType'
    <2>1. left' \in 0 .. TTL /\ (left' > 0 => left > 0)
      BY CapportAssumption DEF IInv, WorldType
    <2>2. cooldown' \in 0 .. FailureTTL
      BY CapportAssumption DEF IInv, WorldType
    <2>. QED
      BY <2>1, <2>2 DEF IInv, WorldType
  <1>2. RequestsInv'
    BY DEF IInv, RequestsInv, RequestInv
  <1>3. OneLists'
    BY DEF IInv, OneLists, Listing
  <1>4. EntriesInv'
    <2>1. ASSUME NEW ip \in IP PROVE EntryInv(ip, states[ip])'
      <3>. DEFINE s == states[ip]
                  n == [s EXCEPT !.left = s.left - 1]
      <3>1. states'[ip] = IF s = None \/ s.left = 1 THEN None ELSE n
        <4>1. states' = [i \in IP |-> IF states[i] = None \/ states[i].left = 1 THEN None
                                      ELSE [states[i] EXCEPT !.left = @ - 1]]
          OBVIOUS
        <4>. QED
          BY <4>1
      <3>2. CASE s = None \/ s.left = 1
        BY <3>1, <3>2 DEF EntryInv
      <3>3. CASE ~(s = None \/ s.left = 1)
        <4>1. EntryInv(ip, s) /\ s \in EntryType
          BY <3>3 DEF IInv, EntriesInv, EntryInv
        <4>2. s.left - 1 \in 1 .. TTL
          BY <3>3, <4>1, CapportAssumption DEF EntryType
        <4>3. n \in EntryType /\ n.gen = s.gen /\ n.mac = s.mac /\ n.auth = s.auth
          <5>. HIDE DEF s
          <5>. QED
            BY <4>1, <4>2 DEF EntryType
        <4>4. states'[ip] = n
          BY <3>1, <3>3
        <4>. HIDE DEF n
        <4>. QED
          BY <3>3, <4>1, <4>3, <4>4 DEF EntryInv
      <3>. QED
        BY <3>2, <3>3
    <2>. QED
      BY <2>1 DEF EntriesInv
  <1>5. SinceInv'
    BY DEF IInv, SinceInv, Read
  <1>. QED
    BY <1>1, <1>2, <1>3, <1>4, <1>5 DEF IInv

-----------------------------------------------------------------------------
(* The invariant holds *)

LEMMA InitInv == Init => IInv
  <1>. SUFFICES ASSUME Init PROVE IInv
    OBVIOUS
  <1>. USE DEF Init
  <1>1. MaxGen \in Nat /\ TTL \in Nat /\ FailureTTL \in Nat
    BY CapportAssumption
  <1>2. NoSnap \in SnapType
    BY DEF NoSnap, SnapType, Clients
  <1>3. WorldType
    BY <1>1, <1>2 DEF WorldType, Clients
  <1>4. Idle \in RequestType /\ Idle.seen = -1 /\ Idle.gen = -1 /\ Idle.pc = "idle"
    BY <1>1 DEF Idle, RequestType, Pcs, Attempts, Clients
  <1>5. RequestInv(Idle)
    BY <1>1, <1>4 DEF RequestInv, Resolved
  <1>6. RequestsInv /\ OneLists
    BY <1>4, <1>5 DEF RequestsInv, OneLists, Listing
  <1>7. EntriesInv
    BY DEF EntriesInv, EntryInv
  <1>8. SinceInv
    BY <1>1, <1>4 DEF SinceInv, Read
  <1>. QED
    BY <1>3, <1>6, <1>7, <1>8 DEF IInv

LEMMA StepInv == IInv /\ [Next]_vars => IInv'
  <1>. SUFFICES ASSUME IInv, [Next]_vars PROVE IInv'
    OBVIOUS
  <1>1. ASSUME NEW t \in Thread, Request(t) PROVE IInv'
    BY <1>1, StartInv, LookUpIdentityInv, EnterRefreshInv, ListReadInv, ListFailsInv,
       StoreIdentityInv, LookUpStateInv, DetailReadInv, DetailFailsInv, StoreStateInv, RespondInv
       DEF Request
  <1>2. CASE World
    BY <1>2, MoveInv, AuthorizeInv, TickInv DEF World, Clients
  <1>3. CASE UNCHANGED vars
    BY <1>3 DEF vars, IInv, WorldType, RequestsInv, RequestInv, OneLists, Listing, EntriesInv,
                EntryInv, SinceInv, Read
  <1>. QED
    BY <1>1, <1>2, <1>3 DEF Next

\* The cache, its requests and what they know of the snapshots, in every state of every behaviour.
THEOREM Invariance == Spec => []IInv
  BY InitInv, StepInv, PTL DEF Spec

-----------------------------------------------------------------------------
(* The properties *)

LEMMA OneListing == OneLists => Cardinality(Listing) <= 1
  <1>. SUFFICES ASSUME OneLists PROVE Cardinality(Listing) <= 1
    OBVIOUS
  <1>1. CASE Listing = {}
    BY <1>1, FS_EmptySet
  <1>2. CASE Listing # {}
    <2>1. PICK t \in Listing : TRUE
      BY <1>2
    <2>2. Listing = {t}
      BY <2>1 DEF OneLists
    <2>3. Cardinality({t}) = 1
      BY FS_Singleton
    <2>. QED
      BY <2>2, <2>3
  <1>. QED
    BY <1>1, <1>2

LEMMA InvProperties == IInv => StatesAreCurrent
  <1>. SUFFICES ASSUME IInv PROVE StatesAreCurrent
    OBVIOUS
  <1>1. StatesMatchSnapshot
    BY DEF IInv, EntriesInv, EntryInv, StatesMatchSnapshot
  <1>2. AuthorizedSinceList
    BY DEF IInv, RequestsInv, RequestInv, AuthorizedSinceList
  <1>3. \A ip \in IP : states[ip] # None => states[ip].mac \in Mac /\ states[ip].left \in 1 .. TTL
    BY DEF IInv, EntriesInv, EntryInv, EntryType
  <1>4. \A t \in Thread : req[t].attempt \in 0 .. Attempts + 1
    BY DEF IInv, RequestsInv, RequestType
  <1>5. TypeOK
    BY <1>3, <1>4, OneListing DEF IInv, WorldType, TypeOK
  <1>. QED
    BY <1>1, <1>2, <1>5 DEF StatesAreCurrent

\* What the CAPPORT service caches for an address is about the client and the list that the current
\* snapshot shows there, at most one thread lists the clients, and no answer says "authorized" of a
\* client that has not been authorized since its list was read (StatesAreCurrent), for any number of
\* threads, addresses, clients and refreshes.
THEOREM CacheCorrectness == Spec => []StatesAreCurrent
  BY Invariance, InvProperties, PTL

\* What the snapshot handed to a request makes of it.
LEMMA WithSnapshotFields ==
  ASSUME IInv, NEW t \in Thread, NEW g
  PROVE  /\ WithSnapshot(t, g).gen = g
         /\ WithSnapshot(t, g).pc \in {"not_found", "failed", "state"}
  <1>. DEFINE q == req[t]
              mac == snap[g].map[q.ip]
              next == CASE mac = None -> "not_found" [] mac = Ambiguous -> "failed" [] OTHER -> "state"
  <1>1. q \in RequestType
    BY DEF IInv, RequestsInv
  <1>2. WithSnapshot(t, g) = [q EXCEPT !.gen = g, !.mac = mac, !.force = FALSE, !.pc = next]
    BY DEF WithSnapshot
  <1>3. next \in {"not_found", "failed", "state"}
    OBVIOUS
  <1>4. WithSnapshot(t, g).gen = g /\ WithSnapshot(t, g).pc = next
    <2>. HIDE DEF q, mac, next
    <2>. QED
      BY <1>1, <1>2 DEF RequestType
  <1>. QED
    BY <1>3, <1>4

\* What a step of request t may do to its own pc and generation, action by action.
LEMMA Settling ==
  ASSUME IInv, NEW t \in Thread, Request(t)
  PROVE  /\ req[t].pc # "found" /\ req'[t].pc = "found" =>
              req'[t].gen = gen /\ req'[t].mac = snap[gen].map[req[t].ip]
         /\ req[t].pc \in {"refresh", "listed"} /\ req[t].force /\ req'[t].gen # req[t].gen =>
              req'[t].gen > req[t].seen
  <1>. DEFINE q == req[t]
  <1>1. RequestInv(q) /\ q \in RequestType /\ DOMAIN req = Thread
    BY DEF IInv, RequestsInv
  <1>2. gen \in -1 .. MaxGen /\ MaxGen \in Nat /\ q.seen \in -1 .. MaxGen /\ q.seen <= gen
    BY <1>1, CapportAssumption DEF IInv, WorldType, RequestInv, RequestType
  <1>3. ASSUME Fail(t) PROVE req'[t].pc = "failed" /\ req'[t].gen = q.gen
    BY <1>1, <1>3 DEF Fail, RequestType
  <1>4. ASSUME Again(t) PROVE req'[t].pc \in {"identity", "failed"} /\ req'[t].gen = q.gen
    BY <1>1, <1>4 DEF Again, RequestType
  <1>5. ASSUME NEW a, req' = [req EXCEPT ![t] = Answer(t, a)]
        PROVE  req'[t].gen = q.gen /\ req'[t].mac = q.mac
    BY <1>1, <1>5 DEF Answer, RequestType
  <1>6. CASE \E ip \in IP, force \in BOOLEAN : Start(t, ip, force)
    <2>1. PICK ip \in IP, force \in BOOLEAN : Start(t, ip, force)
      BY <1>6
    <2>2. req'[t] = [Idle EXCEPT !.pc = "identity", !.ip = ip, !.force = force, !.attempt = 1] /\ q.pc = "idle"
      BY <1>1, <2>1 DEF Start
    <2>3. req'[t].pc = "identity"
      BY <2>2 DEF Idle
    <2>. QED
      BY <2>2, <2>3
  <1>7. CASE LookUpIdentity(t)
    <2>1. q.pc = "identity"
      BY <1>7 DEF LookUpIdentity
    <2>2. CASE req' = [req EXCEPT ![t] = WithSnapshot(t, gen)]
      <3>1. req'[t] = WithSnapshot(t, gen)
        BY <1>1, <2>2
      <3>2. req'[t].pc # "found"
        BY <3>1, WithSnapshotFields
      <3>. QED
        BY <2>1, <3>2
    <2>3. CASE Fail(t)
      BY <1>3, <2>1, <2>3
    <2>4. CASE \E seen : req' = [req EXCEPT ![t].pc = "refresh", ![t].seen = seen]
      <3>1. req'[t].pc = "refresh"
        BY <1>1, <2>4 DEF RequestType
      <3>. QED
        BY <2>1, <3>1
    <2>. QED
      BY <1>7, <2>2, <2>3, <2>4 DEF LookUpIdentity
  <1>8. CASE EnterRefresh(t)
    <2>1. q.pc = "refresh"
      BY <1>8 DEF EnterRefresh
    <2>2. CASE left > 0 /\ (q.force => gen > q.seen) /\ req' = [req EXCEPT ![t] = WithSnapshot(t, gen)]
      <3>1. req'[t] = WithSnapshot(t, gen)
        BY <1>1, <2>2
      <3>2. req'[t].pc # "found" /\ req'[t].gen = gen
        BY <3>1, WithSnapshotFields
      <3>. QED
        BY <2>2, <3>2
    <2>3. CASE Fail(t)
      BY <1>3, <2>1, <2>3
    <2>4. CASE req' = [req EXCEPT ![t].pc = "listing"]
      <3>1. req'[t].pc = "listing" /\ req'[t].gen = q.gen
        BY <1>1, <2>4 DEF RequestType
      <3>. QED
        BY <2>1, <3>1
    <2>. QED
      BY <1>8, <2>2, <2>3, <2>4 DEF EnterRefresh
  <1>9. CASE ListRead(t)
    <2>1. q.pc = "listing" /\ req'[t].pc = "listed"
      BY <1>1, <1>9 DEF ListRead, RequestType
    <2>. QED
      BY <2>1
  <1>10. CASE ListFails(t)
    BY <1>3, <1>10 DEF ListFails
  <1>11. CASE StoreIdentity(t)
    <2>1. req'[t] = WithSnapshot(t, gen + 1)
      BY <1>1, <1>11 DEF StoreIdentity
    <2>2. req'[t].pc # "found" /\ req'[t].gen = gen + 1
      BY <2>1, WithSnapshotFields
    <2>. QED
      BY <1>2, <2>2
  <1>12. ASSUME NEW next \in {"lock", "calling"}, ReadState(t, next), q.pc \in {"state", "lock"}
         PROVE  req'[t].pc = "found" => req'[t].gen = gen /\ req'[t].mac = snap[gen].map[q.ip]
    <2>1. CASE Valid(t) /\ req' = [req EXCEPT ![t] = Answer(t, states[q.ip].auth)]
      <3>1. q.ip \in IP /\ req'[t].gen = q.gen /\ req'[t].mac = q.mac
        BY <1>1, <1>5, <1>12, <2>1 DEF RequestInv
      <3>2. states[q.ip].gen = gen /\ states[q.ip].mac = snap[gen].map[q.ip]
        BY <2>1, <3>1 DEF IInv, EntriesInv, EntryInv, Valid
      <3>. QED
        BY <2>1, <3>1, <3>2 DEF Valid
    <2>2. CASE Fail(t)
      BY <1>3, <2>2
    <2>3. CASE \E e : req' = [req EXCEPT ![t].pc = next, ![t].epoch = e]
      <3>1. req'[t].pc = next
        BY <1>1, <2>3 DEF RequestType
      <3>. QED
        BY <3>1
    <2>. QED
      BY <1>12, <2>1, <2>2, <2>3 DEF ReadState
  <1>13. CASE LookUpState(t) \/ EnterLock(t)
    BY <1>12, <1>13 DEF LookUpState, EnterLock
  <1>14. CASE \E fallback \in BOOLEAN : DetailRead(t, fallback)
    <2>1. q.pc = "calling"
      BY <1>14 DEF DetailRead
    <2>2. CASE \E a : req' = [req EXCEPT ![t].pc = "answered", ![t].auth = a]
      <3>1. req'[t].pc = "answered"
        BY <1>1, <2>2 DEF RequestType
      <3>. QED
        BY <2>1, <3>1
    <2>3. CASE Again(t)
      BY <1>4, <2>1, <2>3
    <2>. QED
      BY <1>14, <2>2, <2>3 DEF DetailRead
  <1>15. CASE DetailFails(t)
    BY <1>3, <1>4, <1>15 DEF DetailFails
  <1>16. CASE StoreState(t)
    <2>1. q.pc = "answered"
      BY <1>16 DEF StoreState
    <2>2. CASE IdentityMatches(t) /\ req' = [req EXCEPT ![t] = Answer(t, q.auth)]
      <3>1. req'[t].gen = q.gen /\ req'[t].mac = q.mac
        BY <1>5, <2>2
      <3>. QED
        BY <2>1, <2>2, <3>1 DEF IdentityMatches
    <2>3. CASE Again(t)
      BY <1>4, <2>1, <2>3
    <2>. QED
      BY <1>16, <2>2, <2>3 DEF StoreState
  <1>17. CASE Respond(t)
    <2>1. req'[t] = Idle /\ q.pc \in {"found", "not_found", "failed"}
      BY <1>1, <1>17 DEF Respond
    <2>2. req'[t].pc = "idle"
      BY <2>1 DEF Idle
    <2>. QED
      BY <2>1, <2>2
  <1>. QED
    BY <1>6, <1>7, <1>8, <1>9, <1>10, <1>11, <1>13, <1>14, <1>15, <1>16, <1>17 DEF Request

\* A step of one request changes no other.
LEMMA OneAtATime ==
  ASSUME IInv, NEW t \in Thread, Request(t), NEW u \in Thread, u # t
  PROVE  req'[u] = req[u]
  <1>1. DOMAIN req = Thread
    BY DEF IInv, RequestsInv
  <1>2. ASSUME Fail(t) \/ Again(t) PROVE req'[u] = req[u]
    BY <1>1, <1>2 DEF Fail, Again
  <1>3. ASSUME LookUpIdentity(t) \/ EnterRefresh(t) PROVE req'[u] = req[u]
    BY <1>1, <1>2, <1>3 DEF LookUpIdentity, EnterRefresh
  <1>4. ASSUME LookUpState(t) \/ EnterLock(t) PROVE req'[u] = req[u]
    BY <1>1, <1>2, <1>4 DEF LookUpState, EnterLock, ReadState
  <1>5. ASSUME (\E fallback \in BOOLEAN : DetailRead(t, fallback)) \/ DetailFails(t) \/ StoreState(t)
        PROVE  req'[u] = req[u]
    BY <1>1, <1>2, <1>5 DEF DetailRead, DetailFails, StoreState
  <1>6. ASSUME ListRead(t) \/ ListFails(t) \/ StoreIdentity(t) PROVE req'[u] = req[u]
    BY <1>1, <1>2, <1>6 DEF ListRead, ListFails, StoreIdentity
  <1>7. ASSUME (\E ip \in IP, force \in BOOLEAN : Start(t, ip, force)) \/ Respond(t)
        PROVE  req'[u] = req[u]
    <2>1. \E r : req' = [req EXCEPT ![t] = r]
      BY <1>7 DEF Start, Respond
    <2>. QED
      BY <1>1, <2>1
  <1>. QED
    BY <1>3, <1>4, <1>5, <1>6, <1>7 DEF Request

LEMMA Fresh == IInv /\ [Next]_vars => SettlesCurrent /\ ForcesNewer
  <1>. SUFFICES ASSUME IInv, [Next]_vars PROVE SettlesCurrent /\ ForcesNewer
    OBVIOUS
  <1>1. ASSUME NEW t \in Thread, Request(t) PROVE SettlesCurrent /\ ForcesNewer
    <2>1. \A u \in Thread : u # t => req'[u] = req[u]
      BY <1>1, OneAtATime
    <2>. QED
      BY <1>1, <2>1, Settling DEF SettlesCurrent, ForcesNewer
  <1>2. CASE World
    BY <1>2 DEF World, Move, Authorize, Tick, SettlesCurrent, ForcesNewer
  <1>3. CASE UNCHANGED vars
    BY <1>3 DEF vars, SettlesCurrent, ForcesNewer
  <1>. QED
    BY <1>1, <1>2, <1>3 DEF Next

\* An answer about a client is settled only about the client that the newest snapshot shows at the
\* address, and a forced refresh takes no snapshot the request has already looked at (the two halves
\* of AnswersAreFresh), in every step of every behaviour.
THEOREM CacheAnswers == Spec => AnswersAreFresh
  BY Invariance, Fresh, PTL DEF Spec, AnswersAreFresh

-----------------------------------------------------------------------------
(* The traffic projection: sets of cycles and their first members *)

LEMMA SetOfCycles ==
  ASSUME NEW T \in SUBSET Cycles
  PROVE  IsFiniteSet(T) /\ Cardinality(T) \in Nat /\ T \in SUBSET Nat
  <1>1. IsFiniteSet(Cycles) /\ Cycles \subseteq Nat
    BY SizesAssumption, FS_Interval DEF Cycles
  <1>. QED
    BY <1>1, FS_Subset, FS_CardinalityType

LEMMA LeastOf ==
  ASSUME NEW T \in SUBSET Nat, T # {}
  PROVE  Min(T) \in T /\ \A y \in T : Min(T) <= y
  <1>. DEFINE R == {ss \in Nat \X Nat : ss[1] < ss[2]}
  <1>1. OpToRel(<, Nat) = R
    BY DEF OpToRel
  <1>2. PICK m \in T : \A x \in T : <<x, m>> \notin R
    <2>1. IsWellFoundedOn(R, Nat)
      BY <1>1, NatLessThanWellFounded
    <2>. HIDE DEF R
    <2>. QED
      BY <2>1, WFMin
  <1>3. ASSUME NEW x \in T PROVE m <= x
    <2>1. <<x, m>> \in Nat \X Nat /\ <<x, m>>[1] = x /\ <<x, m>>[2] = m
      OBVIOUS
    <2>. QED
      BY <1>2, <2>1
  <1>4. \E x \in T : \A y \in T : x =< y
    BY <1>3
  <1>. QED
    BY <1>4 DEF Min

LEMMA LargestOf ==
  ASSUME NEW T \in SUBSET Cycles, T # {}
  PROVE  Max(T) \in T /\ \A y \in T : y <= Max(T)
  <1>. DEFINE D == {MaxTime - x : x \in T}
  <1>1. D \in SUBSET Nat /\ D # {}
    <2>1. \A x \in T : MaxTime - x \in Nat
      BY SizesAssumption DEF Cycles
    <2>. QED
      BY <2>1
  <1>2. PICK m \in D : \A y \in D : m <= y
    <2>. HIDE DEF D
    <2>. QED
      BY <1>1, LeastOf
  <1>3. PICK x \in T : m = MaxTime - x
    BY <1>2
  <1>4. ASSUME NEW y \in T PROVE x >= y
    <2>1. m <= MaxTime - y
      BY <1>2
    <2>. QED
      BY <1>3, <2>1, SizesAssumption DEF Cycles
  <1>5. \E z \in T : \A y \in T : z >= y
    BY <1>4
  <1>6. Max(T) \in T /\ \A y \in T : Max(T) >= y
    BY <1>5 DEF Max
  <1>. QED
    BY <1>6, SizesAssumption DEF Cycles

LEMMA LesserOfTwo ==
  ASSUME NEW a \in Int, NEW b \in Int
  PROVE  Min({a, b}) \in Int /\ Min({a, b}) <= a /\ Min({a, b}) <= b
  <1>1. \E x \in {a, b} : \A y \in {a, b} : x <= y
    OBVIOUS
  <1>2. Min({a, b}) \in {a, b} /\ \A y \in {a, b} : Min({a, b}) <= y
    BY <1>1 DEF Min
  <1>. QED
    BY <1>2

\* The first n members of a set: with a member every smaller one, at least the smallest, at most n,
\* and all of them if they are fewer than n.
LEMMA FirstOf ==
  ASSUME NEW T \in SUBSET Cycles, NEW n \in Nat
  PROVE  /\ First(n, T) \subseteq T
         /\ \A c \in First(n, T), d \in T : d < c => d \in First(n, T)
         /\ n > 0 /\ T # {} => First(n, T) # {}
         /\ Cardinality(First(n, T)) <= n
         /\ Cardinality(First(n, T)) < n => First(n, T) = T
  <1>. DEFINE Under(c) == {d \in T : d < c}
              F == First(n, T)
  <1>0. \A x \in T : x \in Nat
    BY SetOfCycles
  <1>1. F = {c \in T : Cardinality(Under(c)) < n} /\ F \subseteq T
    BY DEF First
  <1>2. ASSUME NEW c
        PROVE  Under(c) \subseteq Cycles /\ IsFiniteSet(Under(c)) /\ Cardinality(Under(c)) \in Nat
    <2>1. Under(c) \in SUBSET Cycles
      OBVIOUS
    <2>. QED
      BY <2>1, SetOfCycles
  <1>3. ASSUME NEW c \in F, NEW d \in T, d < c PROVE d \in F
    <2>1. Under(d) \subseteq Under(c)
      BY <1>0, <1>1, <1>3
    <2>2. Cardinality(Under(d)) <= Cardinality(Under(c))
      BY <1>2, <2>1, FS_Subset
    <2>3. Cardinality(Under(c)) < n /\ Cardinality(Under(c)) \in Nat /\ Cardinality(Under(d)) \in Nat
      BY <1>1, <1>2, <1>3
    <2>4. Cardinality(Under(d)) < n
      BY <2>2, <2>3
    <2>. QED
      BY <1>1, <2>4
  <1>4. ASSUME n > 0, T # {} PROVE F # {}
    <2>1. PICK m \in T : \A y \in T : m <= y
      BY <1>4, LeastOf, SetOfCycles
    <2>2. \A x \in T : ~(x < m)
      BY <1>0, <2>1
    <2>3. Cardinality(Under(m)) = 0
      BY <2>2, FS_EmptySet
    <2>. QED
      BY <1>1, <1>4, <2>3
  <1>5. Cardinality(F) \in Nat /\ IsFiniteSet(F)
    BY <1>1, SetOfCycles
  <1>6. Cardinality(F) <= n
    <2>1. CASE F = {}
      BY <2>1, FS_EmptySet
    <2>2. CASE F # {}
      <3>1. PICK m \in F : \A y \in F : y <= m
        BY <1>1, <2>2, LargestOf
      <3>. DEFINE L == {d \in F : d < m}
      <3>2. L \subseteq Under(m) /\ IsFiniteSet(L) /\ Cardinality(L) \in Nat
        <4>1. L \subseteq Under(m)
          BY <1>1
        <4>. QED
          BY <1>2, <4>1, FS_Subset, FS_CardinalityType
      <3>3. Cardinality(L) <= Cardinality(Under(m)) /\ Cardinality(Under(m)) < n
        BY <1>1, <1>2, <3>1, <3>2, FS_Subset
      <3>4. F = L \cup {m}
        BY <1>0, <1>1, <3>1
      <3>5. Cardinality(F) <= Cardinality(L) + 1
        BY <3>2, <3>4, FS_AddElement
      <3>. QED
        BY <1>2, <1>5, <3>2, <3>3, <3>5
    <2>. QED
      BY <2>1, <2>2
  <1>7. ASSUME Cardinality(F) < n PROVE F = T
    <2>1. SUFFICES ASSUME T \ F # {} PROVE FALSE
      BY <1>1
    <2>2. PICK m \in T \ F : \A y \in T \ F : m <= y
      BY <2>1, LeastOf, SetOfCycles
    <2>3. \A x \in Under(m) : x \in F
      BY <1>0, <1>1, <2>2
    <2>4. Cardinality(Under(m)) <= Cardinality(F)
      BY <1>2, <1>5, <2>3, FS_Subset
    <2>5. Cardinality(Under(m)) >= n
      BY <1>1, <1>2, <2>2
    <2>. QED
      BY <1>2, <1>5, <1>7, <2>4, <2>5
  <1>. QED
    BY <1>1, <1>3, <1>4, <1>6, <1>7

LEMMA PrefixOf ==
  ASSUME NEW T \in SUBSET Cycles, NEW some \in Prefixes(T)
  PROVE  some \subseteq T /\ \A c \in some, d \in T : d < c => d \in some
  <1>1. Cardinality(T) \in Nat
    BY SetOfCycles
  <1>2. PICK n \in 0 .. Cardinality(T) : some = First(n, T)
    BY DEF Prefixes
  <1>. QED
    BY <1>1, <1>2, FirstOf

-----------------------------------------------------------------------------
(* The traffic projection: the invariant *)

\* A repair is left alone until it has deleted what it withdrew: the operator repairs only active
\* versions, and does not reproject ranges as well.
Apart == ~RepairTargets /\ ~({"range", "repair"} \subseteq Commands)

\* Rows are written in the order of the source: no range is reprojected.
InOrder == ~RepairTargets /\ "range" \notin Commands

Roles == {"building", "ready", "active", "retired", "failed"}

SiteRow == [status : Statuses, err : Errors, fast : 0 .. MaxTime, phead : 0 .. MaxTime,
            shead : 0 .. MaxTime, sweep : SweepFence \cup {Null}, cursor : 0 .. MaxTime,
            proof : 0 .. MaxTime, proofAt : 0 .. MaxTime, bound : 0 .. MaxTime,
            backlog : BOOLEAN]

\* Where the process reads and writes rows, and where it works only under a command.
Quanta == {"incremental", "load", "write", "save", "due", "reconcile", "cursor", "close", "audit",
           "prove", "delete"}
CommandPcs == {"range", "ranging", "cleanup", "mark-ready", "ready audit", "set ready", "activate",
               "set active", "mark-failed"}

ProcessRow == [pc : Quanta \cup CommandPcs \cup {"off", "loop", "repair"},
               cmd : Commands \cup {Null}, v : Versions \cup {Null}, mode : {"inc", "rec", Null},
               lim : Nat, at : 0 .. MaxTime, head : 0 .. MaxTime, todo : SUBSET Cycles,
               chg : SUBSET Cycles, got : SUBSET (Cycles \X CycleRow), exam : SUBSET Cycles]

RowMap == [Cycles -> CycleRow \cup {Null}]

Working(q) == q.pc \notin {"off", "loop"}

OneRole ==
    /\ \A u, w \in Versions : ver[u] = "active" /\ ver[w] = "active" => u = w
    /\ \A u, w \in Versions :
          ver[u] \in {"building", "ready"} /\ ver[w] \in {"building", "ready"} => u = w

TablesType ==
    /\ now \in Cycles
    /\ src \in RowMap /\ \A c \in Cycles : src[c] # Null => c <= now
    /\ ver \in [Versions -> Roles \cup {Null}]
    /\ rows \in [Versions -> RowMap]
    /\ site \in [Versions -> SiteRow]
    /\ p \in ProcessRow
    /\ Working(p) => p.v \in Versions
    /\ p.pc = "loop" => p.cmd = "run"

RowsSeen(r) == \A c \in Cycles : r[c] # Null => c \in Started

\* The cycle is projected, or old enough for the cleanup.
Here(r, c) == r[c] # Null \/ c < now - Retention

\* What the state of a site says about its rows: the fence of a sweep and the proof are cycles of
\* the source, and the horizon the proof is about is there.
SiteA(s, r) ==
    /\ {s.fast, s.phead, s.cursor} \subseteq Started \cup {0}
    /\ s.cursor # 0 => s.sweep # Null
    /\ s.sweep # Null => s.sweep.head \in Started /\ s.sweep.from = s.sweep.head - Retention
    /\ s.proof # 0 =>
          s.proof \in Started /\ \A c \in Window(s.proof - Retention, s.proof, 0) : Here(r, c)
    /\ s.err = "repair_delete" => s.proof = 0 /\ s.phead = 0 /\ s.status = "rebuilding"

Batch == {"load", "write"}
Sweeping(q) == (q.pc \in Batch /\ q.mode = "rec") \/ q.pc \in {"cursor", "close", "audit", "prove"}

\* What the process relies on: its site is not diverged, its batch is of the source, and once it has
\* counted the rows of the window they are there.
ProcA(q, s, r) ==
    /\ q.pc \in Quanta \cup {"ranging"} => s.status # "diverged"
    /\ q.pc = "repair" /\ q.cmd = "run" => Resuming(s)
    /\ q.cmd = "run" => q.pc \in Quanta \cup {"repair"}
    /\ q.pc \in Batch \cup {"ranging"} => q.todo \subseteq Started
    /\ q.pc \in Batch => q.chg \subseteq q.todo /\ q.mode \in {"inc", "rec"}
    /\ q.pc = "write" => \A g \in q.got : g[1] \in q.chg
    /\ q.pc \in {"save", "cursor"} => q.exam \subseteq Started
    /\ Sweeping(q) => s.sweep # Null
    /\ q.pc \in {"audit", "prove"} =>
          \A c \in Window(s.sweep.from, s.sweep.head, 0) : r[c] # Null

Empty(r) == \A c \in Cycles : r[c] = Null

\* Below its cursor, a sweep has seen to every cycle of its window; a repair that still deletes has
\* no cursor, and no other work gets in between.
SiteB(s, r, role) ==
    /\ s.err # "source_identity"
    /\ s.err = "repair_delete" =>
          "repair" \in Commands /\ role \in {"active", "retired"} /\ s.cursor = 0
    /\ s.sweep # Null => \A c \in Window(s.sweep.from, s.cursor, 0) : r[c] # Null

DeletingB(q, r, role) ==
    /\ q.pc \in {"delete", "reconcile"} \cup Batch => role = "active"
    /\ q.pc \notin {"incremental", "save", "due"}
    /\ q.pc \in Batch => q.mode = "rec"
    /\ q.pc \in {"reconcile"} \cup Batch => Empty(r)
    /\ q.pc = "write" /\ q.todo # {} => q.got # {}
    /\ q.pc = "cursor" => q.exam = {}

ProcB(q, s, r, role) ==
    /\ q.pc = "repair" => role = "active" /\ ("repair" \in Commands \/ Resuming(s))
    /\ q.pc \in {"range", "ranging"} => "range" \in Commands
    /\ s.err = "repair_delete" => DeletingB(q, r, role)
    /\ q.pc \in Batch => \A c \in q.todo \ q.chg : r[c] # Null
    /\ q.pc \in Batch /\ q.mode = "rec" =>
          \A t \in q.todo, c \in Started :
             s.sweep.from <= c /\ c <= t => c \in q.todo \/ r[c] # Null
    /\ q.pc = "cursor" => \A t \in q.exam : \A c \in Window(s.sweep.from, t, 0) : r[c] # Null
    /\ q.pc \in {"cursor", "close"} => \A c \in q.exam : r[c] # Null
    /\ Sweeping(q) /\ Cardinality(q.todo) < q.lim =>
          \A c \in Window(s.sweep.from, s.sweep.head, 0) : c \in q.todo \/ r[c] # Null

\* Up to the fast checkpoint and up to the projection's head every cycle is there.
SiteC(s, r) ==
    /\ s.err = "repair_delete" => s.fast = 0
    /\ \A c \in Started : c <= s.fast \/ c <= s.phead => Here(r, c)

ProcC(q, s, r) ==
    /\ q.pc \in Batch => \A t \in q.todo, c \in Started : c <= t => c \in q.todo \/ Here(r, c)
    /\ q.pc = "write" =>
          \A g \in q.got, d \in q.chg : d < g[1] => \E h \in q.got : h[1] = d
    /\ q.pc = "save" => \A t \in q.exam, c \in Started : c <= t => Here(r, c)

SiteInv(s, r, role) ==
    /\ RowsSeen(r)
    /\ SiteA(s, r)
    /\ Apart => SiteB(s, r, role)
    /\ InOrder => SiteC(s, r)

ProcInv(q, s, r, role) ==
    /\ ProcA(q, s, r)
    /\ Apart => ProcB(q, s, r, role)
    /\ InOrder => ProcC(q, s, r)

TrafficInv ==
    /\ TablesType
    /\ OneRole
    /\ \A v \in Versions : SiteInv(site[v], rows[v], ver[v])
    /\ Working(p) => ProcInv(p, site[p.v], rows[p.v], ver[p.v])

LEMMA NullIsNoOther ==
  /\ Null \notin CycleRow /\ Null \notin RowMarker /\ Null \notin SweepFence
  /\ Null \notin Roles
  /\ Null # "run" /\ Null # "inc" /\ Null # "rec" /\ Null # "repair_delete"
  /\ Null # "source_or_storage" /\ Null # "source_identity"
  BY NullAssumption DEF Columns, Roles

\* A step of the process that changes only the state and the rows of one version.
LEMMA ProcessMoves ==
  ASSUME TrafficInv, UNCHANGED <<now, src, ver>>, NEW v \in Versions,
         NEW s \in SiteRow, NEW r \in RowMap, NEW q \in ProcessRow,
         site' = [site EXCEPT ![v] = s], rows' = [rows EXCEPT ![v] = r], p' = q,
         SiteInv(s, r, ver[v]),
         q.pc = "loop" => q.cmd = "run",
         Working(q) => q.v = v /\ ProcInv(q, s, r, ver[v])
  PROVE  TrafficInv'
  <1>1. /\ site' \in [Versions -> SiteRow] /\ rows' \in [Versions -> RowMap]
        /\ site'[v] = s /\ rows'[v] = r
        /\ \A u \in Versions : u # v => site'[u] = site[u] /\ rows'[u] = rows[u]
    BY DEF TrafficInv, TablesType
  <1>2. TablesType' /\ OneRole'
    BY <1>1 DEF TrafficInv, TablesType, OneRole, Working
  <1>3. ASSUME NEW u \in Versions PROVE SiteInv(site[u], rows[u], ver[u])'
    <2>1. CASE u = v
      BY <1>1, <2>1 DEF SiteInv, SiteA, SiteB, SiteC, RowsSeen, Here, Window, Started
    <2>2. CASE u # v
      <3>1. SiteInv(site[u], rows[u], ver[u]) /\ site'[u] = site[u] /\ rows'[u] = rows[u]
        BY <1>1, <2>2 DEF TrafficInv
      <3>. QED
        BY <3>1 DEF SiteInv, SiteA, SiteB, SiteC, RowsSeen, Here, Window, Started
    <2>. QED
      BY <2>1, <2>2
  <1>4. (Working(p) => ProcInv(p, site[p.v], rows[p.v], ver[p.v]))'
    BY <1>1 DEF ProcInv, ProcA, ProcB, DeletingB, Empty, ProcC, Sweeping, Here, Window, Started, Working, Resuming
  <1>. QED
    BY <1>2, <1>3, <1>4 DEF TrafficInv

\* At the end of a quantum or a command.
LEMMA Returned ==
  ASSUME TrafficInv, Return
  PROVE  p' \in ProcessRow /\ ~Working(p') /\ (p'.pc = "loop" => p'.cmd = "run")
  <1>1. Off \in ProcessRow
    BY SizesAssumption DEF Off, ProcessRow, Cycles
  <1>2. CASE p.cmd = "run"
    <2>1. p \in ProcessRow /\ "run" \in Commands
      BY <1>2, NullIsNoOther DEF TrafficInv, TablesType, ProcessRow
    <2>2. p' = [pc |-> "loop", cmd |-> "run", v |-> Null, mode |-> Null, lim |-> 0, at |-> 0,
                head |-> 0, todo |-> {}, chg |-> {}, got |-> {}, exam |-> {}]
      BY <1>2 DEF Return, Off
    <2>. QED
      BY <2>1, <2>2, SizesAssumption DEF ProcessRow, Working
  <1>3. CASE p.cmd # "run"
    BY <1>1, <1>3 DEF Return, Off, Working
  <1>. QED
    BY <1>2, <1>3

LEMMA ProcessReturns ==
  ASSUME TrafficInv, UNCHANGED <<now, src, ver>>, NEW v \in Versions,
         NEW s \in SiteRow, NEW r \in RowMap,
         site' = [site EXCEPT ![v] = s], rows' = [rows EXCEPT ![v] = r], Return,
         SiteInv(s, r, ver[v])
  PROVE  TrafficInv'
  BY Returned, ProcessMoves

\* ... which may have changed the role of versions.
LEMMA RolesMove ==
  ASSUME TrafficInv, UNCHANGED <<now, src, rows, site>>, Return,
         ver' \in [Versions -> Roles \cup {Null}], OneRole',
         \A v \in Versions : ver[v] \in {"active", "retired"} => ver'[v] \in {"active", "retired"}
  PROVE  TrafficInv'
  <1>1. ASSUME NEW v \in Versions PROVE SiteInv(site[v], rows[v], ver[v])'
    BY DEF TrafficInv, SiteInv, SiteA, SiteB, SiteC, RowsSeen, Here, Window, Started, Apart, InOrder
  <1>2. TablesType'
    BY Returned DEF TrafficInv, TablesType
  <1>. QED
    BY <1>1, <1>2, Returned DEF TrafficInv, Working

LEMMA Sizes ==
  /\ MaxTime \in Nat /\ Bulk \in Nat /\ Bulk > 0 /\ Wide \in Nat /\ Retention \in Nat
  /\ 0 \in 0 .. MaxTime
  /\ TrafficInv => now \in Cycles /\ now \in Nat /\ now \in 0 .. MaxTime
  /\ \A c \in Cycles : c \in Nat /\ c > 0 /\ c \in 0 .. MaxTime
  /\ Started \subseteq Cycles
  BY SizesAssumption DEF Cycles, TrafficInv, TablesType, Started

\* What the process has at hand while it works.
LEMMA AtWork ==
  ASSUME TrafficInv, Working(p)
  PROVE  /\ p.v \in Versions /\ p \in ProcessRow
         /\ S \in SiteRow /\ rows[p.v] \in RowMap /\ src \in RowMap
         /\ SiteInv(S, rows[p.v], ver[p.v]) /\ ProcInv(p, S, rows[p.v], ver[p.v])
         /\ site = [site EXCEPT ![p.v] = S] /\ rows = [rows EXCEPT ![p.v] = rows[p.v]]
  BY DEF TrafficInv, TablesType, S

LEMMA HeadOfSource ==
  ASSUME TrafficInv
  PROVE  /\ SourceHead \in 0 .. MaxTime /\ SourceHead <= now
         /\ SourceHead = 0 <=> Started = {}
         /\ SourceHead # 0 => SourceHead \in Started
         /\ \A c \in Started : c <= SourceHead
  <1>1. Started \in SUBSET Cycles /\ now \in Cycles /\ (\A c \in Started : c <= now)
    BY DEF Started, TrafficInv, TablesType
  <1>2. Cycles \subseteq Nat \ {0} /\ MaxTime \in Nat
    BY SizesAssumption DEF Cycles
  <1>3. CASE Started = {}
    BY <1>1, <1>2, <1>3 DEF SourceHead, Cycles
  <1>4. CASE Started # {}
    <2>1. SourceHead \in Started /\ \A y \in Started : y <= SourceHead
      BY <1>1, <1>4, LargestOf DEF SourceHead
    <2>2. SourceHead \in 1 .. MaxTime /\ SourceHead <= now
      BY <1>1, <2>1 DEF Cycles
    <2>. QED
      BY <1>2, <1>4, <2>1, <2>2
  <1>. QED
    BY <1>3, <1>4

\* A state of the site that says as much of the rows is as good.
LEMMA SameEvidence ==
  ASSUME NEW s \in SiteRow, NEW t \in SiteRow, NEW r, NEW role, SiteInv(s, r, role),
         t.fast = s.fast, t.phead = s.phead, t.cursor = s.cursor, t.sweep = s.sweep,
         t.proof = s.proof,
         t.err = s.err \/ t.err \notin {"repair_delete", "source_identity"},
         t.err = "repair_delete" => t.status = "rebuilding"
  PROVE  SiteInv(t, r, role)
  BY DEF SiteInv, SiteA, SiteB, SiteC

-----------------------------------------------------------------------------
(* The traffic projection: the source, the clock, and the process as a whole *)

LEMMA OlderLater ==
  ASSUME NEW c \in Int, NEW a \in Int, NEW b \in Int, NEW r \in Int, a <= b
  PROVE  c < a - r => c < b - r
  OBVIOUS

\* The source and the clock move on: what a window of the past shows stays there, and a cycle that
\* starts now is in none.
LEMMA SourceMoves ==
  ASSUME TrafficInv, UNCHANGED <<ver, rows, site, p>>,
         NEW n \in Cycles, now' = n, now <= n, src' \in RowMap,
         \A c \in Cycles : src[c] # Null => src'[c] # Null,
         \A c \in Cycles : src'[c] # Null /\ src[c] = Null => c = now
  PROVE  TrafficInv'
  <1>1. /\ now \in Cycles /\ now \in Nat /\ n \in Nat /\ Retention \in Nat /\ MaxTime \in Nat
        /\ \A c \in Cycles : c \in Nat /\ c > 0
    BY SizesAssumption DEF TrafficInv, TablesType, Cycles
  <1>2. /\ Started \subseteq Started' /\ Started' \subseteq Started \cup {now}
        /\ \A c \in Started : c <= now
        /\ now \in Started' \ Started => \A c \in Started : c < now
    <2>1. Started \subseteq Started' /\ Started' \subseteq Started \cup {now}
      BY DEF Started
    <2>2. \A c \in Started : c <= now
      BY DEF Started, TrafficInv, TablesType
    <2>3. \A c \in Started : now \notin Started => c # now
      OBVIOUS
    <2>. QED
      BY <1>1, <2>1, <2>2, <2>3 DEF Started
  <1>3. ASSUME NEW c \in Started', NEW t \in Started \cup {0}, c <= t PROVE c \in Started
    <2>1. c \in Nat /\ c > 0
      BY <1>1 DEF Started
    <2>2. CASE c = now /\ c \notin Started
      BY <1>1, <1>2, <1>3, <2>1, <2>2 DEF Started
    <2>. QED
      BY <1>2, <2>2
  <1>4. ASSUME NEW r \in RowMap, NEW c \in Cycles, Here(r, c) PROVE Here(r, c)'
    <2>1. c < now - Retention => c < n - Retention
      BY <1>1, OlderLater
    <2>. QED
      BY <1>4, <2>1 DEF Here
  <1>5. ASSUME NEW v \in Versions PROVE SiteInv(site[v], rows[v], ver[v])'
    <2>1. SiteInv(site[v], rows[v], ver[v]) /\ rows[v] \in RowMap /\ site[v] \in SiteRow
      BY DEF TrafficInv, TablesType
    <2>2. RowsSeen(rows[v])' /\ SiteA(site[v], rows[v])'
      BY <1>1, <1>2, <1>3, <1>4, <2>1 DEF SiteInv, SiteA, RowsSeen, Window, Started
    <2>3. Apart => SiteB(site[v], rows[v], ver[v])'
      BY <1>1, <1>2, <1>3, <2>1 DEF SiteInv, SiteA, SiteB, Window, Started
    <2>4. InOrder => SiteC(site[v], rows[v])'
      BY <1>1, <1>2, <1>3, <1>4, <2>1 DEF SiteInv, SiteA, SiteC, Started
    <2>. QED
      BY <2>2, <2>3, <2>4 DEF SiteInv, Apart, InOrder
  <1>6. ASSUME Working(p) PROVE ProcInv(p, site[p.v], rows[p.v], ver[p.v])'
    <2>. DEFINE r == rows[p.v]
                s == site[p.v]
    <2>1. ProcInv(p, s, r, ver[p.v]) /\ SiteA(s, r) /\ r \in RowMap /\ s \in SiteRow /\ p \in ProcessRow
      BY <1>6 DEF TrafficInv, TablesType, SiteInv
    <2>2. ProcA(p, s, r)'
      BY <1>1, <1>2, <1>3, <2>1 DEF ProcInv, SiteA, ProcA, Sweeping, Window, Started, Resuming
    <2>3. Apart => ProcB(p, s, r, ver[p.v])'
      BY <1>1, <1>2, <1>3, <2>1 DEF ProcInv, SiteA, ProcA, ProcB, DeletingB, Empty, Sweeping, Window, Started, Resuming
    <2>4. InOrder => ProcC(p, s, r)'
      BY <1>1, <1>2, <1>3, <1>4, <2>1 DEF ProcInv, ProcA, ProcC, Started, Batch
    <2>. QED
      BY <2>2, <2>3, <2>4 DEF ProcInv, Apart, InOrder
  <1>7. TablesType'
    <2>1. \A c \in Cycles : src'[c] # Null => c <= n
      BY <1>1 DEF TrafficInv, TablesType
    <2>. QED
      BY <2>1 DEF TrafficInv, TablesType, Working
  <1>8. OneRole'
    BY DEF TrafficInv, OneRole
  <1>. QED
    BY <1>5, <1>6, <1>7, <1>8 DEF TrafficInv, Working

LEMMA SourceKeeps ==
  ASSUME TrafficInv,
         StartCycle \/ (\E c \in Cycles : StoreAps(c) \/ EndCycle(c)) \/ ClockTick
  PROVE  TrafficInv'
  <1>1. now \in Cycles /\ now \in Nat /\ src \in RowMap
    BY SizesAssumption DEF TrafficInv, TablesType, Cycles
  <1>2. CASE StartCycle
    <2>1. [mark |-> "running", fin |-> 0, aps |-> 0] \in CycleRow
      BY DEF CycleRow
    <2>. QED
      BY <1>1, <1>2, <2>1, NullIsNoOther, SourceMoves DEF StartCycle, store, RowMap
  <1>3. ASSUME NEW c \in Cycles, StoreAps(c) PROVE TrafficInv'
    <2>1. /\ src[c] = [mark |-> "running", fin |-> 0, aps |-> 0]
          /\ src' = [src EXCEPT ![c] = [src[c] EXCEPT !.aps = 1]]
      BY <1>3 DEF StoreAps
    <2>2. [src[c] EXCEPT !.aps = 1] \in CycleRow
      BY <2>1 DEF CycleRow
    <2>. QED
      <3>1. src' = [src EXCEPT ![c] = [src[c] EXCEPT !.aps = 1]] /\ src[c] # Null
            /\ [src[c] EXCEPT !.aps = 1] # Null
        BY <2>1, <2>2, NullIsNoOther DEF CycleRow
      <3>2. src' \in RowMap /\ \A d \in Cycles : src'[d] # Null <=> src[d] # Null
        BY <1>1, <2>2, <3>1 DEF RowMap
      <3>. QED
        <4>1. UNCHANGED <<now, ver, rows, site, p>>
          BY <1>3 DEF StoreAps, store
        <4>. QED
          BY <1>1, <3>2, <4>1, SourceMoves
  <1>4. ASSUME NEW c \in Cycles, EndCycle(c) PROVE TrafficInv'
    <2>1. src[c] \in CycleRow
      BY <1>1, <1>4 DEF EndCycle, RowMap
    <2>2. src' = [src EXCEPT ![c] = [src[c] EXCEPT !.mark = "ended", !.fin = now]]
      BY <1>4 DEF EndCycle
    <2>3. [src[c] EXCEPT !.mark = "ended", !.fin = now] \in CycleRow
      BY <1>1, <2>1 DEF CycleRow
    <2>. QED
      BY <1>1, <1>4, <2>2, <2>3, NullIsNoOther, SourceMoves DEF EndCycle, store, RowMap
  <1>5. CASE ClockTick
    <2>1. now + 1 \in Cycles /\ now <= now + 1 /\ now' = now + 1
      BY <1>1, <1>5, SizesAssumption DEF ClockTick, Cycles
    <2>. QED
      BY <1>1, <1>5, <2>1, SourceMoves DEF ClockTick, store
  <1>. QED
    BY <1>2, <1>3, <1>4, <1>5

LEMMA BeginKeeps ==
  ASSUME TrafficInv, NEW cmd \in Commands, NEW v \in Versions, Begin(cmd, v)
  PROVE  TrafficInv'
  <1>1. p' \in ProcessRow /\ (Working(p') => p'.pc = cmd /\ p'.v = v /\ p'.cmd = cmd /\ cmd # "run")
        /\ (p'.pc = "loop" => p'.cmd = "run")
    <2>1. CASE cmd = "run"
      <3>1. p' = [pc |-> "loop", cmd |-> "run", v |-> Null, mode |-> Null, lim |-> 0, at |-> 0,
                  head |-> 0, todo |-> {}, chg |-> {}, got |-> {}, exam |-> {}]
        BY <2>1 DEF Begin, Off
      <3>. QED
        BY <2>1, <3>1, SizesAssumption DEF ProcessRow, Working
    <2>2. CASE cmd # "run"
      <3>1. p' = [pc |-> cmd, cmd |-> cmd, v |-> v, mode |-> Null, lim |-> Bulk, at |-> now,
                  head |-> 0, todo |-> {}, chg |-> {}, got |-> {}, exam |-> {}]
        BY <2>2 DEF Begin, Off
      <3>2. cmd \in {"repair"} \cup CommandPcs /\ now \in 0 .. MaxTime /\ Bulk \in Nat /\ MaxTime \in Nat
        <4>1. now \in Cycles
          BY DEF TrafficInv, TablesType
        <4>2. cmd \in {"repair"} \cup CommandPcs
          BY <2>2, CommandsAssumption DEF CommandPcs
        <4>. QED
          BY <4>1, <4>2, SizesAssumption DEF Cycles
      <3>3. cmd \in Commands /\ v \in Versions
        OBVIOUS
      <3>. QED
        <4>1. cmd \in Quanta \cup CommandPcs \cup {"off", "loop", "repair"}
          BY <3>2
        <4>2. p' \in ProcessRow
          BY <3>1, <3>2, <3>3, <4>1 DEF ProcessRow
        <4>3. cmd # "loop"
          BY <3>2 DEF CommandPcs
        <4>. QED
          BY <2>2, <3>1, <4>2, <4>3
    <2>. QED
      BY <2>1, <2>2
  <1>2. /\ ver' \in [Versions -> Roles \cup {Null}]
        /\ \A u \in Versions : u # v \/ ver[u] # Null => ver'[u] = ver[u]
        /\ ver[v] = Null => ver'[v] = "building"
    BY DEF Begin, TrafficInv, TablesType, Roles
  <1>3. OneRole'
    BY <1>2, NullIsNoOther DEF TrafficInv, OneRole, Begin
  <1>4. TablesType'
    BY <1>1, <1>2 DEF Begin, TrafficInv, TablesType
  <1>5. ASSUME NEW u \in Versions PROVE SiteInv(site[u], rows[u], ver[u])'
    <2>1. SiteInv(site[u], rows[u], ver[u]) /\ (ver'[u] = ver[u] \/ ver[u] = Null)
      BY <1>2 DEF TrafficInv
    <2>2. Apart => ver'[u] = ver[u] \/ site[u].err # "repair_delete"
      BY <2>1, NullIsNoOther DEF SiteInv, SiteB, Roles
    <2>. QED
      BY <2>1, <2>2 DEF Begin, SiteInv, SiteA, SiteB, SiteC, RowsSeen, Here, Window, Started, Apart, InOrder
  <1>6. ASSUME Working(p') PROVE ProcInv(p, site[p.v], rows[p.v], ver[p.v])'
    <2>1. p'.pc \in {"repair", "range", "cleanup", "mark-ready", "activate", "mark-failed"}
      BY <1>1, <1>6, CommandsAssumption
    <2>2. p'.pc = "repair" /\ Apart => ver[v] = "active" /\ ver'[v] = "active"
      <3>. SUFFICES ASSUME p'.pc = "repair", Apart PROVE ver[v] = "active" /\ ver'[v] = "active"
        OBVIOUS
      <3>1. ver[v] = "active"
        BY <1>1, <1>6, CommandsAssumption DEF Begin, Apart
      <3>. QED
        BY <1>2, <3>1, NullIsNoOther DEF Roles
    <2>3. p'.pc \in {"range", "ranging"} => "range" \in Commands
      BY <1>1, <1>6, <2>1
    <2>4. ProcA(p, site[p.v], rows[p.v])'
      BY <1>1, <1>6, <2>1 DEF ProcA, Quanta, Batch, Sweeping
    <2>5. Apart => ProcB(p, site[p.v], rows[p.v], ver[p.v])'
      BY <1>1, <1>6, <2>1, <2>2, <2>3 DEF ProcB, DeletingB, Batch, Sweeping
    <2>6. InOrder => ProcC(p, site[p.v], rows[p.v])'
      BY <2>1 DEF ProcC, Batch
    <2>. QED
      BY <2>4, <2>5, <2>6 DEF ProcInv, Apart, InOrder
  <1>. QED
    BY <1>3, <1>4, <1>5, <1>6 DEF TrafficInv, Working

LEMMA KillKeeps ==
  ASSUME TrafficInv, Kill
  PROVE  TrafficInv'
  <1>1. Off \in ProcessRow /\ ~Working(p') /\ p'.pc # "loop" /\ p' = Off
    BY SizesAssumption DEF Kill, Off, ProcessRow, Cycles, Working
  <1>2. ASSUME NEW u \in Versions PROVE SiteInv(site[u], rows[u], ver[u])'
    BY DEF TrafficInv, Kill, store, SiteInv, SiteA, SiteB, SiteC, RowsSeen, Here, Window, Started
  <1>. QED
    BY <1>1, <1>2 DEF Kill, store, TrafficInv, TablesType, OneRole, Working

-----------------------------------------------------------------------------
(* The traffic projection: the quanta of the worker *)

LEMMA MaintainKeeps ==
  ASSUME TrafficInv, NEW v \in Versions, Maintain(v)
  PROVE  TrafficInv'
  <1>1. /\ p.pc = "loop" /\ p.cmd = "run" /\ p \in ProcessRow /\ now \in Cycles
        /\ site[v] \in SiteRow /\ rows[v] \in RowMap /\ SiteInv(site[v], rows[v], ver[v])
        /\ site[v].status # "diverged"
        /\ site = [site EXCEPT ![v] = site[v]] /\ rows = [rows EXCEPT ![v] = rows[v]]
    BY DEF Maintain, TrafficInv, TablesType
  <1>2. /\ p' \in ProcessRow /\ p'.v = v /\ p'.cmd = "run" /\ Working(p')
        /\ p'.pc = IF RepairActive(v) THEN "repair" ELSE "incremental"
    <2>. DEFINE pc == IF RepairActive(v) THEN "repair" ELSE "incremental"
    <2>1. pc \in Quanta \cup CommandPcs \cup {"off", "loop", "repair"} /\ pc \notin {"off", "loop"}
      BY DEF Quanta
    <2>2. p' = [p EXCEPT !.v = v, !.at = now, !.pc = pc, !.lim = Bulk]
      BY DEF Maintain
    <2>. HIDE DEF pc
    <2>3. p' \in ProcessRow /\ p'.v = v /\ p'.cmd = "run" /\ p'.pc = pc
      BY <1>1, <2>1, <2>2, Sizes DEF ProcessRow
    <2>. QED
      BY <2>1, <2>3 DEF Working, pc
  <1>3. ProcA(p', site[v], rows[v])
    BY <1>1, <1>2 DEF ProcA, Quanta, Batch, Sweeping, RepairActive, Resuming
  <1>4. Apart => ProcB(p', site[v], rows[v], ver[v])
    <2>1. Apart /\ site[v].err = "repair_delete" => RepairActive(v)
      BY <1>1 DEF Maintain, WorkerVersions, SiteInv, SiteA, SiteB, RepairActive
    <2>. QED
      BY <1>1, <1>2, <2>1 DEF ProcB, DeletingB, Quanta, Batch, Sweeping, RepairActive, Resuming
  <1>5. ProcC(p', site[v], rows[v])
    BY <1>2 DEF ProcC, Batch
  <1>6. site' = site /\ rows' = rows /\ UNCHANGED <<now, src, ver>>
    BY DEF Maintain, store
  <1>. QED
    BY <1>1, <1>2, <1>3, <1>4, <1>5, <1>6, ProcessMoves DEF ProcInv

LEMMA StepFailsKeeps ==
  ASSUME TrafficInv, StepFails
  PROVE  TrafficInv'
  <1>1. Working(p) /\ Return /\ UNCHANGED <<now, src, ver, rows>>
    BY DEF StepFails, Working
  <1>2. CASE UNCHANGED site
    BY <1>1, <1>2, AtWork, ProcessReturns
  <1>3. ASSUME NEW s, s = [S EXCEPT !.status = IF @ = "rebuilding" THEN @ ELSE "stale",
                                    !.err = IF @ = "repair_delete" THEN @ ELSE "source_or_storage"],
               SetSite(s)
        PROVE  TrafficInv'
    <2>1. S \in SiteRow /\ SiteInv(S, rows[p.v], ver[p.v])
      BY <1>1, AtWork
    <2>2. s \in SiteRow /\ (s.err = S.err \/ s.err = "source_or_storage")
          /\ (s.err = "repair_delete" => S.err = "repair_delete")
          /\ (S.status = "rebuilding" => s.status = "rebuilding")
          /\ s.fast = S.fast /\ s.phead = S.phead /\ s.cursor = S.cursor /\ s.sweep = S.sweep
          /\ s.proof = S.proof
      BY <1>3, <2>1 DEF SiteRow, Statuses, Errors
    <2>3. SiteInv(s, rows[p.v], ver[p.v])
      BY <2>1, <2>2, SameEvidence DEF SiteInv, SiteA
    <2>. QED
      BY <1>1, <1>3, <2>2, <2>3, AtWork, ProcessReturns DEF SetSite
  <1>. QED
    BY <1>2, <1>3 DEF StepFails

\* Nothing is known of a source without cycles.
LEMMA NoHeadSays ==
  ASSUME NEW s \in SiteRow, NEW r, NEW role, SiteInv(s, r, role)
  PROVE  NoHead(s) \in SiteRow /\ SiteInv(NoHead(s), r, role)
         /\ NoHead(s).err = s.err /\ NoHead(s).sweep = s.sweep /\ NoHead(s).cursor = s.cursor
         /\ (s.status # "diverged" => NoHead(s).status # "diverged")
  <1>1. /\ NoHead(s) \in SiteRow
        /\ NoHead(s).fast = s.fast /\ NoHead(s).phead = s.phead /\ NoHead(s).cursor = s.cursor
        /\ NoHead(s).sweep = s.sweep /\ NoHead(s).proof = s.proof /\ NoHead(s).err = s.err
        /\ NoHead(s).status = IF s.status = "rebuilding" THEN s.status ELSE "stale"
    <2>. DEFINE status == IF s.status = "rebuilding" THEN s.status ELSE "stale"
    <2>1. status \in Statuses
      BY DEF Statuses
    <2>2. NoHead(s) = [s EXCEPT !.status = status, !.shead = 0, !.backlog = FALSE]
      BY DEF NoHead
    <2>. QED
      BY <2>1, <2>2, Sizes DEF SiteRow
  <1>2. s.err = "repair_delete" => s.status = "rebuilding"
    BY DEF SiteInv, SiteA
  <1>. QED
    BY <1>1, <1>2, SameEvidence

LEMMA DueKeeps ==
  ASSUME TrafficInv, Due
  PROVE  TrafficInv'
  <1>1. p.pc = "due" /\ Working(p) /\ UNCHANGED <<now, src, ver, rows, site>>
    BY DEF Due, Working, store
  <1>2. CASE Return
    BY <1>1, <1>2, AtWork, ProcessReturns
  <1>3. CASE p' = [p EXCEPT !.pc = "reconcile", !.at = now,
                            !.lim = IF IsTarget(p.v) THEN Bulk ELSE Wide]
    <2>1. p' \in ProcessRow /\ p'.pc = "reconcile" /\ p'.v = p.v /\ p'.cmd = p.cmd
      <3>. DEFINE lim == IF IsTarget(p.v) THEN Bulk ELSE Wide
      <3>1. p \in ProcessRow /\ lim \in Nat
        BY Sizes DEF TrafficInv, TablesType
      <3>2. p' = [p EXCEPT !.pc = "reconcile", !.at = now, !.lim = lim]
        BY <1>3
      <3>3. "reconcile" \in Quanta
        BY DEF Quanta
      <3>. HIDE DEF lim
      <3>. QED
        BY <3>1, <3>2, <3>3, Sizes DEF ProcessRow
    <2>2. ProcInv(p', S, rows[p.v], ver[p.v])
      <3>1. ProcInv(p, S, rows[p.v], ver[p.v])
        BY <1>1, AtWork
      <3>. QED
        BY <1>1, <2>1, <3>1 DEF ProcInv, ProcA, ProcB, DeletingB, ProcC, Quanta, Batch, Sweeping
    <2>. QED
      BY <1>1, <2>1, <2>2, AtWork, ProcessMoves
  <1>. QED
    BY <1>2, <1>3 DEF Due

-----------------------------------------------------------------------------
(* The traffic projection: a batch of cycles *)

LEMMA InOrderIsApart == InOrder => Apart
  BY DEF InOrder, Apart

LEMMA RowsGrow ==
  ASSUME NEW s \in SiteRow, NEW r \in RowMap, NEW t \in RowMap, NEW role, SiteInv(s, r, role),
         RowsSeen(t), \A c \in Cycles : r[c] # Null => t[c] # Null
  PROVE  SiteInv(s, t, role)
  <1>1. \A c \in Cycles : Here(r, c) => Here(t, c)
    BY DEF Here
  <1>. QED
    BY <1>1, Sizes DEF SiteInv, SiteA, SiteB, SiteC, Window

\* What is examined, and which of it is read from the source.
LEMMA Examines ==
  ASSUME TrafficInv, Working(p), NEW mode \in {"inc", "rec"}, NEW todo \in SUBSET Started,
         NEW head \in 0 .. MaxTime, ToExamine(mode, todo, head)
  PROVE  /\ p' \in ProcessRow /\ p'.pc = "load" /\ p'.v = p.v /\ p'.cmd = p.cmd /\ p'.lim = p.lim
         /\ p'.mode = mode /\ p'.todo = todo /\ p'.chg \subseteq todo
         /\ \A c \in todo \ p'.chg : rows[p.v][c] # Null
  <1>. DEFINE chg == {c \in todo : Marker(rows[p.v][c]) # Marker(src[c])}
  <1>1. p \in ProcessRow /\ "load" \in Quanta /\ todo \subseteq Cycles /\ chg \subseteq todo
    BY Sizes DEF Quanta, TrafficInv, TablesType
  <1>2. p' = [p EXCEPT !.pc = "load", !.mode = mode, !.todo = todo, !.head = head, !.chg = chg,
                       !.got = {}, !.exam = {}]
    BY DEF ToExamine
  <1>3. ASSUME NEW c \in todo \ chg PROVE rows[p.v][c] # Null
    <2>1. src[c] \in CycleRow /\ src[c] # Null
      BY DEF Started, TrafficInv, TablesType, RowMap
    <2>2. Marker(src[c]) \in RowMarker
      BY <2>1 DEF Marker, CycleRow, RowMarker
    <2>. QED
      BY <2>2, NullIsNoOther DEF Marker
  <1>. HIDE DEF chg
  <1>4. p' \in ProcessRow /\ p'.chg = chg /\ p'.pc = "load" /\ p'.mode = mode /\ p'.todo = todo
        /\ p'.v = p.v /\ p'.cmd = p.cmd /\ p'.lim = p.lim
    BY <1>1, <1>2 DEF ProcessRow
  <1>. QED
    BY <1>1, <1>3, <1>4

LEMMA IncrementalKeeps ==
  ASSUME TrafficInv, Incremental
  PROVE  TrafficInv'
  <1>. DEFINE R == rows[p.v]
              head == SourceHead
              W == Window(head - Retention, head, S.fast)
              todo == First(Bulk, W)
  <1>1. /\ Working(p) /\ p.pc = "incremental" /\ UNCHANGED <<now, src, ver, rows>>
        /\ S.status # "diverged"
    <2>1. Working(p) /\ p.pc = "incremental" /\ UNCHANGED <<now, src, ver, rows>>
      BY DEF Incremental, Working
    <2>. QED
      BY <2>1, AtWork DEF ProcInv, ProcA, Quanta
  <1>2. CASE head = 0
    <2>1. SetSite(NoHead(S)) /\ Goto("due")
      BY <1>2 DEF Incremental
    <2>2. p' \in ProcessRow /\ p'.pc = "due" /\ p'.v = p.v /\ p'.cmd = p.cmd
      <3>1. p \in ProcessRow /\ "due" \in Quanta
        BY DEF Quanta, TrafficInv, TablesType
      <3>. QED
        BY <2>1, <3>1 DEF Goto, ProcessRow
    <2>3. ProcInv(p, S, R, ver[p.v]) /\ S \in SiteRow /\ SiteInv(S, R, ver[p.v])
      BY <1>1, AtWork
    <2>4. /\ NoHead(S) \in SiteRow /\ SiteInv(NoHead(S), R, ver[p.v])
          /\ NoHead(S).err = S.err /\ NoHead(S).status # "diverged"
      BY <1>1, <2>3, NoHeadSays
    <2>5. ProcInv(p', NoHead(S), R, ver[p.v])
      BY <1>1, <2>2, <2>3, <2>4 DEF ProcInv, ProcA, ProcB, DeletingB, ProcC, Quanta, Batch, Sweeping
    <2>. QED
      BY <1>1, <2>1, <2>2, <2>4, <2>5, AtWork, ProcessMoves DEF SetSite
  <1>3. CASE head # 0
    <2>1. ToExamine("inc", todo, head) /\ UNCHANGED site
      BY <1>3 DEF Incremental
    <2>2. W \subseteq Started /\ todo \subseteq W /\ (\A c \in todo, d \in W : d < c => d \in todo)
      <3>1. W \subseteq Started
        BY DEF Window
      <3>. QED
        BY <3>1, FirstOf, Sizes
    <2>3. todo \in SUBSET Started /\ head \in 0 .. MaxTime /\ head <= now
      BY <2>2, HeadOfSource
    <2>. HIDE DEF todo, W, head
    <2>4. /\ p' \in ProcessRow /\ p'.pc = "load" /\ p'.v = p.v /\ p'.cmd = p.cmd
          /\ p'.mode = "inc" /\ p'.todo = todo /\ p'.chg \subseteq todo
          /\ \A c \in todo \ p'.chg : R[c] # Null
      BY <1>1, <2>1, <2>3, Examines
    <2>5. ProcInv(p, S, R, ver[p.v]) /\ SiteInv(S, R, ver[p.v]) /\ S \in SiteRow
      BY <1>1, AtWork
    <2>6. ProcA(p', S, R)
      BY <1>1, <2>3, <2>4 DEF ProcA, Quanta, Batch, Sweeping
    <2>7. Apart => ProcB(p', S, R, ver[p.v])
      BY <1>1, <2>4, <2>5 DEF ProcInv, ProcB, DeletingB, Batch, Sweeping
    <2>8. InOrder => ProcC(p', S, R)
      <3>. SUFFICES ASSUME InOrder, NEW t \in todo, NEW c \in Started, c <= t, ~Here(R, c)
                    PROVE  c \in todo
        BY <2>4 DEF ProcC
      <3>1. c \in Nat /\ t \in Nat /\ head \in Nat /\ now \in Nat /\ Retention \in Nat /\ S.fast \in Nat
        BY <2>2, <2>3, <2>5, Sizes DEF SiteRow
      <3>2. ~(c < head - Retention)
        BY <2>3, <3>1, OlderLater DEF Here
      <3>3. S.fast < c
        BY <2>5, <3>1 DEF SiteInv, SiteC
      <3>4. t <= head
        BY <2>2 DEF W, Window
      <3>5. c \in W
        BY <3>1, <3>2, <3>3, <3>4 DEF W, Window
      <3>. QED
        BY <2>2, <3>1, <3>5
    <2>. QED
      BY <1>1, <2>1, <2>4, <2>5, <2>6, <2>7, <2>8, AtWork, ProcessMoves DEF ProcInv
  <1>. QED
    BY <1>2, <1>3

LEMMA ReconcileKeeps ==
  ASSUME TrafficInv, Reconcile
  PROVE  TrafficInv'
  <1>. DEFINE R == rows[p.v]
              head == SourceHead
              sweep == Sweep(head)
              W == Window(sweep.from, sweep.head, S.cursor)
              todo == First(p.lim, W)
              s == [S EXCEPT !.sweep = sweep]
  <1>1. Working(p) /\ p.pc = "reconcile" /\ UNCHANGED <<now, src, ver, rows>>
    BY DEF Reconcile, Working
  <1>2. /\ ProcInv(p, S, R, ver[p.v]) /\ SiteInv(S, R, ver[p.v]) /\ S \in SiteRow
        /\ S.status # "diverged" /\ p \in ProcessRow
    <2>1. ProcInv(p, S, R, ver[p.v]) /\ SiteInv(S, R, ver[p.v]) /\ S \in SiteRow /\ p \in ProcessRow
      BY <1>1, AtWork
    <2>. QED
      BY <1>1, <2>1 DEF ProcInv, ProcA, Quanta
  <1>3. CASE head = 0
    <2>1. SetSite(NoHead(S)) /\ Return
      BY <1>3 DEF Reconcile
    <2>2. NoHead(S) \in SiteRow /\ SiteInv(NoHead(S), R, ver[p.v])
      BY <1>2, NoHeadSays
    <2>. QED
      BY <1>1, <2>1, <2>2, AtWork, ProcessReturns DEF SetSite
  <1>4. CASE head # 0
    <2>1. ToExamine("rec", todo, head) /\ SetSite(s)
      BY <1>4 DEF Reconcile
    <2>2. W \subseteq Started /\ todo \subseteq W /\ (\A c \in todo, d \in W : d < c => d \in todo)
          /\ (Cardinality(todo) < p.lim => todo = W)
      <3>1. W \subseteq Started /\ p.lim \in Nat
        BY <1>2 DEF Window, ProcessRow
      <3>. QED
        BY <3>1, FirstOf, Sizes
    <2>3. todo \in SUBSET Started /\ head \in 0 .. MaxTime /\ head \in Started
      BY <1>4, <2>2, HeadOfSource
    <2>4. /\ sweep \in SweepFence /\ sweep # Null /\ sweep.head \in Started
          /\ sweep.from = sweep.head - Retention /\ (S.sweep # Null => sweep = S.sweep)
      <3>1. CASE S.sweep = Null
        <4>1. sweep = [head |-> head, from |-> head - Retention]
          BY <3>1 DEF Sweep
        <4>2. head \in Nat /\ head - Retention \in Int
          BY <2>3, Sizes
        <4>. QED
          BY <2>3, <3>1, <4>1, <4>2, NullIsNoOther DEF SweepFence
      <3>2. CASE S.sweep # Null
        BY <1>2, <3>2 DEF Sweep, SiteInv, SiteA, SiteRow
      <3>. QED
        BY <3>1, <3>2
    <2>. HIDE DEF todo, sweep, head
    <2>5. s \in SiteRow /\ s.sweep = sweep /\ s.status = S.status /\ s.err = S.err
          /\ s.cursor = S.cursor /\ s.proof = S.proof /\ s.fast = S.fast /\ s.phead = S.phead
      BY <1>2, <2>4 DEF SiteRow
    <2>. HIDE DEF s
    <2>6. SiteInv(s, R, ver[p.v])
      <3>1. SiteA(s, R)
        BY <1>2, <2>4, <2>5 DEF SiteInv, SiteA
      <3>2. ASSUME Apart, NEW c \in Window(sweep.from, S.cursor, 0) PROVE R[c] # Null
        <4>1. CASE S.sweep # Null
          BY <1>2, <2>4, <3>2, <4>1 DEF SiteInv, SiteB
        <4>2. CASE S.sweep = Null
          <5>1. S.cursor = 0 /\ c \in Started /\ c <= S.cursor
            BY <1>2, <3>2, <4>2 DEF SiteInv, SiteA, Window
          <5>. QED
            BY <5>1, Sizes
        <4>. QED
          BY <4>1, <4>2
      <3>. QED
        BY <1>2, <2>5, <3>1, <3>2 DEF SiteInv, SiteB, SiteC
    <2>7. /\ p' \in ProcessRow /\ p'.pc = "load" /\ p'.v = p.v /\ p'.cmd = p.cmd /\ p'.lim = p.lim
          /\ p'.mode = "rec" /\ p'.todo = todo /\ p'.chg \subseteq todo
          /\ \A c \in todo \ p'.chg : R[c] # Null
      BY <1>1, <2>1, <2>3, Examines
    <2>8. ProcA(p', s, R)
      BY <1>1, <1>2, <2>3, <2>4, <2>5, <2>7 DEF ProcA, Quanta, Batch, Sweeping
    <2>9. ASSUME NEW c \in Started, sweep.from <= c, ~(S.cursor < c), Apart PROVE R[c] # Null
      <3>1. c \in Nat /\ c > 0 /\ S.cursor \in Nat
        BY <1>2, Sizes DEF SiteRow
      <3>2. c \in Window(sweep.from, S.cursor, 0)
        BY <2>9, <3>1 DEF Window
      <3>. QED
        BY <2>5, <2>6, <2>4, <2>9, <3>2 DEF SiteInv, SiteB
    <2>10. ASSUME Apart, NEW t \in todo, NEW c \in Started, sweep.from <= c, c <= t
           PROVE  c \in todo \/ R[c] # Null
      <3>1. c \in Nat /\ t \in Nat /\ sweep.head \in Nat
        BY <2>2, <2>4, <2>10, Sizes
      <3>2. t <= sweep.head
        BY <2>2 DEF Window
      <3>3. S.cursor < c => c \in W
        BY <2>10, <3>1, <3>2 DEF Window
      <3>. QED
        BY <2>2, <2>9, <2>10, <3>1, <3>3
    <2>11. ASSUME Apart, Cardinality(todo) < p.lim, NEW c \in Window(sweep.from, sweep.head, 0)
           PROVE  c \in todo \/ R[c] # Null
      <3>1. c \in Started /\ sweep.from <= c /\ c <= sweep.head
        BY DEF Window
      <3>2. S.cursor < c => c \in W
        BY <3>1 DEF Window
      <3>. QED
        BY <2>2, <2>9, <2>11, <3>1, <3>2
    <2>12. Apart => ProcB(p', s, R, ver[p.v])
      BY <1>1, <1>2, <2>5, <2>7, <2>10, <2>11 DEF ProcInv, ProcB, DeletingB, Batch, Sweeping
    <2>13. InOrder => ProcC(p', s, R)
      <3>. SUFFICES ASSUME InOrder, NEW t \in todo, NEW c \in Started, c <= t, ~Here(R, c)
                    PROVE  c \in todo
        BY <2>7 DEF ProcC
      <3>1. c \in Nat /\ sweep.head \in Nat /\ now \in Nat /\ Retention \in Nat /\ sweep.head <= now
        BY <2>4, Sizes DEF Started, TrafficInv, TablesType
      <3>2. ~(c < sweep.from)
        BY <2>4, <3>1, OlderLater DEF Here
      <3>3. sweep.from <= c
        BY <2>4, <3>1, <3>2
      <3>. QED
        BY <2>10, <3>3, InOrderIsApart DEF Here
    <2>. QED
      BY <1>1, <2>1, <2>5, <2>6, <2>7, <2>8, <2>12, <2>13, AtWork, ProcessMoves DEF ProcInv, SetSite
  <1>. QED
    BY <1>3, <1>4

LEMMA LoadKeeps ==
  ASSUME TrafficInv, Load
  PROVE  TrafficInv'
  <1>. DEFINE R == rows[p.v]
              first == First(Bulk, p.chg)
  <1>1. /\ Working(p) /\ p.pc = "load" /\ UNCHANGED <<now, src, ver, rows, site>>
        /\ ProcInv(p, S, R, ver[p.v]) /\ S \in SiteRow /\ SiteInv(S, R, ver[p.v])
        /\ p \in ProcessRow
    <2>1. Working(p) /\ p.pc = "load" /\ UNCHANGED <<now, src, ver, rows, site>>
      BY DEF Load, Working, store
    <2>. QED
      BY <2>1, AtWork
  <1>2. PICK some \in IF HasDeadline THEN Prefixes(first) ELSE {first} :
           p' = [p EXCEPT !.pc = "write", !.got = {<<c, src[c]>> : c \in some}]
    BY DEF Load
  <1>3. p.todo \subseteq Started /\ p.chg \subseteq p.todo /\ p.chg \in SUBSET Cycles
    BY <1>1, Sizes DEF ProcInv, ProcA, Batch
  <1>4. /\ first \subseteq p.chg /\ (\A c \in first, d \in p.chg : d < c => d \in first)
        /\ (p.chg # {} => first # {})
    BY <1>3, FirstOf, Sizes
  <1>5. /\ some \subseteq first /\ (\A c \in some, d \in first : d < c => d \in some)
        /\ (~HasDeadline => some = first)
    <2>1. first \in SUBSET Cycles
      BY <1>3, <1>4
    <2>. QED
      BY <1>2, <2>1, PrefixOf
  <1>. HIDE DEF first
  <1>. DEFINE got == {<<c, src[c]>> : c \in some}
  <1>6. /\ got \in SUBSET (Cycles \X CycleRow)
        /\ \A g \in got : g[1] \in some
        /\ \A c \in some : \E g \in got : g[1] = c
    <2>1. \A c \in some : c \in Cycles /\ src[c] \in CycleRow
      BY <1>3, <1>4, <1>5 DEF Started, TrafficInv, TablesType, RowMap
    <2>2. \A c \in some : <<c, src[c]>> \in got /\ <<c, src[c]>>[1] = c
      OBVIOUS
    <2>3. \A g \in got : \E c \in some : g = <<c, src[c]>>
      OBVIOUS
    <2>4. ASSUME NEW g \in got PROVE g \in Cycles \X CycleRow /\ g[1] \in some
      <3>1. PICK c \in some : g = <<c, src[c]>>
        BY <2>3
      <3>. QED
        BY <2>1, <3>1
    <2>5. \A c \in some : \E g \in got : g[1] = c
      BY <2>2
    <2>. HIDE DEF got
    <2>. QED
      BY <2>4, <2>5
  <1>. HIDE DEF got
  <1>7. /\ p' \in ProcessRow /\ p'.pc = "write" /\ p'.got = got /\ p'.v = p.v /\ p'.cmd = p.cmd
        /\ p'.lim = p.lim /\ p'.mode = p.mode /\ p'.todo = p.todo /\ p'.chg = p.chg
    <2>1. p' = [p EXCEPT !.pc = "write", !.got = got] /\ "write" \in Quanta
      BY <1>2 DEF got, Quanta
    <2>. QED
      BY <1>1, <1>6, <2>1 DEF ProcessRow
  <1>8. ProcA(p', S, R)
    BY <1>1, <1>3, <1>4, <1>5, <1>6, <1>7 DEF ProcInv, ProcA, Quanta, Batch, Sweeping
  <1>9. ASSUME Apart, S.err = "repair_delete", p.todo # {} PROVE got # {}
    <2>1. ver[p.v] = "active" /\ Empty(R) /\ (\A c \in p.todo \ p.chg : R[c] # Null)
      BY <1>1, <1>9 DEF ProcInv, ProcB, DeletingB, Batch
    <2>2. p.chg # {} /\ ~HasDeadline
      <3>1. p.chg = p.todo
        BY <1>3, <2>1, Sizes DEF Empty
      <3>. QED
        BY <1>9, <2>1, <3>1 DEF HasDeadline, IsTarget
    <2>. QED
      BY <1>4, <1>5, <1>6, <2>2
  <1>10. Apart => ProcB(p', S, R, ver[p.v])
    BY <1>1, <1>7, <1>9 DEF ProcInv, ProcB, DeletingB, Batch, Sweeping
  <1>11. InOrder => ProcC(p', S, R)
    <2>1. ASSUME NEW g \in got, NEW d \in p.chg, d < g[1] PROVE \E h \in got : h[1] = d
      BY <1>4, <1>5, <1>6, <2>1
    <2>. QED
      BY <1>1, <1>7, <2>1 DEF ProcInv, ProcC, Batch
  <1>. QED
    BY <1>1, <1>7, <1>8, <1>10, <1>11, AtWork, ProcessMoves DEF ProcInv

LEMMA Upserts ==
  ASSUME TrafficInv, NEW s \in SiteRow, NEW r \in RowMap, NEW role, SiteInv(s, r, role),
         NEW set \in SUBSET Started, \A c \in set : r[c] # Null,
         set # {} /\ InOrder => \A c \in Started : c <= Max(set) => Here(r, c)
  PROVE  /\ Upsert(s, set) \in SiteRow /\ SiteInv(Upsert(s, set), r, role)
         /\ Upsert(s, set).status = s.status /\ Upsert(s, set).sweep = s.sweep
         /\ set = {} => Upsert(s, set) = s
         /\ set # {} => Upsert(s, set).err = Null
  <1>1. CASE set = {}
    BY <1>1 DEF Upsert
  <1>2. CASE set # {}
    <2>. DEFINE m == Max(set)
                phead == Larger(s.phead, m)
                t == [s EXCEPT !.fast = m, !.phead = phead, !.err = Null]
    <2>1. m \in set /\ m \in Started /\ m \in 0 .. MaxTime /\ m > 0
      BY <1>2, LargestOf, Sizes
    <2>2. /\ phead \in {s.phead, m} /\ phead \in 0 .. MaxTime
          /\ \A c \in Nat : c <= phead => c <= s.phead \/ c <= m
      BY <2>1 DEF Larger, SiteRow
    <2>3. Upsert(s, set) = t
      BY <1>2 DEF Upsert
    <2>. HIDE DEF phead, m
    <2>4. t \in SiteRow /\ t.fast = m /\ t.phead = phead /\ t.err = Null /\ t.status = s.status
          /\ t.sweep = s.sweep /\ t.cursor = s.cursor /\ t.proof = s.proof
      BY <2>1, <2>2 DEF SiteRow, Errors
    <2>. HIDE DEF t
    <2>5. SiteA(t, r)
      BY <2>1, <2>2, <2>4, NullIsNoOther DEF SiteInv, SiteA
    <2>6. Apart => SiteB(t, r, role)
      BY <2>4, NullIsNoOther DEF SiteInv, SiteB
    <2>7. InOrder => SiteC(t, r)
      <3>1. ASSUME InOrder, NEW c \in Started, c <= m \/ c <= s.phead PROVE Here(r, c)
        BY <1>2, <3>1 DEF SiteInv, SiteC, m
      <3>2. \A c \in Started : c <= m \/ c <= phead => c <= m \/ c <= s.phead
        BY <2>2, Sizes
      <3>. QED
        BY <2>4, <3>1, <3>2, NullIsNoOther DEF SiteC
    <2>. QED
      BY <1>2, <2>3, <2>4, <2>5, <2>6, <2>7 DEF SiteInv
  <1>. QED
    BY <1>1, <1>2

LEMMA WriteKeeps ==
  ASSUME TrafficInv, Write
  PROVE  TrafficInv'
  <1>. DEFINE R == rows[p.v]
              keys == {g[1] : g \in p.got}
              Row(c) == (CHOOSE g \in p.got : g[1] = c)[2]
  <1>1. /\ Working(p) /\ p.pc = "write" /\ UNCHANGED <<now, src, ver>>
        /\ ProcInv(p, S, R, ver[p.v]) /\ S \in SiteRow /\ SiteInv(S, R, ver[p.v])
        /\ p \in ProcessRow /\ R \in RowMap /\ p.v \in Versions
    <2>1. Working(p) /\ p.pc = "write" /\ UNCHANGED <<now, src, ver>>
      BY DEF Write, Working
    <2>. QED
      BY <2>1, AtWork
  <1>2. PICK n \in 0 .. Cardinality(p.got) :
          LET written == First(n, keys)
          IN  /\ n = 0 => p.got = {} \/ HasDeadline
              /\ rows' = [rows EXCEPT ![p.v] = [c \in Cycles |->
                    IF c \in written THEN Row(c) ELSE @[c]]]
              /\ SetSite(Upsert(S, written))
              /\ p' = [p EXCEPT !.pc = IF p.mode = "inc" THEN "save" ELSE "cursor",
                                !.exam = Examined(written), !.got = {}]
    BY DEF Write
  <1>. DEFINE written == First(n, keys)
              r == [c \in Cycles |-> IF c \in written THEN Row(c) ELSE R[c]]
              s == Upsert(S, written)
              exam == Examined(written)
              pc == IF p.mode = "inc" THEN "save" ELSE "cursor"
  <1>3. /\ n \in Nat /\ (n = 0 => p.got = {} \/ HasDeadline)
        /\ rows' = [rows EXCEPT ![p.v] = r] /\ site' = [site EXCEPT ![p.v] = s]
        /\ p' = [p EXCEPT !.pc = pc, !.exam = exam, !.got = {}]
    <2>1. n \in Nat
      BY <1>2
    <2>. QED
      BY <1>1, <1>2, <2>1 DEF SetSite
  <1>4. /\ p.todo \subseteq Started /\ p.chg \subseteq p.todo /\ p.mode \in {"inc", "rec"}
        /\ keys \subseteq p.chg /\ keys \subseteq Started /\ keys \in SUBSET Cycles
        /\ \A c \in keys : Row(c) \in CycleRow
    <2>1. /\ p.todo \subseteq Started /\ p.chg \subseteq p.todo /\ p.mode \in {"inc", "rec"}
          /\ \A g \in p.got : g[1] \in p.chg /\ g[2] \in CycleRow
      BY <1>1 DEF ProcInv, ProcA, Batch, ProcessRow
    <2>2. ASSUME NEW c \in keys PROVE Row(c) \in CycleRow
      BY <2>1
    <2>. QED
      BY <2>1, <2>2, Sizes
  <1>5. /\ written \subseteq keys /\ (\A c \in written, d \in keys : d < c => d \in written)
        /\ (n > 0 /\ keys # {} => written # {})
    BY <1>3, <1>4, FirstOf
  <1>. HIDE DEF Row, keys
  <1>6. /\ r \in RowMap /\ RowsSeen(r)
        /\ \A c \in Cycles : R[c] # Null => r[c] # Null
        /\ \A c \in written : r[c] # Null
    BY <1>1, <1>4, <1>5, NullIsNoOther DEF RowMap, RowsSeen, SiteInv
  <1>. HIDE DEF written
  <1>7. /\ \A c \in exam : c \in p.todo /\ c \in Started
        /\ \A t \in exam, c \in p.todo : c <= t => c \in exam
        /\ exam \in SUBSET Cycles
    <2>1. \A c \in p.todo : c \in Nat /\ c \in Cycles /\ c \in Started
      BY <1>4, Sizes
    <2>2. \A d \in p.chg : d \in Nat
      BY <1>4, <2>1
    <2>. QED
      BY <2>1, <2>2 DEF Examined
  <1>8. Apart => \A c \in exam : r[c] # Null
    <2>. SUFFICES ASSUME Apart, NEW c \in exam PROVE r[c] # Null
      OBVIOUS
    <2>1. c \in p.todo /\ c \in Cycles /\ c \in Nat
      BY <1>7, Sizes
    <2>2. c \in p.chg => c \in written
      BY <2>1 DEF Examined
    <2>3. c \notin p.chg => R[c] # Null
      BY <1>1, <2>1 DEF ProcInv, ProcB, Batch
    <2>. QED
      BY <1>6, <2>1, <2>2, <2>3
  <1>9. SiteInv(S, r, ver[p.v])
    BY <1>1, <1>6, RowsGrow
  <1>10. ASSUME InOrder, NEW t \in written, NEW c \in Started, c <= t PROVE Here(r, c)
    <2>1. t \in p.chg /\ t \in keys /\ t \in p.todo /\ c \in Cycles
      BY <1>4, <1>5, Sizes
    <2>0. t \in Nat /\ c \in Nat
      <3>1. t \in Started
        BY <1>4, <2>1
      <3>. QED
        BY <2>1, <3>1, Sizes
    <2>2. c \in p.todo \/ Here(R, c)
      BY <1>1, <1>10, <2>1 DEF ProcInv, ProcC, Batch
    <2>3. c \in p.todo \ p.chg => R[c] # Null
      BY <1>1, <1>10, InOrderIsApart DEF ProcInv, ProcB, Batch
    <2>4. c \in p.chg => c \in keys
      <3>1. t = c \/ c < t
        BY <2>0, <1>10
      <3>2. PICK g \in p.got : g[1] = t
        BY <2>1 DEF keys
      <3>3. c \in p.chg /\ c < t => \E h \in p.got : h[1] = c
        BY <1>1, <1>10, <3>2 DEF ProcInv, ProcC
      <3>. QED
        BY <2>1, <3>1, <3>3 DEF keys
    <2>5. c \in keys => c \in written
      <3>1. t = c \/ c < t
        BY <2>0, <1>10
      <3>. QED
        BY <1>5, <3>1
    <2>. QED
      BY <1>6, <2>1, <2>2, <2>3, <2>4, <2>5 DEF Here
  <1>. HIDE DEF r, exam
  <1>11. /\ s \in SiteRow /\ SiteInv(s, r, ver[p.v])
         /\ s.status = S.status /\ s.sweep = S.sweep
         /\ (written = {} => s = S) /\ (written # {} => s.err = Null)
    <2>1. written \in SUBSET Started
      BY <1>4, <1>5
    <2>2. ASSUME written # {}, InOrder, NEW c \in Started, c <= Max(written) PROVE Here(r, c)
      <3>1. Max(written) \in written
        BY <2>1, <2>2, LargestOf, Sizes
      <3>. QED
        BY <1>10, <2>2, <3>1
    <2>. QED
      BY <1>1, <1>6, <1>9, <2>1, <2>2, Upserts
  <1>. HIDE DEF s
  <1>12. /\ p' \in ProcessRow /\ p'.pc = pc /\ p'.v = p.v /\ p'.cmd = p.cmd /\ p'.lim = p.lim
         /\ p'.mode = p.mode /\ p'.todo = p.todo /\ p'.exam = exam
    <2>1. pc \in Quanta
      BY DEF Quanta
    <2>. HIDE DEF pc
    <2>. QED
      BY <1>1, <1>3, <1>7, <2>1 DEF ProcessRow
  <1>13. ProcA(p', s, r)
    <2>1. S.status # "diverged" /\ (pc = "cursor" => S.sweep # Null)
      BY <1>1, <1>4 DEF ProcInv, ProcA, Quanta, Batch, Sweeping
    <2>. QED
      BY <1>7, <1>11, <1>12, <2>1 DEF ProcA, Quanta, Batch, Sweeping
  <1>14. ASSUME Apart PROVE ProcB(p', s, r, ver[p.v])
    <2>1. ASSUME s.err = "repair_delete" PROVE p.mode = "rec" /\ exam = {}
      <3>1. written = {} /\ S.err = "repair_delete"
        BY <1>11, <2>1, NullIsNoOther
      <3>2. p.mode = "rec" /\ ver[p.v] = "active" /\ (p.todo # {} => p.got # {})
        BY <1>1, <1>14, <3>1 DEF ProcInv, ProcB, DeletingB, Batch
      <3>3. p.todo = {}
        <4>1. p.got # {} => keys # {}
          BY DEF keys
        <4>2. ~HasDeadline
          BY <3>2 DEF HasDeadline, IsTarget
        <4>. QED
          BY <1>3, <1>5, <3>1, <3>2, <4>1, <4>2
      <3>. QED
        BY <1>7, <3>2, <3>3
    <2>2. ASSUME p.mode = "rec", NEW t \in exam, NEW c \in Window(S.sweep.from, t, 0)
          PROVE  r[c] # Null
      <3>1. c \in Started /\ S.sweep.from <= c /\ c <= t /\ c \in Cycles
        BY Sizes DEF Window
      <3>2. c \in p.todo \/ R[c] # Null
        BY <1>1, <1>7, <1>14, <2>2, <3>1 DEF ProcInv, ProcB, Batch
      <3>. QED
        BY <1>6, <1>7, <1>8, <1>14, <3>1, <3>2
    <2>3. ASSUME p.mode = "rec", Cardinality(p.todo) < p.lim, NEW c \in Window(S.sweep.from, S.sweep.head, 0)
          PROVE  c \in p.todo \/ r[c] # Null
      <3>1. c \in Cycles
        BY Sizes DEF Window
      <3>2. c \in p.todo \/ R[c] # Null
        BY <1>1, <1>14, <2>3 DEF ProcInv, ProcB, Batch, Sweeping
      <3>. QED
        BY <1>6, <3>1, <3>2
    <2>. QED
      BY <1>4, <1>8, <1>11, <1>12, <1>14, <2>1, <2>2, <2>3 DEF ProcB, DeletingB, Batch, Sweeping
  <1>15. ASSUME InOrder PROVE ProcC(p', s, r)
    <2>1. ASSUME NEW t \in exam, NEW c \in Started, c <= t PROVE Here(r, c)
      <3>1. t \in p.todo /\ c \in Cycles
        BY <1>7, Sizes
      <3>2. c \in p.todo \/ Here(R, c)
        BY <1>1, <1>15, <2>1, <3>1 DEF ProcInv, ProcC, Batch
      <3>. QED
        BY <1>6, <1>7, <1>8, <1>15, <2>1, <3>1, <3>2, InOrderIsApart DEF Here
    <2>. QED
      BY <1>12, <2>1 DEF ProcC, Batch
  <1>16. p'.pc # "loop" /\ p'.v = p.v /\ ProcInv(p', s, r, ver[p.v])
    BY <1>12, <1>13, <1>14, <1>15 DEF ProcInv
  <1>. HIDE DEF pc
  <1>. QED
    BY <1>1, <1>3, <1>6, <1>11, <1>12, <1>16, ProcessMoves

\* A step that goes on to another place changes nothing else of the process.
LEMMA GoesOn ==
  ASSUME TrafficInv, Working(p), NEW pc \in Quanta \cup CommandPcs, Goto(pc)
  PROVE  /\ p' \in ProcessRow /\ p'.pc = pc /\ p'.v = p.v /\ p'.cmd = p.cmd /\ p'.lim = p.lim
         /\ p'.mode = p.mode /\ p'.todo = p.todo /\ p'.chg = p.chg /\ p'.exam = p.exam
         /\ p'.head = p.head /\ pc # "loop" /\ pc # "off"
  <1>1. p \in ProcessRow /\ p' = [p EXCEPT !.pc = pc]
    BY AtWork DEF Goto
  <1>2. pc # "loop" /\ pc # "off"
    BY DEF Quanta, CommandPcs
  <1>. QED
    BY <1>1, <1>2 DEF ProcessRow

LEMMA SaveIncrementalKeeps ==
  ASSUME TrafficInv, SaveIncremental
  PROVE  TrafficInv'
  <1>. DEFINE R == rows[p.v]
              fast == IF p.exam = {} THEN S.fast ELSE Max(p.exam)
              backlog == Exhausted \/ Cardinality(p.todo) = Bulk
              s == [S EXCEPT !.shead = p.head, !.fast = fast, !.backlog = backlog]
  <1>1. /\ Working(p) /\ p.pc = "save" /\ UNCHANGED <<now, src, ver, rows>> /\ SetSite(s)
        /\ Goto("due") /\ "due" \in Quanta
    BY DEF SaveIncremental, Working, Quanta
  <1>2. /\ ProcInv(p, S, R, ver[p.v]) /\ S \in SiteRow /\ SiteInv(S, R, ver[p.v])
        /\ p \in ProcessRow /\ R \in RowMap
    BY <1>1, AtWork
  <1>3. fast \in Started \cup {0} /\ fast \in 0 .. MaxTime
    <2>1. p.exam \subseteq Started /\ S.fast \in Started \cup {0} /\ S.fast \in 0 .. MaxTime
      BY <1>1, <1>2 DEF ProcInv, ProcA, SiteInv, SiteA, SiteRow
    <2>2. p.exam # {} => Max(p.exam) \in p.exam
      BY <2>1, LargestOf, Sizes
    <2>. QED
      BY <2>1, <2>2, Sizes
  <1>4. ASSUME InOrder, NEW c \in Started, c <= fast PROVE Here(R, c)
    <2>1. CASE p.exam = {}
      BY <1>2, <1>4, <2>1 DEF SiteInv, SiteC
    <2>2. CASE p.exam # {}
      <3>1. Max(p.exam) \in p.exam
        BY <1>1, <1>2, <2>2, LargestOf, Sizes DEF ProcInv, ProcA
      <3>. QED
        BY <1>1, <1>2, <1>4, <2>2, <3>1 DEF ProcInv, ProcC
    <2>. QED
      BY <2>1, <2>2
  <1>. HIDE DEF fast
  <1>5. /\ s \in SiteRow /\ s.fast = fast /\ s.status = S.status /\ s.err = S.err
        /\ s.sweep = S.sweep /\ s.cursor = S.cursor /\ s.proof = S.proof /\ s.phead = S.phead
    <2>1. p.head \in 0 .. MaxTime /\ backlog \in BOOLEAN
      BY <1>2 DEF ProcessRow
    <2>. HIDE DEF backlog
    <2>. QED
      BY <1>2, <1>3, <2>1 DEF SiteRow
  <1>. HIDE DEF s
  <1>6. Apart => S.err # "repair_delete"
    BY <1>1, <1>2 DEF ProcInv, ProcB, DeletingB
  <1>7. SiteInv(s, R, ver[p.v])
    <2>1. SiteA(s, R)
      BY <1>2, <1>3, <1>5 DEF SiteInv, SiteA
    <2>2. Apart => SiteB(s, R, ver[p.v])
      BY <1>2, <1>5 DEF SiteInv, SiteB
    <2>3. InOrder => SiteC(s, R)
      BY <1>2, <1>4, <1>5, <1>6, InOrderIsApart DEF SiteInv, SiteC
    <2>. QED
      BY <1>2, <2>1, <2>2, <2>3 DEF SiteInv
  <1>8. /\ p' \in ProcessRow /\ p'.pc = "due" /\ p'.v = p.v /\ p'.cmd = p.cmd
    BY <1>1, GoesOn
  <1>9. ProcInv(p', s, R, ver[p.v])
    BY <1>1, <1>2, <1>5, <1>6, <1>8 DEF ProcInv, ProcA, ProcB, DeletingB, ProcC, Quanta, Batch, Sweeping
  <1>. QED
    BY <1>1, <1>5, <1>7, <1>8, <1>9, AtWork, ProcessMoves DEF SetSite

LEMMA SaveCursorKeeps ==
  ASSUME TrafficInv, SaveCursor
  PROVE  TrafficInv'
  <1>. DEFINE R == rows[p.v]
              s == IF p.exam = {} THEN S ELSE [S EXCEPT !.cursor = Max(p.exam), !.shead = p.head]
  <1>1. /\ Working(p) /\ p.pc = "cursor" /\ UNCHANGED <<now, src, ver, rows>> /\ SetSite(s)
        /\ Goto("close") /\ "close" \in Quanta
    BY DEF SaveCursor, Working, Quanta
  <1>2. /\ ProcInv(p, S, R, ver[p.v]) /\ S \in SiteRow /\ SiteInv(S, R, ver[p.v])
        /\ p \in ProcessRow /\ R \in RowMap
    BY <1>1, AtWork
  <1>3. p.exam \subseteq Started /\ S.sweep # Null /\ p.head \in 0 .. MaxTime
    BY <1>1, <1>2 DEF ProcInv, ProcA, Sweeping, ProcessRow
  <1>4. p.exam # {} => Max(p.exam) \in p.exam /\ Max(p.exam) \in 0 .. MaxTime
    BY <1>3, LargestOf, Sizes
  <1>5. /\ s \in SiteRow /\ s.fast = S.fast /\ s.status = S.status /\ s.err = S.err
        /\ s.sweep = S.sweep /\ s.proof = S.proof /\ s.phead = S.phead
        /\ s.cursor = IF p.exam = {} THEN S.cursor ELSE Max(p.exam)
    BY <1>2, <1>3, <1>4 DEF SiteRow
  <1>. HIDE DEF s
  <1>6. SiteInv(s, R, ver[p.v])
    <2>1. SiteA(s, R)
      BY <1>2, <1>3, <1>4, <1>5 DEF SiteInv, SiteA
    <2>2. Apart => SiteB(s, R, ver[p.v])
      BY <1>1, <1>2, <1>4, <1>5 DEF SiteInv, SiteB, ProcInv, ProcB, DeletingB
    <2>3. InOrder => SiteC(s, R)
      BY <1>2, <1>5 DEF SiteInv, SiteC
    <2>. QED
      BY <1>2, <2>1, <2>2, <2>3 DEF SiteInv
  <1>7. /\ p' \in ProcessRow /\ p'.pc = "close" /\ p'.v = p.v /\ p'.cmd = p.cmd
        /\ p'.lim = p.lim /\ p'.todo = p.todo /\ p'.exam = p.exam
    BY <1>1, GoesOn
  <1>8. ProcInv(p', s, R, ver[p.v])
    BY <1>1, <1>2, <1>5, <1>7 DEF ProcInv, ProcA, ProcB, DeletingB, ProcC, Quanta, Batch, Sweeping
  <1>. QED
    BY <1>1, <1>5, <1>6, <1>7, <1>8, AtWork, ProcessMoves DEF SetSite

\* Whatever is found wrong, the site is latched.
LEMMA DivergeKeeps ==
  ASSUME TrafficInv, Working(p), UNCHANGED <<now, src, ver, rows>>,
         NEW err \in {"source_identity", "deep_fingerprint", "ready_source_identity"},
         Apart => err # "source_identity", Diverge(err)
  PROVE  TrafficInv'
  <1>. DEFINE s == [S EXCEPT !.status = "diverged", !.err = err]
  <1>1. S \in SiteRow /\ SiteInv(S, rows[p.v], ver[p.v])
    BY AtWork
  <1>2. /\ s \in SiteRow /\ s.err = err /\ s.fast = S.fast /\ s.phead = S.phead
        /\ s.cursor = S.cursor /\ s.sweep = S.sweep /\ s.proof = S.proof
    BY <1>1 DEF SiteRow, Statuses, Errors
  <1>. HIDE DEF s
  <1>3. SiteInv(s, rows[p.v], ver[p.v])
    BY <1>1, <1>2 DEF SiteInv, SiteA, SiteB, SiteC
  <1>4. site' = [site EXCEPT ![p.v] = s] /\ Return
    BY DEF Diverge, SetSite, s
  <1>. QED
    BY <1>2, <1>3, <1>4, AtWork, ProcessReturns

LEMMA AuditKeeps ==
  ASSUME TrafficInv, Audit
  PROVE  TrafficInv'
  <1>1. /\ Working(p) /\ p.pc = "audit" /\ UNCHANGED <<now, src, ver, rows>>
        /\ Diverge("deep_fingerprint") \/ (Goto("prove") /\ UNCHANGED site)
    BY DEF Audit, Working
  <1>2. CASE Diverge("deep_fingerprint")
    BY <1>1, <1>2, DivergeKeeps
  <1>3. CASE Goto("prove") /\ UNCHANGED site
    <2>1. p' \in ProcessRow /\ p'.pc = "prove" /\ p'.v = p.v /\ p'.cmd = p.cmd
          /\ p'.lim = p.lim /\ p'.todo = p.todo /\ p'.exam = p.exam
      <3>1. "prove" \in Quanta
        BY DEF Quanta
      <3>. QED
        BY <1>1, <1>3, <3>1, GoesOn
    <2>2. ProcInv(p, S, rows[p.v], ver[p.v])
      BY <1>1, AtWork
    <2>3. ProcInv(p', S, rows[p.v], ver[p.v])
      BY <1>1, <2>1, <2>2 DEF ProcInv, ProcA, ProcB, DeletingB, ProcC, Quanta, Batch, Sweeping
    <2>. QED
      BY <1>1, <1>3, <2>1, <2>3, AtWork, ProcessMoves
  <1>. QED
    BY <1>1, <1>2, <1>3

LEMMA ProveKeeps ==
  ASSUME TrafficInv, Prove
  PROVE  TrafficInv'
  <1>. DEFINE R == rows[p.v]
              h == S.sweep.head
              s == [S EXCEPT !.status = "healthy", !.err = Null, !.sweep = Null,
                             !.cursor = 0, !.proof = h, !.proofAt = p.at,
                             !.shead = p.head, !.bound = p.head, !.backlog = FALSE]
  <1>1. /\ Working(p) /\ p.pc = "prove" /\ UNCHANGED <<now, src, ver, rows>> /\ SetSite(s) /\ Return
    BY DEF Prove, Working
  <1>2. /\ ProcInv(p, S, R, ver[p.v]) /\ S \in SiteRow /\ SiteInv(S, R, ver[p.v]) /\ p \in ProcessRow
    BY <1>1, AtWork
  <1>3. /\ S.sweep # Null /\ h \in Started /\ S.sweep.from = h - Retention
        /\ \A c \in Window(S.sweep.from, h, 0) : R[c] # Null
    BY <1>1, <1>2 DEF ProcInv, ProcA, SiteInv, SiteA, Sweeping
  <1>4. h \in 0 .. MaxTime /\ p.head \in 0 .. MaxTime /\ p.at \in 0 .. MaxTime
    BY <1>2, <1>3, Sizes DEF ProcessRow
  <1>. HIDE DEF h
  <1>5. /\ s \in SiteRow /\ s.fast = S.fast /\ s.phead = S.phead /\ s.cursor = 0 /\ s.sweep = Null
        /\ s.proof = h /\ s.err = Null
    BY <1>2, <1>4, Sizes DEF SiteRow, Statuses, Errors
  <1>. HIDE DEF s
  <1>6. SiteInv(s, R, ver[p.v])
    <2>1. SiteA(s, R)
      BY <1>2, <1>3, <1>5, NullIsNoOther DEF SiteInv, SiteA, Here
    <2>2. Apart => SiteB(s, R, ver[p.v])
      BY <1>5, NullIsNoOther DEF SiteB
    <2>3. InOrder => SiteC(s, R)
      BY <1>2, <1>5, NullIsNoOther DEF SiteInv, SiteC
    <2>. QED
      BY <1>2, <2>1, <2>2, <2>3 DEF SiteInv
  <1>. QED
    BY <1>1, <1>5, <1>6, AtWork, ProcessReturns DEF SetSite

LEMMA CloseQuantumKeeps ==
  ASSUME TrafficInv, CloseQuantum
  PROVE  TrafficInv'
  <1>. DEFINE R == rows[p.v]
              w == S.sweep
              W == Window(w.from, w.head, 0)
              T == Stored(p.v, w.from, w.head)
              status == IF S.status = "rebuilding" THEN S.status ELSE "catching_up"
              backlog == p.todo # {}
              s == [S EXCEPT !.status = status, !.backlog = backlog, !.shead = p.head]
  <1>1. /\ Working(p) /\ p.pc = "close" /\ UNCHANGED <<now, src, ver, rows>>
        /\ \/ SetSite(s) /\ Return
           \/ Completed /\ Cardinality(W) # Cardinality(T) /\ Diverge("source_identity")
           \/ Completed /\ Cardinality(W) = Cardinality(T) /\ Goto("audit") /\ UNCHANGED site
    BY DEF CloseQuantum, Working
  <1>2. /\ ProcInv(p, S, R, ver[p.v]) /\ S \in SiteRow /\ SiteInv(S, R, ver[p.v])
        /\ p \in ProcessRow /\ R \in RowMap
    BY <1>1, AtWork
  <1>3. CASE SetSite(s) /\ Return
    <2>1. status \in Statuses /\ backlog \in BOOLEAN /\ p.head \in 0 .. MaxTime
      BY <1>2 DEF Statuses, ProcessRow
    <2>2. S.err = "repair_delete" => status = "rebuilding"
      BY <1>2 DEF SiteInv, SiteA
    <2>. HIDE DEF status, backlog
    <2>3. /\ s \in SiteRow /\ s.fast = S.fast /\ s.status = status /\ s.err = S.err
          /\ s.sweep = S.sweep /\ s.proof = S.proof /\ s.phead = S.phead /\ s.cursor = S.cursor
      BY <1>2, <2>1 DEF SiteRow
    <2>. HIDE DEF s
    <2>4. SiteInv(s, R, ver[p.v])
      BY <1>2, <2>2, <2>3, SameEvidence
    <2>. QED
      BY <1>1, <1>3, <2>3, <2>4, AtWork, ProcessReturns DEF SetSite
  <1>. HIDE DEF s
  <1>4. T \subseteq W /\ W \in SUBSET Cycles /\ IsFiniteSet(W)
    <2>1. W \in SUBSET Cycles
      BY Sizes DEF Window
    <2>2. ASSUME NEW c \in T PROVE c \in W
      <3>1. c \in Cycles /\ R[c] # Null /\ w.from <= c /\ c <= w.head
        BY DEF Stored
      <3>. QED
        BY <1>2, <3>1, Sizes DEF SiteInv, RowsSeen, Window
    <2>. QED
      BY <2>1, <2>2, SetOfCycles
  <1>5. CASE Completed /\ Cardinality(W) # Cardinality(T) /\ Diverge("source_identity")
    <2>1. ASSUME Apart, NEW c \in W PROVE c \in T
      <3>1. p.exam = p.todo /\ Cardinality(p.todo) < p.lim
        BY <1>5 DEF Completed, Exhausted
      <3>2. c \in p.todo \/ R[c] # Null
        BY <1>1, <1>2, <2>1, <3>1 DEF ProcInv, ProcB, Sweeping
      <3>3. c \in p.todo => R[c] # Null
        BY <1>1, <1>2, <2>1, <3>1 DEF ProcInv, ProcB
      <3>4. c \in Cycles /\ w.from <= c /\ c <= w.head
        BY <1>4 DEF Window
      <3>. QED
        BY <3>2, <3>3, <3>4 DEF Stored
    <2>2. ~Apart
      <3>1. Apart => W = T
        BY <1>4, <2>1
      <3>. QED
        BY <1>5, <3>1
    <2>. QED
      BY <1>1, <1>5, <2>2, DivergeKeeps
  <1>6. CASE Completed /\ Cardinality(W) = Cardinality(T) /\ Goto("audit") /\ UNCHANGED site
    <2>1. T = W
      BY <1>4, <1>6, FS_Subset
    <2>2. \A c \in W : R[c] # Null
      BY <2>1 DEF Stored
    <2>. HIDE DEF W, T
    <2>3. p' \in ProcessRow /\ p'.pc = "audit" /\ p'.v = p.v /\ p'.cmd = p.cmd
          /\ p'.lim = p.lim /\ p'.todo = p.todo /\ p'.exam = p.exam
      <3>1. "audit" \in Quanta
        BY DEF Quanta
      <3>. QED
        BY <1>1, <1>6, <3>1, GoesOn
    <2>4. ProcA(p', S, R)
      BY <1>1, <1>2, <2>2, <2>3 DEF ProcInv, ProcA, Quanta, Batch, Sweeping, W
    <2>5. Apart => ProcB(p', S, R, ver[p.v])
      BY <1>1, <1>2, <2>3 DEF ProcInv, ProcB, DeletingB, Batch, Sweeping
    <2>6. ProcC(p', S, R)
      BY <2>3 DEF ProcC, Batch
    <2>. QED
      BY <1>1, <1>6, <2>3, <2>4, <2>5, <2>6, AtWork, ProcessMoves DEF ProcInv
  <1>. QED
    BY <1>1, <1>3, <1>5, <1>6

-----------------------------------------------------------------------------
(* The traffic projection: repair, commands and retention *)

LEMMA RepairSiteKeeps ==
  ASSUME TrafficInv, RepairSite
  PROVE  TrafficInv'
  <1>. DEFINE R == rows[p.v]
              s == IF Resuming(S) THEN S ELSE BeginRepair(S)
  <1>1. /\ Working(p) /\ p.pc = "repair" /\ UNCHANGED <<now, src, ver, rows>>
        /\ SetSite(s) /\ Goto("delete") /\ "delete" \in Quanta
    BY DEF RepairSite, Working, Quanta
  <1>2. /\ ProcInv(p, S, R, ver[p.v]) /\ S \in SiteRow /\ SiteInv(S, R, ver[p.v])
    BY <1>1, AtWork
  <1>3. Apart => ver[p.v] = "active" /\ ("repair" \in Commands \/ Resuming(S))
    BY <1>1, <1>2 DEF ProcInv, ProcB
  <1>4. s \in SiteRow /\ s.status = "rebuilding" /\ SiteInv(s, R, ver[p.v])
    <2>1. CASE Resuming(S)
      BY <1>2, <2>1 DEF Resuming
    <2>2. CASE ~Resuming(S)
      <3>1. s = [status |-> "rebuilding", err |-> "repair_delete", fast |-> 0, phead |-> 0,
                 shead |-> S.shead, sweep |-> Null, cursor |-> 0, proof |-> 0,
                 proofAt |-> 0, bound |-> 0, backlog |-> FALSE]
        BY <2>2 DEF BeginRepair, NewSite
      <3>2. s \in SiteRow
        <4>1. /\ "rebuilding" \in Statuses /\ "repair_delete" \in Errors /\ 0 \in 0 .. MaxTime
              /\ S.shead \in 0 .. MaxTime /\ Null \in SweepFence \cup {Null} /\ FALSE \in BOOLEAN
          BY <1>2, Sizes DEF SiteRow, Statuses, Errors
        <4>2. [status |-> "rebuilding", err |-> "repair_delete", fast |-> 0, phead |-> 0,
               shead |-> S.shead, sweep |-> Null, cursor |-> 0, proof |-> 0,
               proofAt |-> 0, bound |-> 0, backlog |-> FALSE] \in SiteRow
          BY <4>1 DEF SiteRow
        <4>. QED
          BY <3>1, <4>2
      <3>3. \A c \in Started : ~(c <= 0)
        BY Sizes
      <3>4. /\ s.status = "rebuilding" /\ s.err = "repair_delete" /\ s.fast = 0 /\ s.phead = 0
            /\ s.sweep = Null /\ s.cursor = 0 /\ s.proof = 0
        BY <3>1
      <3>. HIDE DEF s
      <3>. QED
        BY <1>2, <1>3, <2>2, <3>2, <3>3, <3>4 DEF SiteInv, SiteA, SiteB, SiteC
    <2>. QED
      BY <2>1, <2>2
  <1>. HIDE DEF s
  <1>5. p' \in ProcessRow /\ p'.pc = "delete" /\ p'.v = p.v /\ p'.cmd = p.cmd
    BY <1>1, GoesOn
  <1>6. ProcInv(p', s, R, ver[p.v])
    BY <1>3, <1>4, <1>5 DEF ProcInv, ProcA, ProcB, DeletingB, ProcC, Quanta, Batch, Sweeping
  <1>. QED
    BY <1>1, <1>4, <1>5, <1>6, AtWork, ProcessMoves DEF SetSite

LEMMA DeleteSiteCyclesKeeps ==
  ASSUME TrafficInv, DeleteSiteCycles
  PROVE  TrafficInv'
  <1>. DEFINE R == rows[p.v]
              all == Stored(p.v, 1, MaxTime)
              gone == IF S.err = "repair_delete" THEN First(Bulk, all) ELSE {}
              r == [c \in Cycles |-> IF c \in gone THEN Null ELSE R[c]]
  <1>1. /\ Working(p) /\ p.pc = "delete" /\ UNCHANGED <<now, src, ver, site>>
        /\ rows' = [rows EXCEPT ![p.v] = r]
        /\ Return \/ (Cardinality(gone) # Bulk
                      /\ p' = [p EXCEPT !.pc = "reconcile", !.at = now, !.lim = Bulk])
    <2>1. p.pc = "delete" /\ Working(p)
      BY DEF DeleteSiteCycles, Working
    <2>2. rows' = [rows EXCEPT ![p.v] = r]
      BY <2>1, AtWork DEF DeleteSiteCycles
    <2>. QED
      BY <2>1, <2>2 DEF DeleteSiteCycles
  <1>2. /\ ProcInv(p, S, R, ver[p.v]) /\ S \in SiteRow /\ SiteInv(S, R, ver[p.v])
        /\ p \in ProcessRow /\ R \in RowMap /\ S.status # "diverged"
    <2>1. /\ ProcInv(p, S, R, ver[p.v]) /\ S \in SiteRow /\ SiteInv(S, R, ver[p.v])
          /\ p \in ProcessRow /\ R \in RowMap
      BY <1>1, AtWork
    <2>. QED
      BY <1>1, <2>1 DEF ProcInv, ProcA, Quanta
  <1>3. all = {c \in Cycles : R[c] # Null}
    BY Sizes DEF Stored, Cycles
  <1>4. Cardinality(gone) # Bulk /\ S.err = "repair_delete" => Empty(r)
    <2>. SUFFICES ASSUME Cardinality(gone) # Bulk, S.err = "repair_delete" PROVE Empty(r)
      OBVIOUS
    <2>1. gone = First(Bulk, all) /\ gone \subseteq Cycles /\ all \in SUBSET Cycles
      BY <1>3 DEF First
    <2>2. Cardinality(gone) <= Bulk /\ (Cardinality(gone) < Bulk => gone = all)
      BY <2>1, FirstOf, Sizes
    <2>3. Cardinality(gone) \in Nat
      BY <2>1, SetOfCycles
    <2>. HIDE DEF gone
    <2>4. gone = all
      BY <2>2, <2>3, Sizes
    <2>. QED
      BY <1>3, <2>4 DEF Empty
  <1>5. S.err # "repair_delete" => r = R
    BY <1>2 DEF RowMap
  <1>6. r \in RowMap /\ \A c \in Cycles : r[c] # Null => R[c] # Null
    <2>. HIDE DEF gone
    <2>. QED
      BY <1>2 DEF RowMap
  <1>. HIDE DEF r, gone
  <1>7. SiteInv(S, r, ver[p.v])
    <2>1. CASE S.err # "repair_delete"
      BY <1>2, <1>5, <2>1
    <2>2. CASE S.err = "repair_delete"
      <3>1. \A c \in Started : ~(c <= 0)
        BY Sizes
      <3>2. RowsSeen(r) /\ SiteA(S, r)
        BY <1>2, <1>6, <2>2 DEF SiteInv, SiteA, RowsSeen
      <3>3. Apart => SiteB(S, r, ver[p.v])
        BY <1>2, <2>2, <3>1 DEF SiteInv, SiteB, Window
      <3>4. InOrder => SiteC(S, r)
        BY <1>2, <2>2, <3>1 DEF SiteInv, SiteA, SiteC
      <3>. QED
        BY <3>2, <3>3, <3>4 DEF SiteInv
    <2>. QED
      BY <2>1, <2>2
  <1>8. CASE Return
    BY <1>1, <1>2, <1>6, <1>7, <1>8, AtWork, ProcessReturns
  <1>9. CASE Cardinality(gone) # Bulk
             /\ p' = [p EXCEPT !.pc = "reconcile", !.at = now, !.lim = Bulk]
    <2>1. p' \in ProcessRow /\ p'.pc = "reconcile" /\ p'.v = p.v /\ p'.cmd = p.cmd
      <3>1. "reconcile" \in Quanta
        BY DEF Quanta
      <3>. QED
        BY <1>2, <1>9, <3>1, Sizes DEF ProcessRow
    <2>2. Apart => ProcB(p', S, r, ver[p.v])
      BY <1>1, <1>2, <1>4, <1>9, <2>1 DEF ProcInv, ProcB, DeletingB, Batch, Sweeping
    <2>3. ProcA(p', S, r) /\ ProcC(p', S, r)
      BY <1>2, <2>1 DEF ProcA, ProcC, Quanta, Batch, Sweeping
    <2>. QED
      BY <1>1, <1>2, <1>6, <1>7, <2>1, <2>2, <2>3, AtWork, ProcessMoves DEF ProcInv
  <1>. QED
    BY <1>1, <1>8, <1>9

LEMMA RebuildRangeKeeps ==
  ASSUME TrafficInv, RebuildRange
  PROVE  TrafficInv'
  <1>. DEFINE R == rows[p.v]
              s == [S EXCEPT !.status = "rebuilding"]
  <1>1. /\ Working(p) /\ p.pc = "range" /\ UNCHANGED <<now, src, ver, rows>>
        /\ S.status # "diverged" /\ SetSite(s)
        /\ \E todo \in SUBSET Started : p' = [p EXCEPT !.pc = "ranging", !.todo = todo]
    <2>1. \A from, to : Window(from, to, 0) \in SUBSET Started
      BY DEF Window
    <2>. QED
      BY <2>1 DEF RebuildRange, Working
  <1>2. /\ ProcInv(p, S, R, ver[p.v]) /\ S \in SiteRow /\ SiteInv(S, R, ver[p.v])
        /\ p \in ProcessRow
    BY <1>1, AtWork
  <1>3. /\ s \in SiteRow /\ s.fast = S.fast /\ s.status = "rebuilding" /\ s.err = S.err
        /\ s.sweep = S.sweep /\ s.proof = S.proof /\ s.phead = S.phead /\ s.cursor = S.cursor
    <2>1. "rebuilding" \in Statuses
      BY DEF Statuses
    <2>. QED
      BY <1>2, <2>1 DEF SiteRow
  <1>. HIDE DEF s
  <1>4. SiteInv(s, R, ver[p.v])
    BY <1>2, <1>3, SameEvidence
  <1>5. PICK todo \in SUBSET Started : p' = [p EXCEPT !.pc = "ranging", !.todo = todo]
    BY <1>1
  <1>6. p' \in ProcessRow /\ p'.pc = "ranging" /\ p'.v = p.v /\ p'.cmd = p.cmd /\ p'.todo = todo
    <2>1. "ranging" \in CommandPcs /\ todo \in SUBSET Cycles
      BY Sizes DEF CommandPcs
    <2>. QED
      BY <1>2, <1>5, <2>1 DEF ProcessRow
  <1>7. ProcA(p', s, R)
    BY <1>1, <1>2, <1>3, <1>6 DEF ProcInv, ProcA, Quanta, Batch, Sweeping
  <1>8. Apart => ProcB(p', s, R, ver[p.v])
    BY <1>1, <1>2, <1>3, <1>6 DEF ProcInv, ProcB, DeletingB, Batch, Sweeping
  <1>9. ProcC(p', s, R)
    BY <1>6 DEF ProcC, Batch
  <1>. QED
    BY <1>1, <1>3, <1>4, <1>6, <1>7, <1>8, <1>9, AtWork, ProcessMoves DEF ProcInv, SetSite

LEMMA RangeRowKeeps ==
  ASSUME TrafficInv, RangeRow
  PROVE  TrafficInv'
  <1>. DEFINE R == rows[p.v]
              c == Min(p.todo)
              r == [R EXCEPT ![c] = src[c]]
              s == Upsert(S, {c})
              rest == p.todo \ {c}
  <1>1. Working(p) /\ p.pc = "ranging" /\ UNCHANGED <<now, src, ver>>
    BY DEF RangeRow, Working
  <1>2. /\ ProcInv(p, S, R, ver[p.v]) /\ S \in SiteRow /\ SiteInv(S, R, ver[p.v])
        /\ p \in ProcessRow /\ R \in RowMap /\ src \in RowMap /\ p.v \in Versions
    BY <1>1, AtWork
  <1>3. S.status # "diverged" /\ p.todo \subseteq Started /\ p.cmd # "run"
    BY <1>1, <1>2 DEF ProcInv, ProcA, Quanta
  <1>4. Apart => "range" \in Commands
    BY <1>1, <1>2 DEF ProcInv, ProcB
  <1>5. Apart => S.err # "repair_delete"
    BY <1>2, <1>4 DEF SiteInv, SiteB, Apart
  <1>6. CASE p.todo = {}
    <2>1. p' = [p EXCEPT !.pc = "reconcile", !.at = now, !.lim = Wide] /\ UNCHANGED <<rows, site>>
      BY <1>6 DEF RangeRow
    <2>2. p' \in ProcessRow /\ p'.pc = "reconcile" /\ p'.v = p.v /\ p'.cmd = p.cmd
      <3>1. "reconcile" \in Quanta
        BY DEF Quanta
      <3>. QED
        BY <1>2, <2>1, <3>1, Sizes DEF ProcessRow
    <2>3. ProcInv(p', S, R, ver[p.v])
      BY <1>3, <1>5, <2>2 DEF ProcInv, ProcA, ProcB, DeletingB, ProcC, Quanta, Batch, Sweeping
    <2>. QED
      BY <1>1, <1>2, <2>1, <2>2, <2>3, AtWork, ProcessMoves
  <1>7. CASE p.todo # {}
    <2>1. /\ rows' = [rows EXCEPT ![p.v][c] = src[c]] /\ SetSite(s)
          /\ p' = [p EXCEPT !.todo = rest]
      BY <1>7 DEF RangeRow
    <2>2. c \in p.todo /\ c \in Started /\ c \in Cycles /\ src[c] # Null
      <3>1. p.todo \in SUBSET Nat
        BY <1>3, Sizes
      <3>2. c \in p.todo
        BY <1>7, <3>1, LeastOf
      <3>. QED
        BY <1>3, <3>2 DEF Started
    <2>. HIDE DEF c
    <2>3. /\ rows' = [rows EXCEPT ![p.v] = r] /\ r \in RowMap /\ r[c] # Null /\ RowsSeen(r)
          /\ \A d \in Cycles : R[d] # Null => r[d] # Null
      <3>1. rows' = [rows EXCEPT ![p.v] = r]
        BY <1>2, <2>1
      <3>. QED
        BY <1>2, <2>2, <3>1 DEF RowMap, SiteInv, RowsSeen
    <2>. HIDE DEF r
    <2>4. SiteInv(S, r, ver[p.v])
      BY <1>2, <2>3, RowsGrow
    <2>5. ~InOrder
      BY <1>4, InOrderIsApart DEF InOrder
    <2>6. s \in SiteRow /\ SiteInv(s, r, ver[p.v]) /\ s.status = S.status /\ s.err = Null
      BY <1>2, <2>2, <2>3, <2>4, <2>5, Upserts
    <2>. HIDE DEF s
    <2>7. p' \in ProcessRow /\ p'.pc = "ranging" /\ p'.v = p.v /\ p'.cmd = p.cmd /\ p'.todo = rest
      <3>1. rest \in SUBSET Cycles
        BY <1>2 DEF ProcessRow
      <3>. QED
        BY <1>1, <1>2, <2>1, <3>1 DEF ProcessRow
    <2>8. ProcA(p', s, r)
      BY <1>3, <2>6, <2>7 DEF ProcA, Quanta, Batch, Sweeping
    <2>9. Apart => ProcB(p', s, r, ver[p.v])
      BY <1>4, <2>6, <2>7, NullIsNoOther DEF ProcB, Batch, Sweeping
    <2>. QED
      BY <1>1, <1>2, <2>1, <2>3, <2>5, <2>6, <2>7, <2>8, <2>9, ProcessMoves DEF ProcInv, SetSite
  <1>. QED
    BY <1>6, <1>7

LEMMA CleanupKeeps ==
  ASSUME TrafficInv, NEW v \in Versions, Cleanup(v)
  PROVE  TrafficInv'
  <1>. DEFINE R == rows[v]
              cutoff == Cutoff(v)
              all == Stored(v, 1, cutoff - 1)
              old == {c \in all : rows[v][c].mark = "ended" /\ rows[v][c].fin < cutoff}
  <1>1. /\ site[v] \in SiteRow /\ R \in RowMap /\ SiteInv(site[v], R, ver[v]) /\ now \in Nat
        /\ UNCHANGED <<now, src, ver, site>> /\ Return
    BY Sizes DEF TrafficInv, TablesType, Cleanup
  <1>2. PICK gone \in Prefixes(old) :
           rows' = [rows EXCEPT ![v] = [c \in Cycles |-> IF c \in gone THEN Null ELSE R[c]]]
    BY DEF Cleanup, TrafficInv, TablesType
  <1>. DEFINE r == [c \in Cycles |-> IF c \in gone THEN Null ELSE R[c]]
  <1>3. /\ cutoff \in Int /\ cutoff <= now - Retention
        /\ site[v].sweep # Null => cutoff <= site[v].sweep.from
    <2>1. now - Retention \in Int
      BY <1>1, Sizes
    <2>2. site[v].sweep # Null => site[v].sweep.from \in Int
      BY <1>1 DEF SiteRow, SweepFence
    <2>3. CASE site[v].sweep = Null
      BY <2>1, <2>3 DEF Cutoff
    <2>4. CASE site[v].sweep # Null
      BY <2>1, <2>2, <2>4, LesserOfTwo DEF Cutoff
    <2>. QED
      BY <2>3, <2>4
  <1>. HIDE DEF cutoff
  <1>4. \A c \in gone : c \in Nat /\ c < cutoff
    <2>1. old \in SUBSET Cycles
      BY DEF Stored
    <2>2. gone \subseteq old
      BY <1>2, <2>1, PrefixOf
    <2>3. \A c \in gone : c \in Cycles /\ c <= cutoff - 1
      BY <2>2 DEF Stored
    <2>. QED
      BY <1>3, <2>3, Sizes
  <1>5. /\ r \in RowMap /\ \A c \in Cycles : r[c] # Null => R[c] # Null
        /\ \A c \in Cycles : R[c] # Null /\ r[c] = Null => c < cutoff
    BY <1>1, <1>4 DEF RowMap
  <1>. HIDE DEF r
  <1>6. ASSUME NEW c \in Cycles, Here(R, c) PROVE Here(r, c)
    <2>1. c \in Nat /\ Retention \in Nat
      BY Sizes
    <2>. QED
      BY <1>1, <1>3, <1>5, <1>6, <2>1 DEF Here
  <1>7. SiteInv(site[v], r, ver[v])
    <2>1. RowsSeen(r)
      BY <1>1, <1>5 DEF SiteInv, RowsSeen
    <2>2. SiteA(site[v], r)
      BY <1>1, <1>6, Sizes DEF SiteInv, SiteA, Window
    <2>3. Apart => SiteB(site[v], r, ver[v])
      <3>. SUFFICES ASSUME Apart, site[v].sweep # Null,
                           NEW c \in Window(site[v].sweep.from, site[v].cursor, 0)
                    PROVE  r[c] # Null
        BY <1>1 DEF SiteInv, SiteB
      <3>1. c \in Cycles /\ c \in Nat /\ site[v].sweep.from <= c /\ R[c] # Null
        BY <1>1, Sizes DEF SiteInv, SiteB, Window
      <3>2. site[v].sweep.from \in Int
        BY <1>1 DEF SiteRow, SweepFence
      <3>. QED
        BY <1>3, <1>5, <3>1, <3>2
    <2>4. InOrder => SiteC(site[v], r)
      BY <1>1, <1>6, Sizes DEF SiteInv, SiteC
    <2>. QED
      BY <2>1, <2>2, <2>3, <2>4 DEF SiteInv
  <1>8. rows' = [rows EXCEPT ![v] = r] /\ site' = [site EXCEPT ![v] = site[v]]
    BY <1>1, <1>2 DEF r, TrafficInv, TablesType
  <1>. QED
    BY <1>1, <1>5, <1>7, <1>8, ProcessReturns

LEMMA MarkReadyKeeps ==
  ASSUME TrafficInv, MarkReady
  PROVE  TrafficInv'
  <1>1. /\ Working(p) /\ p.pc = "mark-ready" /\ UNCHANGED <<now, src, ver, rows>>
        /\ \/ Return /\ UNCHANGED site
           \/ Diverge("ready_source_identity")
           \/ p' = [p EXCEPT !.pc = "ready audit", !.head = SourceHead] /\ UNCHANGED site
    BY DEF MarkReady, Working
  <1>2. CASE Return /\ UNCHANGED site
    BY <1>1, <1>2, AtWork, ProcessReturns
  <1>3. CASE Diverge("ready_source_identity")
    BY <1>1, <1>3, DivergeKeeps
  <1>4. CASE p' = [p EXCEPT !.pc = "ready audit", !.head = SourceHead] /\ UNCHANGED site
    <2>1. p' \in ProcessRow /\ p'.pc = "ready audit" /\ p'.v = p.v /\ p'.cmd = p.cmd
      <3>1. "ready audit" \in CommandPcs /\ SourceHead \in 0 .. MaxTime /\ p \in ProcessRow
        BY <1>1, AtWork, HeadOfSource DEF CommandPcs
      <3>. QED
        BY <1>4, <3>1 DEF ProcessRow
    <2>2. ProcInv(p, S, rows[p.v], ver[p.v])
      BY <1>1, AtWork
    <2>3. ProcInv(p', S, rows[p.v], ver[p.v])
      BY <1>1, <2>1, <2>2 DEF ProcInv, ProcA, ProcB, DeletingB, ProcC, Quanta, Batch, Sweeping
    <2>. QED
      BY <1>1, <1>4, <2>1, <2>3, AtWork, ProcessMoves
  <1>. QED
    BY <1>1, <1>2, <1>3, <1>4

LEMMA ReadyAuditKeeps ==
  ASSUME TrafficInv, ReadyAudit
  PROVE  TrafficInv'
  <1>1. /\ Working(p) /\ p.pc = "ready audit" /\ UNCHANGED <<now, src, ver, rows>>
        /\ Diverge("deep_fingerprint") \/ (Goto("set ready") /\ UNCHANGED site)
    BY DEF ReadyAudit, Working
  <1>2. CASE Diverge("deep_fingerprint")
    BY <1>1, <1>2, DivergeKeeps
  <1>3. CASE Goto("set ready") /\ UNCHANGED site
    <2>1. p' \in ProcessRow /\ p'.pc = "set ready" /\ p'.v = p.v /\ p'.cmd = p.cmd
      <3>1. "set ready" \in CommandPcs
        BY DEF CommandPcs
      <3>. QED
        BY <1>1, <1>3, <3>1, GoesOn
    <2>2. ProcInv(p, S, rows[p.v], ver[p.v])
      BY <1>1, AtWork
    <2>3. ProcInv(p', S, rows[p.v], ver[p.v])
      BY <1>1, <2>1, <2>2 DEF ProcInv, ProcA, ProcB, DeletingB, ProcC, Quanta, Batch, Sweeping
    <2>. QED
      BY <1>1, <1>3, <2>1, <2>3, AtWork, ProcessMoves
  <1>. QED
    BY <1>1, <1>2, <1>3

LEMMA ActivateKeeps ==
  ASSUME TrafficInv, Activate
  PROVE  TrafficInv'
  <1>1. /\ Working(p) /\ p.pc = "activate" /\ UNCHANGED <<now, src, ver, rows, site>>
        /\ Return \/ p' = [p EXCEPT !.pc = "set active", !.head = SourceHead]
    BY DEF Activate, Working, store
  <1>2. CASE Return
    BY <1>1, <1>2, AtWork, ProcessReturns
  <1>3. CASE p' = [p EXCEPT !.pc = "set active", !.head = SourceHead]
    <2>1. p' \in ProcessRow /\ p'.pc = "set active" /\ p'.v = p.v /\ p'.cmd = p.cmd
      <3>1. "set active" \in CommandPcs /\ SourceHead \in 0 .. MaxTime /\ p \in ProcessRow
        BY <1>1, AtWork, HeadOfSource DEF CommandPcs
      <3>. QED
        BY <1>3, <3>1 DEF ProcessRow
    <2>2. ProcInv(p, S, rows[p.v], ver[p.v])
      BY <1>1, AtWork
    <2>3. ProcInv(p', S, rows[p.v], ver[p.v])
      BY <1>1, <2>1, <2>2 DEF ProcInv, ProcA, ProcB, DeletingB, ProcC, Quanta, Batch, Sweeping
    <2>. QED
      BY <1>1, <1>3, <2>1, <2>3, AtWork, ProcessMoves
  <1>. QED
    BY <1>1, <1>2, <1>3

LEMMA RolesKeep ==
  ASSUME TrafficInv, SetReady \/ SetActive \/ MarkFailed
  PROVE  TrafficInv'
  <1>1. /\ UNCHANGED <<now, src, rows, site>> /\ Return /\ p.v \in Versions
        /\ ver \in [Versions -> Roles \cup {Null}]
    BY AtWork DEF SetReady, SetActive, MarkFailed, Working, TrafficInv, TablesType
  <1>2. CASE ver' = ver
    BY <1>1, <1>2, RolesMove DEF TrafficInv, OneRole
  <1>3. ASSUME ver[p.v] = "building", ver' = [ver EXCEPT ![p.v] = "ready"] PROVE TrafficInv'
    <2>1. ver' \in [Versions -> Roles \cup {Null}]
      BY <1>1, <1>3 DEF Roles
    <2>2. OneRole'
      BY <1>1, <1>3 DEF TrafficInv, OneRole
    <2>. QED
      BY <1>1, <1>3, <2>1, <2>2, RolesMove
  <1>4. ASSUME ver[p.v] = "ready",
               ver' = [v \in Versions |-> IF v = p.v THEN "active"
                                          ELSE IF ver[v] = "active" THEN "retired"
                                          ELSE ver[v]]
        PROVE  TrafficInv'
    <2>1. ver' \in [Versions -> Roles \cup {Null}]
      BY <1>1, <1>4 DEF Roles
    <2>2. OneRole'
      BY <1>1, <1>4 DEF TrafficInv, OneRole
    <2>. QED
      BY <1>1, <1>4, <2>1, <2>2, RolesMove
  <1>5. ASSUME ver[p.v] \in {"building", "ready"}, ver' = [ver EXCEPT ![p.v] = "failed"]
        PROVE  TrafficInv'
    <2>1. ver' \in [Versions -> Roles \cup {Null}]
      BY <1>1, <1>5 DEF Roles
    <2>2. OneRole'
      BY <1>1, <1>5 DEF TrafficInv, OneRole
    <2>. QED
      BY <1>1, <1>5, <2>1, <2>2, RolesMove
  <1>. QED
    BY <1>2, <1>3, <1>4, <1>5 DEF SetReady, SetActive, MarkFailed

-----------------------------------------------------------------------------
(* The traffic projection: the theorems *)

LEMMA TrafficBegins ==
  ASSUME TrafficInit
  PROVE  TrafficInv
  <1>1. /\ Off \in ProcessRow /\ p = Off /\ ~Working(p) /\ p.pc # "loop"
    BY SizesAssumption DEF TrafficInit, Off, ProcessRow, Cycles, Working
  <1>2. NewSite \in SiteRow
    <2>1. "rebuilding" \in Statuses /\ Null \in Errors /\ 0 \in 0 .. MaxTime
      BY Sizes DEF Statuses, Errors
    <2>. QED
      BY <2>1 DEF NewSite, SiteRow
  <1>3. now \in Cycles /\ now = 1
    BY SizesAssumption DEF TrafficInit, Cycles
  <1>4. TablesType /\ Started = {}
    BY <1>1, <1>2, <1>3 DEF TrafficInit, TablesType, RowMap, Started
  <1>5. OneRole
    BY NullIsNoOther DEF TrafficInit, OneRole, Roles
  <1>6. ASSUME NEW v \in Versions PROVE SiteInv(site[v], rows[v], ver[v])
    <2>1. site[v] = NewSite /\ \A c \in Cycles : rows[v][c] = Null
      BY DEF TrafficInit
    <2>. QED
      BY <1>4, <2>1, NullIsNoOther DEF NewSite, SiteInv, SiteA, SiteB, SiteC, RowsSeen, Window
  <1>. QED
    BY <1>1, <1>4, <1>5, <1>6 DEF TrafficInv

LEMMA TrafficGoesOn ==
  ASSUME TrafficInv, [TrafficNext]_trafficVars
  PROVE  TrafficInv'
  <1>1. CASE UNCHANGED trafficVars
    BY <1>1 DEF trafficVars, TrafficInv, TablesType, OneRole, SiteInv, SiteA, SiteB, SiteC, RowsSeen,
                Here, Window, Started, ProcInv, ProcA, ProcB, DeletingB, Empty, ProcC, Sweeping,
                Working, Resuming
  <1>2. CASE Work
    BY <1>2, MaintainKeeps, IncrementalKeeps, LoadKeeps, WriteKeeps, SaveIncrementalKeeps, DueKeeps,
       ReconcileKeeps, SaveCursorKeeps, CloseQuantumKeeps, AuditKeeps, ProveKeeps, RepairSiteKeeps,
       DeleteSiteCyclesKeeps DEF Work
  <1>3. CASE TrafficNext /\ ~Work
    BY <1>3, SourceKeeps, BeginKeeps, KillKeeps, StepFailsKeeps, RebuildRangeKeeps, RangeRowKeeps,
       CleanupKeeps, MarkReadyKeeps, ReadyAuditKeeps, ActivateKeeps, RolesKeep DEF TrafficNext
  <1>. QED
    BY <1>1, <1>2, <1>3

\* What the tables, the state of the sites and the place the writer has reached say together always
\* holds, however source, writer, kills and commands take turns.
THEOREM TrafficInvariance == TrafficSpec => []TrafficInv
  <1>1. TrafficInit => TrafficInv
    BY TrafficBegins
  <1>2. TrafficInv /\ [TrafficNext]_trafficVars => TrafficInv'
    BY TrafficGoesOn
  <1>. QED
    BY <1>1, <1>2, PTL DEF TrafficSpec

LEMMA TablesHold ==
  ASSUME TrafficInv
  PROVE  TablesOK
  <1>1. ASSUME NEW v \in Versions
        PROVE  /\ site[v].status \in Statuses /\ site[v].err \in Errors
               /\ {site[v].fast, site[v].phead, site[v].shead, site[v].cursor,
                   site[v].proof, site[v].bound} \subseteq 0 .. MaxTime
               /\ site[v].cursor # 0 => site[v].sweep # Null
               /\ ver[v] \in {Null, "building", "ready", "active", "retired", "failed"}
    BY DEF TrafficInv, TablesType, SiteRow, SiteInv, SiteA, Roles
  <1>2. ASSUME NEW T, \A u, w \in T : u = w PROVE Cardinality(T) <= 1
    <2>1. CASE T = {}
      BY <2>1, FS_EmptySet
    <2>2. CASE T # {}
      <3>1. PICK u : T = {u}
        BY <1>2, <2>2
      <3>. QED
        BY <3>1, FS_Singleton
    <2>. QED
      BY <2>1, <2>2
  <1>3. Cardinality({v \in Versions : ver[v] = "active"}) <= 1
    <2>1. \A u, w \in {v \in Versions : ver[v] = "active"} : u = w
      BY DEF TrafficInv, OneRole
    <2>. QED
      BY <1>2, <2>1
  <1>4. Cardinality({v \in Versions : ver[v] \in {"building", "ready"}}) <= 1
    <2>1. \A u, w \in {v \in Versions : ver[v] \in {"building", "ready"}} : u = w
      BY DEF TrafficInv, OneRole
    <2>. QED
      BY <1>2, <2>1
  <1>. QED
    BY <1>1, <1>3, <1>4 DEF TablesOK

\* The tables hold what their columns allow, with at most one active and one target version, and a
\* completed reconciliation is worth its word: every source cycle of the window it proved keeps its
\* projected row until it is old enough for the cleanup, whatever the worker, the operator's
\* commands, kills and the source do in the meantime.
THEOREM ProofsStand == TrafficSpec => [](TablesOK /\ ProofStands)
  <1>1. TrafficInv => TablesOK
    BY TablesHold
  <1>2. TrafficInv => ProofStands
    BY DEF TrafficInv, SiteInv, SiteA, Here, ProofStands
  <1>. QED
    BY <1>1, <1>2, TrafficInvariance, PTL

\* Where a repair is left alone until it has deleted what it withdrew, no sweep ends with the two
\* databases counting differently: the cleanup keeps out of the window of an unfinished sweep, and
\* a repair deletes nothing that it has rebuilt.
THEOREM SoundSweeps ==
  ASSUME Apart
  PROVE  TrafficSpec => []SweepsAreSound
  <1>1. TrafficInv => SweepsKeepIdentity
    BY DEF TrafficInv, SiteInv, SiteB, SweepsKeepIdentity
  <1>. QED
    BY <1>1, TrafficInvariance, ProofsStand, PTL DEF SweepsAreSound

-----------------------------------------------------------------------------

\* A quantum never works on a diverged site.
LEMMA DivergedIsLatched ==
  ASSUME TrafficInv, [TrafficNext]_trafficVars
  PROVE  KeepsDiverged
  <1>. SUFFICES ASSUME NEW v \in Versions, site[v].status = "diverged"
                PROVE  \/ site'[v].status = "diverged" /\ rows'[v] = rows[v]
                       \/ site'[v] = BeginRepair(site[v])
    BY DEF KeepsDiverged
  <1>1. CASE UNCHANGED <<rows, site>>
    BY <1>1
  <1>2. ASSUME Working(p), p.pc \in Quanta \cup {"ranging"} PROVE p.v # v
    BY <1>2, AtWork DEF ProcInv, ProcA, S
  <1>3. ASSUME Incremental \/ Write \/ SaveIncremental \/ Reconcile \/ SaveCursor \/ CloseQuantum
               \/ Audit \/ Prove \/ DeleteSiteCycles \/ RangeRow
        PROVE  site'[v] = site[v] /\ rows'[v] = rows[v]
    <2>1. p.v # v
      <3>1. Working(p) /\ p.pc \in Quanta \cup {"ranging"}
        BY <1>3 DEF Incremental, Write, SaveIncremental, Reconcile, SaveCursor, CloseQuantum, Audit,
                    Prove, DeleteSiteCycles, RangeRow, Working, Quanta
      <3>. QED
        BY <1>2, <3>1
    <2>2. \A s : SetSite(s) => site'[v] = site[v]
      BY <2>1 DEF SetSite, TrafficInv, TablesType
    <2>3. \A err : Diverge(err) => site'[v] = site[v]
      BY <2>2 DEF Diverge
    <2>4. CASE Write
      <3>1. \E s : SetSite(s)
        BY <2>4 DEF Write
      <3>2. \E r : rows' = [rows EXCEPT ![p.v] = r]
        BY <2>4 DEF Write
      <3>. QED
        BY <2>1, <2>2, <3>1, <3>2 DEF TrafficInv, TablesType
    <2>5. CASE DeleteSiteCycles
      <3>1. \E r : rows' = [rows EXCEPT ![p.v] = r]
        BY <2>5 DEF DeleteSiteCycles
      <3>. QED
        BY <2>1, <2>5, <3>1 DEF DeleteSiteCycles, TrafficInv, TablesType
    <2>6. CASE RangeRow
      <3>1. UNCHANGED site \/ \E s : SetSite(s)
        BY <2>6 DEF RangeRow
      <3>2. UNCHANGED rows \/ \E c, r : rows' = [rows EXCEPT ![p.v][c] = r]
        BY <2>6 DEF RangeRow
      <3>. QED
        BY <2>1, <2>2, <3>1, <3>2 DEF TrafficInv, TablesType
    <2>7. CASE Incremental \/ SaveIncremental \/ Reconcile \/ SaveCursor \/ CloseQuantum \/ Audit \/ Prove
      <3>1. UNCHANGED site \/ (\E s : SetSite(s)) \/ \E err : Diverge(err)
        BY <2>7 DEF Incremental, SaveIncremental, Reconcile, SaveCursor, CloseQuantum, Audit, Prove
      <3>2. UNCHANGED rows
        BY <2>7 DEF Incremental, SaveIncremental, Reconcile, SaveCursor, CloseQuantum, Audit, Prove
      <3>. QED
        BY <2>2, <2>3, <3>1, <3>2
    <2>. QED
      BY <1>3, <2>4, <2>5, <2>6, <2>7
  <1>4. CASE RepairSite
    <2>1. UNCHANGED rows /\ SetSite(IF Resuming(S) THEN S ELSE BeginRepair(S))
      BY <1>4 DEF RepairSite
    <2>2. site \in [Versions -> SiteRow]
      BY DEF TrafficInv, TablesType
    <2>3. CASE p.v = v
      BY <2>1, <2>2, <2>3 DEF SetSite, Resuming, S
    <2>4. CASE p.v # v
      BY <2>1, <2>2, <2>4 DEF SetSite
    <2>. QED
      BY <2>3, <2>4
  <1>5. CASE StepFails
    <2>1. UNCHANGED site \/ p.v # v
      <3>. SUFFICES ASSUME p.cmd = "run", p.v = v PROVE FALSE
        BY <1>5 DEF StepFails
      <3>1. ProcInv(p, S, rows[p.v], ver[p.v]) /\ S.status = "diverged"
        BY <1>5, AtWork DEF StepFails, Working, S
      <3>. QED
        BY <3>1 DEF ProcInv, ProcA, Resuming
    <2>2. UNCHANGED rows /\ (UNCHANGED site \/ \E s : SetSite(s))
      BY <1>5 DEF StepFails
    <2>. QED
      BY <2>1, <2>2 DEF SetSite, TrafficInv, TablesType
  <1>6. CASE RebuildRange
    <2>1. S.status # "diverged" /\ UNCHANGED rows /\ \E s : SetSite(s)
      BY <1>6 DEF RebuildRange
    <2>2. p.v # v
      BY <2>1 DEF S
    <2>. QED
      BY <2>1, <2>2 DEF SetSite, TrafficInv, TablesType
  <1>7. ASSUME NEW u \in Versions, Cleanup(u) PROVE site'[v] = site[v] /\ rows'[v] = rows[v]
    <2>1. u # v /\ UNCHANGED site /\ \E r : rows' = [rows EXCEPT ![u] = r]
      BY <1>7 DEF Cleanup, MayClean
    <2>. QED
      BY <2>1 DEF TrafficInv, TablesType
  <1>8. CASE MarkReady \/ ReadyAudit
    <2>1. UNCHANGED rows /\ (UNCHANGED site \/ \E err : Diverge(err))
      BY <1>8 DEF MarkReady, ReadyAudit
    <2>2. \A err : Diverge(err) => site'[v].status = "diverged"
      BY DEF Diverge, SetSite, TrafficInv, TablesType, S, SiteRow
    <2>. QED
      BY <2>1, <2>2
  <1>9. CASE UNCHANGED trafficVars
    BY <1>9 DEF trafficVars
  <1>10. CASE TrafficNext
    <2>1. CASE Work
      <3>1. CASE (\E u \in Versions : Maintain(u)) \/ Load \/ Due
        BY <3>1 DEF Maintain, Load, Due, store
      <3>. QED
        BY <1>3, <1>4, <2>1, <3>1 DEF Work
    <2>2. CASE StartCycle \/ (\E c \in Cycles : StoreAps(c) \/ EndCycle(c)) \/ ClockTick
      BY <2>2 DEF StartCycle, StoreAps, EndCycle, ClockTick, store
    <2>3. CASE \E cmd \in Commands, u \in Versions : Begin(cmd, u)
      BY <2>3 DEF Begin
    <2>4. CASE Kill \/ SetReady \/ Activate \/ SetActive \/ MarkFailed
      BY <2>4 DEF Kill, SetReady, Activate, SetActive, MarkFailed, store
    <2>. QED
      BY <1>3, <1>5, <1>6, <1>7, <1>8, <1>10, <2>1, <2>2, <2>3, <2>4 DEF TrafficNext
  <1>. QED
    BY <1>9, <1>10

\* The steps that change the role of a version, and those of them that make it active.
LEMMA RolesChange ==
  ASSUME TrafficInv, [TrafficNext]_trafficVars
  PROVE  \/ UNCHANGED ver
         \/ /\ SetActive /\ SiteReady(S, p.head, p.at) /\ p.v \in Versions
            /\ ver' = [v \in Versions |-> IF v = p.v THEN "active"
                                          ELSE IF ver[v] = "active" THEN "retired" ELSE ver[v]]
         \/ \A v \in Versions : ver[v] = "active" <=> ver'[v] = "active"
  <1>1. ASSUME NEW cmd \in Commands, NEW v \in Versions, Begin(cmd, v)
        PROVE  \A u \in Versions : ver[u] = "active" <=> ver'[u] = "active"
    <2>1. ver' = [ver EXCEPT ![v] = IF ver[v] = Null THEN "building" ELSE ver[v]]
      BY <1>1 DEF Begin, TrafficInv, TablesType
    <2>. QED
      BY <2>1, NullIsNoOther DEF TrafficInv, TablesType, Roles
  <1>2. CASE SetReady \/ MarkFailed
    BY <1>2 DEF SetReady, MarkFailed, TrafficInv, TablesType
  <1>3. CASE SetActive
    <2>1. p.v \in Versions
      BY <1>3, AtWork DEF SetActive, Working
    <2>. QED
      BY <1>3, <2>1 DEF SetActive
  <1>4. CASE Work
    BY <1>4 DEF Work, Maintain, Incremental, Load, Write, SaveIncremental, Due, Reconcile, SaveCursor,
                CloseQuantum, Audit, Prove, RepairSite, DeleteSiteCycles, store
  <1>5. CASE StartCycle \/ (\E c \in Cycles : StoreAps(c) \/ EndCycle(c)) \/ ClockTick \/ Kill
             \/ StepFails
    BY <1>5 DEF StartCycle, StoreAps, EndCycle, ClockTick, Kill, StepFails, store
  <1>6. CASE RebuildRange \/ RangeRow \/ (\E v \in Versions : Cleanup(v)) \/ MarkReady \/ ReadyAudit
             \/ Activate
    BY <1>6 DEF RebuildRange, RangeRow, Cleanup, MarkReady, ReadyAudit, Activate, store
  <1>. QED
    BY <1>1, <1>2, <1>3, <1>4, <1>5, <1>6 DEF TrafficNext, trafficVars

\* The portal is never left to a version nobody vouches for: a divergence stays latched until an
\* explicit repair withdraws every proof, whichever step the worker or a command takes next, and
\* once a version serves reads there is always one, also when an activation is refused or killed.
THEOREM SafeService == TrafficSpec => ServiceIsSafe
  <1>1. TrafficInv /\ [TrafficNext]_trafficVars => KeepsDiverged
    BY DivergedIsLatched
  <1>2. TrafficInv /\ [TrafficNext]_trafficVars => KeepsAnActiveVersion
    <2>. SUFFICES ASSUME TrafficInv, [TrafficNext]_trafficVars PROVE KeepsAnActiveVersion
      OBVIOUS
    <2>. QED
      BY RolesChange DEF KeepsAnActiveVersion
  <1>3. TrafficInv /\ [TrafficNext]_trafficVars => [KeepsDiverged /\ KeepsAnActiveVersion]_trafficVars
    BY <1>1, <1>2
  <1>. QED
    BY <1>3, TrafficInvariance, PTL DEF TrafficSpec, ServiceIsSafe

\* Where no range is reprojected and no version under repair is activated, a version becomes active
\* only with every cycle of the horizon projected, those the cleanup has taken excepted: the proofs
\* activation asks for, which it reads before its transaction, are not outrun by the source.
THEOREM CompleteActivation ==
  ASSUME InOrder
  PROVE  TrafficSpec => ActivatedComplete
  <1>. DEFINE A == \A v \in Versions :
                     (ver[v] # "active" /\ ver'[v] = "active") =>
                        \A c \in Window(p.head - Retention, p.head, 0) :
                           rows[v][c] # Null \/ c < now - Retention
  <1>1. TrafficInv /\ [TrafficNext]_trafficVars => A
    <2>. SUFFICES ASSUME TrafficInv, [TrafficNext]_trafficVars, NEW v \in Versions,
                         ver[v] # "active", ver'[v] = "active",
                         NEW c \in Window(p.head - Retention, p.head, 0)
                  PROVE  rows[v][c] # Null \/ c < now - Retention
      OBVIOUS
    <2>1. /\ SetActive /\ SiteReady(S, p.head, p.at) /\ p.v \in Versions
          /\ ver' = [u \in Versions |-> IF u = p.v THEN "active"
                                        ELSE IF ver[u] = "active" THEN "retired" ELSE ver[u]]
      BY RolesChange
    <2>2. v = p.v
      BY <2>1
    <2>3. SiteC(S, rows[v]) /\ S \in SiteRow /\ p \in ProcessRow
      BY <2>1, <2>2, AtWork DEF SetActive, Working, SiteInv
    <2>4. c \in Started /\ c \in Nat /\ c <= p.head /\ p.head \in Nat /\ S.phead \in Nat
      BY <2>3, Sizes DEF Window, ProcessRow, SiteRow
    <2>5. c <= S.phead
      BY <2>1, <2>4 DEF SiteReady
    <2>. QED
      BY <2>3, <2>4, <2>5 DEF SiteC, Here
  <1>2. TrafficInv /\ [TrafficNext]_trafficVars => [A]_trafficVars
    BY <1>1
  <1>. HIDE DEF A
  <1>3. TrafficSpec => [][A]_trafficVars
    BY <1>2, TrafficInvariance, PTL DEF TrafficSpec
  <1>. QED
    BY <1>3 DEF A, ActivatedComplete
=============================================================================
