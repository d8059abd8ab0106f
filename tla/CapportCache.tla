---------------------------- MODULE CapportCache ----------------------------
(***************************************************************************)
(* CapportService: answers "is the client at this IP captive?" from a      *)
(* snapshot of the site's clients (IP to MAC, by generation) and a cache   *)
(* of per-IP client states, both short-lived, refreshed from the           *)
(* controller under locks while the clients move between addresses and     *)
(* are authorized or not.  One step is one critical section of the cache   *)
(* lock or one answer of the controller.                                   *)
(***************************************************************************)
EXTENDS Integers, FiniteSets

CONSTANTS Thread,     \* request threads
          IP, Mac,
          None,       \* no client at an address
          Ambiguous,  \* two active clients listed with one address
          TTL,        \* cache_ttl_seconds, in ticks
          FailureTTL, \* failure_cache_ttl_seconds, in ticks
          MaxGen,     \* bound: identity refreshes
          MaxChanges  \* bound: changes of addresses and authorizations

ASSUME CapportAssumption ==
  TTL \in Nat \ {0} /\ FailureTTL \in Nat \ {0} /\ MaxGen \in Nat /\ MaxChanges \in Nat /\ None \notin Mac /\ Ambiguous \notin Mac

Attempts == 2  \* IDENTITY_CHANGE_ATTEMPTS

VARIABLES
  addr, auth,   \* the controller: the client at an address, the authorized clients
  gen, left,    \* the cached identity snapshot: its generation (-1: none) and remaining life
  snap,         \* snap[g]: addresses and authorizations the list of generation g showed
  states,       \* _state_cache: states[ip]
  cooldown,     \* remaining life of the failure cooldown
  epoch,        \* epoch[ip]: changes when the refresh lock of ip is pruned
  changes,      \* changes of the world so far
  req,          \* req[t]: the request thread t works on
  since         \* since[g]: clients authorized at some time since list g was read

vars == <<addr, auth, gen, left, snap, states, cooldown, epoch, req, changes, since>>

Idle == [pc |-> "idle", ip |-> None, force |-> FALSE, attempt |-> 0, seen |-> -1,
         gen |-> -1, mac |-> None, auth |-> FALSE, epoch |-> 0]

NoSnap == [map |-> [ip \in IP |-> None], auth |-> {}]

Init ==
  /\ addr \in [IP -> Mac \cup {None}]
  /\ auth \in SUBSET Mac
  /\ gen = -1
  /\ left = 0
  /\ snap = [g \in 0 .. MaxGen |-> NoSnap]
  /\ states = [ip \in IP |-> None]
  /\ cooldown = 0
  /\ epoch = [ip \in IP |-> 0]
  /\ req = [t \in Thread |-> Idle]
  /\ changes = 0
  /\ since = [g \in 0 .. MaxGen |-> {}]

Fail(t) == req' = [req EXCEPT ![t].pc = "failed"]

-----------------------------------------------------------------------------
(* resolve, _resolve_allowed_client                                        *)

Start(t, ip, force) ==
  /\ req[t].pc = "idle"
  /\ req' = [req EXCEPT ![t] = [Idle EXCEPT !.pc = "identity", !.ip = ip, !.force = force,
                                            !.attempt = 1]]
  /\ UNCHANGED <<addr, auth, gen, left, snap, states, cooldown, epoch, changes, since>>

\* what follows once t has snapshot g
WithSnapshot(t, g) ==
  LET mac == snap[g].map[req[t].ip]
  IN [req[t] EXCEPT !.gen = g, !.mac = mac, !.force = FALSE,
                    !.pc = CASE mac = None -> "not_found"
                             [] mac = Ambiguous -> "failed"
                             [] OTHER -> "state"]

\* IdentityChanged: once more, then failure
Again(t) ==
  req' = [req EXCEPT ![t].pc = IF req[t].attempt < Attempts THEN "identity" ELSE "failed",
                     ![t].attempt = @ + 1]

Listing == {t \in Thread : req[t].pc \in {"listing", "listed"}}

\* _get_identity_snapshot up to the site lock
LookUpIdentity(t) ==
  /\ req[t].pc = "identity"
  /\ \/ /\ left > 0 /\ ~req[t].force
        /\ req' = [req EXCEPT ![t] = WithSnapshot(t, gen)]
     \/ /\ left = 0 \/ req[t].force
        /\ IF cooldown > 0 THEN Fail(t)
           ELSE req' = [req EXCEPT ![t].pc = "refresh",
                                   ![t].seen = IF left > 0 THEN gen ELSE -1]
  /\ UNCHANGED <<addr, auth, gen, left, snap, states, cooldown, epoch, changes, since>>

\* Variant: a forced refresh takes any fresh snapshot.
EnterRefresh_AnySnapshot(t) ==
  /\ req[t].pc = "refresh"
  /\ Listing = {}
  /\ \/ left > 0 /\ req' = [req EXCEPT ![t] = WithSnapshot(t, gen)]
     \/ /\ left = 0
        /\ IF cooldown > 0 THEN Fail(t) ELSE req' = [req EXCEPT ![t].pc = "listing"]
  /\ UNCHANGED <<addr, auth, gen, left, snap, states, cooldown, epoch, changes, since>>

\* In the site lock: somebody else may have refreshed or failed meanwhile.
EnterRefresh(t) ==
  /\ req[t].pc = "refresh"
  /\ Listing = {}
  /\ LET usable == left > 0 /\ (req[t].force => gen > req[t].seen)
     IN \/ usable /\ req' = [req EXCEPT ![t] = WithSnapshot(t, gen)]
        \/ /\ ~usable
           /\ IF cooldown > 0 THEN Fail(t)
              ELSE req' = [req EXCEPT ![t].pc = "listing"]
  /\ UNCHANGED <<addr, auth, gen, left, snap, states, cooldown, epoch, changes, since>>

\* The controller answers get_clients; the next generation is this thread's to store.
ListRead(t) ==
  /\ req[t].pc = "listing"
  /\ gen < MaxGen
  /\ snap' = [snap EXCEPT ![gen + 1] = [map |-> addr, auth |-> auth]]
  /\ since' = [since EXCEPT ![gen + 1] = auth]
  /\ req' = [req EXCEPT ![t].pc = "listed"]
  /\ UNCHANGED <<addr, auth, gen, left, states, cooldown, epoch, changes>>

\* Variant: a failed refresh leaves its lock held.
ListFails_KeepsLock(t) ==
  /\ req[t].pc = "listing"
  /\ cooldown' = FailureTTL
  /\ UNCHANGED <<addr, auth, gen, left, snap, states, epoch, req, changes, since>>

\* The call fails, or its answer is not a list of clients.
ListFails(t) ==
  /\ req[t].pc = "listing"
  /\ cooldown' = FailureTTL
  /\ Fail(t)
  /\ UNCHANGED <<addr, auth, gen, left, snap, states, epoch, changes, since>>

\* _prune_site_state: what was cached under an earlier generation goes
Pruned(g) ==
  [ip \in IP |->
     IF states[ip] # None /\ states[ip].gen = g /\ states[ip].mac = snap[g].map[ip]
     THEN states[ip] ELSE None]

LockHolders(ip, e) ==
  {t \in Thread : req[t].ip = ip /\ req[t].epoch = e /\ req[t].pc \in {"calling", "answered"}}

StoreIdentity(t) ==
  LET g == gen + 1
  IN /\ req[t].pc = "listed"
     /\ gen' = g
     /\ left' = TTL
     /\ states' = Pruned(g)
     /\ epoch' = [ip \in IP |-> IF snap[g].map[ip] \notin Mac /\ LockHolders(ip, epoch[ip]) = {}
                                THEN epoch[ip] + 1 ELSE epoch[ip]]
     /\ req' = [req EXCEPT ![t] = WithSnapshot(t, g)]
     /\ UNCHANGED <<addr, auth, snap, cooldown, changes, since>>

-----------------------------------------------------------------------------
(* _get_authoritative_state                                                *)

\* _validate_cached_state: an entry of another client or generation is dropped
Valid(t) ==
  LET entry == states[req[t].ip]
  IN entry # None /\ entry.mac = req[t].mac /\ entry.gen = req[t].gen

Answer(t, authorized) == [req[t] EXCEPT !.pc = "found", !.auth = authorized]

\* The look at the cache before (pc = "state") and in the lock of the address (pc = "lock").
ReadState(t, next) ==
  LET ip == req[t].ip
  IN \/ /\ Valid(t)
        /\ req' = [req EXCEPT ![t] = Answer(t, states[ip].auth)]
        /\ UNCHANGED states
     \/ /\ ~Valid(t)
        /\ states' = [states EXCEPT ![ip] = None]
        /\ IF cooldown > 0 THEN Fail(t)
           ELSE req' = [req EXCEPT ![t].pc = next,
                                   ![t].epoch = IF next = "lock" THEN epoch[ip] ELSE @]

LookUpState(t) ==
  /\ req[t].pc = "state"
  /\ ReadState(t, "lock")
  /\ UNCHANGED <<addr, auth, gen, left, snap, cooldown, epoch, changes, since>>

EnterLock(t) ==
  /\ req[t].pc = "lock"
  /\ LockHolders(req[t].ip, req[t].epoch) = {}
  /\ ReadState(t, "calling")
  /\ UNCHANGED <<addr, auth, gen, left, snap, cooldown, epoch, changes, since>>

\* _identity_matches
IdentityMatches(t) == gen = req[t].gen /\ snap[gen].map[req[t].ip] = req[t].mac

\* Variant: the row of any earlier list is used.
DetailRead_StaleFallback(t, fallback) ==
  /\ req[t].pc = "calling"
  /\ IF IdentityMatches(t)
     THEN req' = [req EXCEPT ![t].pc = "answered",
                             ![t].auth = IF fallback THEN \E g \in 0 .. gen : req[t].mac \in snap[g].auth
                                         ELSE req[t].mac \in auth]
     ELSE Again(t)
  /\ UNCHANGED <<addr, auth, gen, left, snap, states, cooldown, epoch, changes, since>>

\* The controller answers get_client, or says it does not know the client by its detail call, in
\* which case the row of the list is used.
DetailRead(t, fallback) ==
  /\ req[t].pc = "calling"
  /\ IF IdentityMatches(t)
     THEN req' = [req EXCEPT ![t].pc = "answered",
                             ![t].auth = req[t].mac \in IF fallback THEN snap[req[t].gen].auth ELSE auth]
     ELSE Again(t)
  /\ UNCHANGED <<addr, auth, gen, left, snap, states, cooldown, epoch, changes, since>>

DetailFails(t) ==
  /\ req[t].pc = "calling"
  /\ IF IdentityMatches(t)
     THEN Fail(t) /\ cooldown' = FailureTTL
     ELSE Again(t) /\ UNCHANGED cooldown
  /\ UNCHANGED <<addr, auth, gen, left, snap, states, epoch, changes, since>>

Entry(t) == [mac |-> req[t].mac, gen |-> req[t].gen, auth |-> req[t].auth, left |-> TTL]

\* Variant: the answer is cached whatever the snapshot is now.
StoreState_Unchecked(t) ==
  /\ req[t].pc = "answered"
  /\ states' = [states EXCEPT ![req[t].ip] = Entry(t)]
  /\ req' = [req EXCEPT ![t] = Answer(t, req[t].auth)]
  /\ UNCHANGED <<addr, auth, gen, left, snap, cooldown, epoch, changes, since>>

\* Variant: the answer is given whatever the snapshot is now.
StoreState_AnswersAnyway(t) ==
  /\ req[t].pc = "answered"
  /\ states' = IF IdentityMatches(t) THEN [states EXCEPT ![req[t].ip] = Entry(t)] ELSE states
  /\ req' = [req EXCEPT ![t] = Answer(t, req[t].auth)]
  /\ UNCHANGED <<addr, auth, gen, left, snap, cooldown, epoch, changes, since>>

\* The answer is cached and given only if the snapshot it was asked under is still the current one.
StoreState(t) ==
  /\ req[t].pc = "answered"
  /\ IF IdentityMatches(t)
     THEN /\ states' = [states EXCEPT ![req[t].ip] = Entry(t)]
          /\ req' = [req EXCEPT ![t] = Answer(t, req[t].auth)]
     ELSE UNCHANGED states /\ Again(t)
  /\ UNCHANGED <<addr, auth, gen, left, snap, cooldown, epoch, changes, since>>

\* The response is sent.
Respond(t) ==
  /\ req[t].pc \in {"found", "not_found", "failed"}
  /\ req' = [req EXCEPT ![t] = Idle]
  /\ UNCHANGED <<addr, auth, gen, left, snap, states, cooldown, epoch, changes, since>>

-----------------------------------------------------------------------------
Change == changes < MaxChanges /\ changes' = changes + 1

\* A client takes an address (or two claim it), or leaves it.
Move(ip, mac) ==
  /\ Change
  /\ addr' = [addr EXCEPT ![ip] = mac]
  /\ UNCHANGED <<auth, gen, left, snap, states, cooldown, epoch, req, since>>

\* A client is authorized or loses its authorization.
Authorize(mac) ==
  /\ Change
  /\ auth' = IF mac \in auth THEN auth \ {mac} ELSE auth \cup {mac}
  /\ since' = [g \in DOMAIN since |-> since[g] \cup auth']
  /\ UNCHANGED <<addr, gen, left, snap, states, cooldown, epoch, req>>

Tick ==
  /\ left' = IF left > 0 THEN left - 1 ELSE 0
  /\ cooldown' = IF cooldown > 0 THEN cooldown - 1 ELSE 0
  /\ states' = [ip \in IP |->
                  IF states[ip] = None \/ states[ip].left = 1 THEN None
                  ELSE [states[ip] EXCEPT !.left = @ - 1]]
  /\ UNCHANGED <<addr, auth, gen, snap, epoch, req, changes, since>>

Request(t) ==
  \/ \E ip \in IP, force \in BOOLEAN : Start(t, ip, force)
  \/ LookUpIdentity(t)
  \/ EnterRefresh(t)
  \/ ListRead(t)
  \/ ListFails(t)
  \/ StoreIdentity(t)
  \/ LookUpState(t)
  \/ EnterLock(t)
  \/ \E fallback \in BOOLEAN : DetailRead(t, fallback)
  \/ DetailFails(t)
  \/ StoreState(t)
  \/ Respond(t)

World ==
  \/ \E ip \in IP, mac \in Mac \cup {None, Ambiguous} : Move(ip, mac)
  \/ \E mac \in Mac : Authorize(mac)
  \/ Tick

Next == World \/ \E t \in Thread : Request(t)

Spec == Init /\ [][Next]_vars

\* Threads run, locks are handed on, and the controller answers or fails (its client has timeouts).
FairSpec ==
  /\ Spec
  /\ \A t \in Thread :
       /\ WF_vars(LookUpIdentity(t) \/ ListRead(t) \/ ListFails(t) \/ StoreIdentity(t) \/ LookUpState(t)
                    \/ DetailFails(t) \/ StoreState(t) \/ Respond(t))
       /\ SF_vars(EnterRefresh(t))
       /\ SF_vars(EnterLock(t))

-----------------------------------------------------------------------------
(* Properties                                                              *)

\* Types, and at most one thread lists the site's clients.
TypeOK ==
  /\ gen \in -1 .. MaxGen
  /\ left \in 0 .. TTL /\ cooldown \in 0 .. FailureTTL
  /\ \A ip \in IP : states[ip] # None => states[ip].mac \in Mac /\ states[ip].left \in 1 .. TTL
  /\ Cardinality(Listing) <= 1
  /\ \A t \in Thread : req[t].attempt \in 0 .. Attempts + 1

\* The cache never holds the state of a client that has lost the address: every entry belongs to the
\* client and the generation of the current snapshot, although details are asked for without a lock
\* on the snapshot and may arrive after it was replaced.
StatesMatchSnapshot ==
  \A ip \in IP : states[ip] # None => states[ip].gen = gen /\ states[ip].mac = snap[gen].map[ip]

\* The moment an answer about a client is settled, it is about the client that the newest snapshot
\* shows at the address, whether it comes from the cache or from the controller, and although the
\* thread took its snapshot before it waited for locks and for the controller.
SettlesCurrent ==
  \A t \in Thread : req[t].pc # "found" /\ req'[t].pc = "found" =>
    req'[t].gen = gen /\ req'[t].mac = snap[gen].map[req[t].ip]

\* "Authorized" is answered only if the controller had this client authorized at some time since the
\* list of the snapshot was read: no authorization of an earlier user of the address leaks through.
AuthorizedSinceList ==
  \A t \in Thread : req[t].pc = "found" /\ req[t].auth => req[t].mac \in since[req[t].gen]

\* What the cache holds and what is answered from it belong to the client at the address.
StatesAreCurrent == TypeOK /\ StatesMatchSnapshot /\ AuthorizedSinceList

\* A refresh that was forced because the client was not found is never answered from the snapshot
\* that did not show it, nor from an older one.
ForcesNewer ==
  \A t \in Thread :
    req[t].pc \in {"refresh", "listed"} /\ req[t].force /\ req'[t].gen # req[t].gen
      => req'[t].gen > req[t].seen

\* No answer is given from a snapshot the request should have looked past.
AnswersAreFresh == [][SettlesCurrent /\ ForcesNewer]_vars

\* Every request is answered: threads that wait for each other's refreshes, identity changes and
\* failures end in an answer.
Answered == \A t \in Thread : req[t].pc # "idle" ~> req[t].pc = "idle"
=============================================================================
