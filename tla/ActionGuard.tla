----------------------------- MODULE ActionGuard -----------------------------
(***************************************************************************)
(* app/pending_sessions/action_guard.py: the cooldown and the hourly limit *)
(* on reconnecting one client, kept in process memory for a bounded number *)
(* of clients, and the two calls the cleaner makes on it: check() decides, *)
(* and record_attempt() remembers once the audit record has been written.  *)
(* Time is counted in ticks; two attempts are never recorded at the same   *)
(* reading of the monotonic clock.                                         *)
(***************************************************************************)
EXTENDS Integers, FiniteSets, FiniteSetsExt

CONSTANTS
    Macs,         \* client MAC addresses
    Cooldown,     \* action_cooldown_seconds
    Hour,         \* the window of the hourly limit
    HourlyLimit,  \* max_actions_per_mac_per_hour
    MaxEntries,   \* max_cache_entries
    MaxClock,     \* bound on the clock (the code has none)
    None

ASSUME GuardAssumption ==
    /\ Cooldown \in Nat /\ Hour \in Nat \ {0}
    /\ HourlyLimit \in Nat \ {0} /\ MaxEntries \in Nat \ {0} /\ MaxClock \in Nat
    /\ None \notin Nat /\ None \notin Macs
ASSUME MacsAssumption == IsFiniteSet(Macs)

VARIABLES
    clock,     \* the monotonic clock
    last,      \* _last_attempt: MAC -> time of its last attempt
    attempts,  \* _attempts: MAC -> times of its attempts
    granted,   \* the client the scan has been allowed to act on and has not acted on yet
    log        \* every attempt ever recorded (history)

guardVars == <<clock, last, attempts, granted, log>>

-----------------------------------------------------------------------------
(* _prune_locked and _bound_locked *)

PrunedAttempts == [m \in Macs |-> { t \in attempts[m] : t > clock - Hour }]

\* The last attempt is forgotten together with the last deque entry, and only then.
PrunedLast ==
    [m \in Macs |->
        IF attempts[m] # {} /\ PrunedAttempts[m] = {} /\ last[m] # None /\ clock - last[m] >= Cooldown
        THEN None ELSE last[m]]

\* Variant: one entry over the bound is let stand.
Evicted_OffByOne(a) ==
    LET present == { m \in Macs : a[m] # {} }
        excess  == Cardinality(present) - MaxEntries - 1
    IN  IF excess <= 0 THEN {}
        ELSE CHOOSE gone \in SUBSET present :
                /\ Cardinality(gone) = excess
                /\ \A m \in gone, k \in present \ gone : Max(a[m]) <= Max(a[k])

\* Variant: the latest client's entry goes instead of the oldest one's.
Evicted_Newest(a) ==
    LET present == { m \in Macs : a[m] # {} }
        excess  == Cardinality(present) - MaxEntries
    IN  IF excess <= 0 THEN {}
        ELSE CHOOSE gone \in SUBSET present :
                /\ Cardinality(gone) = excess
                /\ \A m \in gone, k \in present \ gone : Max(a[m]) >= Max(a[k])

\* The clients whose entries have to go because the cache is over its bound: the ones that have
\* been quiet for longest.
Evicted(a) ==
    LET present == { m \in Macs : a[m] # {} }
        excess  == Cardinality(present) - MaxEntries
    IN  IF excess <= 0 THEN {}
        ELSE CHOOSE gone \in SUBSET present :
                /\ Cardinality(gone) = excess
                /\ \A m \in gone, k \in present \ gone : Max(a[m]) <= Max(a[k])

-----------------------------------------------------------------------------
(* check and record_attempt *)

CooledDown(m) == PrunedLast[m] # None => clock - PrunedLast[m] >= Cooldown

\* Variant: one action too many in an hour.
UnderLimit_OffByOne(m) == Cardinality(PrunedAttempts[m]) <= HourlyLimit

UnderLimit(m) == Cardinality(PrunedAttempts[m]) < HourlyLimit

\* check() prunes whatever it decides.  One scan at a time holds the cleaner's _scan_lock.
Check(m) ==
    /\ granted = None
    /\ last' = PrunedLast
    /\ attempts' = PrunedAttempts
    /\ granted' = IF CooledDown(m) /\ UnderLimit(m) THEN m ELSE None
    /\ UNCHANGED <<clock, log>>

RecordAttempt(m) ==
    LET a    == [PrunedAttempts EXCEPT ![m] = @ \union {clock}]
        gone == Evicted(a)
    IN
    /\ granted = m
    /\ clock' = clock + 1
    /\ attempts' = [k \in Macs |-> IF k \in gone THEN {} ELSE a[k]]
    /\ last' = [k \in Macs |-> IF k \in gone THEN None ELSE IF k = m THEN clock ELSE PrunedLast[k]]
    /\ log' = log \union {[mac |-> m, at |-> clock]}
    /\ granted' = None

\* The audit record of the planned action could not be written: nothing is sent or recorded.
AuditFails ==
    /\ granted # None
    /\ granted' = None
    /\ UNCHANGED <<clock, last, attempts, log>>

Tick ==
    /\ clock < MaxClock
    /\ clock' = clock + 1
    /\ UNCHANGED <<last, attempts, granted, log>>

-----------------------------------------------------------------------------
GuardInit ==
    /\ clock = 0
    /\ last = [m \in Macs |-> None]
    /\ attempts = [m \in Macs |-> {}]
    /\ granted = None
    /\ log = {}

GuardNext ==
    \/ Tick
    \/ AuditFails
    \/ \E m \in Macs : Check(m) \/ (clock < MaxClock /\ RecordAttempt(m))

GuardSpec == GuardInit /\ [][GuardNext]_guardVars

-----------------------------------------------------------------------------
(* Properties *)

\* Type invariant, with the agreement of the two tables _last_attempt and _attempts: a client with
\* recorded attempts has the latest of them as its last one, and none of them lies in the future.
GuardTypeOK ==
    /\ clock \in Nat
    /\ granted \in Macs \union {None}
    /\ last \in [Macs -> Nat \union {None}]
    /\ attempts \in [Macs -> SUBSET Nat]
    /\ log \in SUBSET [mac : Macs, at : Nat]
    /\ \A m \in Macs : attempts[m] # {} => last[m] = Max(attempts[m]) /\ last[m] < clock

\* How many other clients were acted on from time t on, up to time u.
OthersActed(m, t, u) == Cardinality({ e.mac : e \in { f \in log : f.mac # m /\ t <= f.at /\ f.at <= u } })

\* Two attempts on one client are at least the cooldown apart, unless so many other clients were
\* acted on in between that _bound_locked evicted the client's entry.
SpacedUnlessEvicted ==
    \A e, f \in log :
        e.mac = f.mac /\ e.at < f.at /\ f.at - e.at < Cooldown => OthersActed(e.mac, e.at, f.at) >= MaxEntries

\* No client is acted on more often than the limit allows in any window of an hour, with the same
\* exception (_attempts and its pruning).
HourlyLimitUnlessEvicted ==
    \A f \in log :
        LET window == { e \in log : e.mac = f.mac /\ e.at <= f.at /\ e.at > f.at - Hour }
        IN  Cardinality(window) > HourlyLimit =>
                \E e \in window : OthersActed(f.mac, e.at, f.at) >= MaxEntries

\* "Thread-safe bounded cooldown and per-MAC hourly limiter" (action_guard.py): neither table
\* outgrows max_cache_entries.
MemoryBounded ==
    /\ Cardinality({ m \in Macs : attempts[m] # {} }) <= MaxEntries
    /\ Cardinality({ m \in Macs : last[m] # None }) <= MaxEntries
=============================================================================
