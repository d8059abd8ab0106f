---------------------------- MODULE SettingsStore ----------------------------
(***************************************************************************)
(* Settings control (app/settings_control): the immutable chain of         *)
(* settings generations, the managed controller secret whose encrypted     *)
(* versions are bound to generations, the admin mutations that append to   *)
(* the chain under an idempotency key and an If-Match generation, the      *)
(* startup that resolves and validates the head and then adopts it, and    *)
(* the recovery tool that clears the secret while the service is stopped.  *)
(*                                                                         *)
(* Abstractions.  One setting stands for each of two kinds of domain:      *)
(* "general" (general, controller), whose validation resolves the secret,  *)
(* and "features" (portal, features), whose validation does not.  What     *)
(* the validators accept is the constant Admissible.  A secret version is  *)
(* named by the generation that created it (the code draws a uuid4).       *)
(* Encryption is modelled by remembering which master key wrote a row.     *)
(***************************************************************************)
EXTENDS Naturals, Sequences, FiniteSets

CONSTANTS
    Clients,        \* concurrent requests of the admin API
    IdemKeys,       \* Idempotency-Key values
    Values,         \* values of a setting
    SecretValues,   \* values of the controller secret
    MasterKeys,     \* contents the master key file may have
    Admissible,     \* override maps the settings validators accept
    MaxGen,         \* bound: generations ever created
    MaxTries,       \* bound: requests and retries a client sends
    None

Ordinary  == {"general", "features"}
Domains   == Ordinary \cup {"secret"}
Overrides == [Ordinary -> Values \cup {None}]
NoOverrides == [d \in Ordinary |-> None]

ASSUME AdmissibleAssumption ==
    /\ Admissible \subseteq Overrides
    /\ NoOverrides \in Admissible
ASSUME BoundsAssumption == MaxGen \in Nat /\ MaxTries \in Nat \ {0}
ASSUME NoneAssumption ==
    None \notin Values \cup SecretValues \cup MasterKeys \cup Nat \cup {"adopted", "failed"}

\* What the idempotency table stores; an absent row is None.
IdemRow == [fingerprint : [value : Values \cup SecretValues \cup {None},
                           key : MasterKeys \cup {None}],
            gen : Nat, changed : BOOLEAN]
ASSUME NoRowAssumption == None \notin IdemRow

VARIABLES
    gens,       \* settings_generations with overrides, binding and audit
    versions,   \* controller_secret_versions: version |-> [value, key]
    effective,  \* settings_target_state.effective_generation
    result,     \* latest activation event of each generation
    idem,       \* settings_idempotency: domain, key |-> stored answer
    masterKey,  \* what the master key file holds, None when unusable
    deployed,   \* the deployment environment carries a valid secret
    proc,       \* the service process: its state and startup snapshot
    req         \* the requests of the admin clients

store == <<gens, versions, effective, result, idem>>
vars  == <<gens, versions, effective, result, idem,
           masterKey, deployed, proc, req>>

head        == Len(gens) - 1
Row(g)      == gens[g + 1]
Binding(g)  == Row(g).secret
Bound(g)    == IF g = None THEN None ELSE Binding(g)

Root == [parent |-> None, overrides |-> NoOverrides, secret |-> None,
         by |-> None]

Down == [state |-> "down", gen |-> None, overrides |-> NoOverrides,
         secret |-> None, deployed |-> FALSE]

Bodies == [domain : Ordinary, value : Values \cup {None}]
            \cup [domain : {"secret"}, value : SecretValues \cup {None}]

NoRequest == [pc |-> "idle", body |-> None, key |-> None, expected |-> None,
              loaded |-> None, tries |-> 0, answer |-> None]

Ok(g, changed) == [status |-> "ok", gen |-> g, changed |-> changed]
Error(code)    == [status |-> code, gen |-> None, changed |-> FALSE]

Init ==
    /\ gens = <<Root>>
    /\ versions = [v \in {} |-> None]
    /\ effective = None
    /\ result = [g \in 0..MaxGen |-> None]
    /\ idem = [i \in Domains \X IdemKeys |-> None]
    /\ masterKey \in MasterKeys
    /\ deployed = TRUE
    /\ proc = Down
    /\ req = [c \in Clients |-> NoRequest]

-----------------------------------------------------------------------------
(* The repository's operations, inside one write transaction. *)

\* Variant: secrets are never collected.
X_GcOff(chain, rows, eff) == rows

\* gc_secret_versions: what neither the head nor the effective generation
\* binds is deleted.
Gc(chain, rows, eff) ==
    LET kept == {chain[Len(chain)].secret}
                  \cup (IF eff = None THEN {} ELSE {chain[eff + 1].secret})
    IN  [v \in DOMAIN rows \cap kept |-> rows[v]]

\* create_generation (carry_secret decides what `secret' is) with its audit.
NewRow(overrides, secret, by) ==
    [parent |-> head, overrides |-> overrides, secret |-> secret, by |-> by]

\* validate_secret_history: the versions the head and the effective
\* generation bind exist.
HistoryIsValid ==
    {Binding(head), Bound(effective)} \ {None} \subseteq DOMAIN versions

\* ControllerSecretRepository.resolve: the managed version, decrypted with
\* the key the file holds now, or the deployment's secret.
Decrypts(v, key) == /\ v \in DOMAIN versions
                    /\ key # None
                    /\ versions[v].key = key

SecretResolves(g, dep) ==
    IF Binding(g) # None THEN HistoryIsValid /\ Decrypts(Binding(g), masterKey)
                         ELSE dep

SecretValue(g) == IF Binding(g) = None THEN None ELSE versions[Binding(g)].value

-----------------------------------------------------------------------------
(* Admin requests *)

Sends(c, body, k, g) ==
    req' = [req EXCEPT ![c] =
              [NoRequest EXCEPT !.pc = "lookup", !.body = body, !.key = k,
                                !.expected = g, !.tries = req[c].tries + 1]]

Submit(c) ==
    /\ proc.state = "adopted"
    /\ req[c].pc \in {"idle", "answered", "lost"}
    /\ req[c].tries < MaxTries
    /\ \E body \in Bodies, k \in IdemKeys, g \in 0..head : Sends(c, body, k, g)
    /\ UNCHANGED <<store, masterKey, deployed, proc>>

\* The client did not see the answer and sends the same request again.
Retry(c) ==
    /\ proc.state = "adopted"
    /\ req[c].pc \in {"answered", "lost"}
    /\ req[c].tries < MaxTries
    /\ req' = [req EXCEPT ![c].pc = "lookup", ![c].tries = @ + 1,
                          ![c].loaded = None]
    /\ UNCHANGED <<store, masterKey, deployed, proc>>

Answered(c, answer) ==
    [req EXCEPT ![c].pc = "answered", ![c].answer = answer]

\* What the idempotency record remembers of the request.  The fingerprint of
\* a secret is an HMAC under a key derived from the master key.
Fingerprint(c) ==
    [value |-> req[c].body.value,
     key   |-> IF req[c].body.domain = "secret" THEN req[c].loaded ELSE None]

\* The idempotency identity of a request.
By(c) == <<req[c].body.domain, req[c].key>>

Stored(c) == idem[By(c)]

\* Variant: the fingerprint of the body is not compared.
X_ReplayAnyBody(c, fingerprint) == Ok(Stored(c).gen, Stored(c).changed)

Replay(c, fingerprint) ==
    IF Stored(c).fingerprint = fingerprint
      THEN Ok(Stored(c).gen, Stored(c).changed)
      ELSE Error("conflict")

\* The part of mutate before the write transaction: the keys of a secret
\* mutation are loaded, and an accepted identity is answered from a read.
Lookup(c) ==
    /\ proc.state = "adopted"
    /\ req[c].pc = "lookup"
    /\ LET secret == req[c].body.domain = "secret"
           fp == [value |-> req[c].body.value,
                  key |-> IF secret THEN masterKey ELSE None]
       IN  req' =
             IF secret /\ (masterKey = None \/ ~HistoryIsValid)
               THEN Answered(c, Error("store_unavailable"))
             ELSE IF Stored(c) # None
               THEN Answered(c, Replay(c, fp))
             ELSE [req EXCEPT ![c].pc = "write",
                              ![c].loaded = IF secret THEN masterKey ELSE None]
    /\ UNCHANGED <<store, masterKey, deployed, proc>>

\* Variant: the idempotency record is not saved.
X_CommitUnsaved(c, chain, rows) ==
    /\ gens' = chain
    /\ versions' = rows
    /\ req' = Answered(c, Ok(Len(chain) - 1, chain # gens))
    /\ UNCHANGED idem

\* A transaction that commits: the new chain and rows, and the idempotency
\* record saved with them.
Commit(c, chain, rows) ==
    LET generation == Len(chain) - 1
        changed    == chain # gens
    IN  /\ gens' = chain
        /\ versions' = rows
        /\ idem' = [idem EXCEPT ![By(c)] =
                      [fingerprint |-> Fingerprint(c), gen |-> generation,
                       changed |-> changed]]
        /\ req' = Answered(c, Ok(generation, changed))

Refuse(c, code) ==
    /\ req' = Answered(c, Error(code))
    /\ UNCHANGED <<gens, versions, idem>>

\* SettingsMutationService.mutate under the write lock, after the checks.
OrdinaryMutation(c) ==
    LET d   == req[c].body.domain
        new == [Row(head).overrides EXCEPT ![d] = req[c].body.value]
    IN  CASE d = "general" /\ ~SecretResolves(head, proc.deployed)
               -> Refuse(c, "secret_unresolved")
          [] new \notin Admissible -> Refuse(c, "invalid")
          [] new = Row(head).overrides -> Commit(c, gens, versions)
          [] OTHER ->
               /\ head < MaxGen
               /\ Commit(c, Append(gens, NewRow(new, Binding(head), By(c))),
                         versions)

\* Variant: the environment is not looked at before the secret is cleared.
X_ClearUnchecked(c) ==
    /\ head < MaxGen
    /\ LET chain == Append(gens, NewRow(Row(head).overrides, None, By(c)))
       IN  Commit(c, chain, Gc(chain, versions, effective))

\* ControllerSecretMutationService.mutate under the write lock.
ClearSecret(c) ==
    IF ~proc.deployed
      THEN Refuse(c, "invalid")
      ELSE /\ head < MaxGen
           /\ LET chain == Append(gens, NewRow(Row(head).overrides, None, By(c)))
              IN  Commit(c, chain, Gc(chain, versions, effective))

ReplaceSecret(c) ==
    /\ head < MaxGen
    /\ LET v     == head + 1
           chain == Append(gens, NewRow(Row(head).overrides, v, By(c)))
           row   == [value |-> req[c].body.value, key |-> req[c].loaded]
           rows  == [w \in DOMAIN versions \cup {v} |->
                       IF w = v THEN row ELSE versions[w]]
       IN  Commit(c, chain, Gc(chain, rows, effective))

SecretMutation(c) ==
    LET value    == req[c].body.value
        previous == Binding(head)
    IN  CASE value = None /\ previous = None -> Commit(c, gens, versions)
          [] value = None /\ previous # None -> ClearSecret(c)
          [] value # None /\ previous # None
               /\ ~Decrypts(previous, req[c].loaded)
               -> Refuse(c, "decrypt_failed")
          [] value # None /\ previous # None
               /\ Decrypts(previous, req[c].loaded)
               /\ versions[previous].value = value -> Commit(c, gens, versions)
          [] OTHER -> ReplaceSecret(c)

\* Variant: the comparison comes before the replay.
X_StaleBeforeReplay(c) ==
    CASE req[c].expected # head -> Refuse(c, "stale")
      [] req[c].expected = head /\ Stored(c) # None ->
           /\ req' = Answered(c, Replay(c, Fingerprint(c)))
           /\ UNCHANGED <<gens, versions, idem>>
      [] OTHER -> IF req[c].body.domain = "secret" THEN SecretMutation(c)
                                                   ELSE OrdinaryMutation(c)

\* Variant: the expected generation is not compared.
X_NoStaleCheck(c) ==
    CASE Stored(c) # None ->
           /\ req' = Answered(c, Replay(c, Fingerprint(c)))
           /\ UNCHANGED <<gens, versions, idem>>
      [] OTHER -> IF req[c].body.domain = "secret" THEN SecretMutation(c)
                                                   ELSE OrdinaryMutation(c)

\* mutate under the write lock: the identity is looked up again before the
\* generation the client read is compared with the head.
Mutate(c) ==
    CASE Stored(c) # None ->
           /\ req' = Answered(c, Replay(c, Fingerprint(c)))
           /\ UNCHANGED <<gens, versions, idem>>
      [] Stored(c) = None /\ req[c].expected # head -> Refuse(c, "stale")
      [] OTHER -> IF req[c].body.domain = "secret" THEN SecretMutation(c)
                                                   ELSE OrdinaryMutation(c)

Write(c) ==
    /\ proc.state = "adopted"
    /\ req[c].pc = "write"
    /\ Mutate(c)
    /\ UNCHANGED <<effective, result, masterKey, deployed, proc>>

\* BEGIN IMMEDIATE or the commit fails: SQLite rolls everything back.
WriteFails(c) ==
    /\ proc.state = "adopted"
    /\ req[c].pc = "write"
    /\ req' = Answered(c, Error("store_unavailable"))
    /\ UNCHANGED <<store, masterKey, deployed, proc>>

-----------------------------------------------------------------------------
(* Startup, adoption, stop *)

\* SettingsRepository.activation
Activation(g, adopted) ==
    /\ result' = [result EXCEPT ![g] = IF adopted THEN "adopted" ELSE "failed"]
    /\ effective' = IF adopted THEN g ELSE effective
    /\ versions' = IF adopted THEN Gc(gens, versions, g) ELSE versions
    /\ UNCHANGED <<gens, idem>>

Startable == /\ HistoryIsValid
             /\ SecretResolves(head, deployed)
             /\ Row(head).overrides \in Admissible

\* Variant: a head that fails falls back to the effective generation.
X_BootstrapLastGood ==
    /\ proc.state = "down"
    /\ LET g == IF Startable \/ effective = None THEN head ELSE effective
       IN  /\ Startable \/ (effective # None /\ result[head] = "failed")
           /\ proc' = [state |-> "booted", gen |-> g,
                       overrides |-> Row(g).overrides,
                       secret |-> SecretValue(g), deployed |-> deployed]
    /\ UNCHANGED <<store, masterKey, deployed, req>>

\* bootstrap_settings_control: the head is resolved and validated.
Bootstrap ==
    /\ proc.state = "down"
    /\ Startable
    /\ proc' = [state |-> "booted", gen |-> head,
                overrides |-> Row(head).overrides,
                secret |-> SecretValue(head), deployed |-> deployed]
    /\ UNCHANGED <<store, masterKey, deployed, req>>

\* The head cannot be resolved: the failed attempt is recorded.  A history
\* that does not validate is refused before, without a record.
BootstrapFails ==
    /\ proc.state = "down"
    /\ HistoryIsValid
    /\ ~Startable
    /\ Activation(head, FALSE)
    /\ UNCHANGED <<masterKey, deployed, proc, req>>

\* SettingsReadService.project and its siblings: what the admin is shown.
ActivationState ==
    CASE proc.state # "adopted" \/ effective # proc.gen -> "runtime_unavailable"
      [] head = effective -> "active"
      [] result[head] = "failed" -> "activation_failed"
      [] OTHER -> "pending_main_restart"

\* Variant: the adopted generation is not recorded.
X_AdoptUnrecorded ==
    /\ proc.state = "booted"
    /\ proc' = [proc EXCEPT !.state = "adopted"]
    /\ UNCHANGED <<store, masterKey, deployed, req>>

\* adopt: the exact startup snapshot, never a fresh look at the head.
Adopt ==
    /\ proc.state = "booted"
    /\ Activation(proc.gen, TRUE)
    /\ proc' = [proc EXCEPT !.state = "adopted"]
    /\ UNCHANGED <<masterKey, deployed, req>>

\* fail(...) and the exception that ends the startup.
AdoptFails ==
    /\ proc.state = "booted"
    /\ Activation(proc.gen, FALSE)
    /\ proc' = Down
    /\ UNCHANGED <<masterKey, deployed, req>>

\* The process stops or crashes; requests in flight get no answer.
Stop ==
    /\ proc.state # "down"
    /\ proc' = Down
    /\ req' = [c \in Clients |->
                 IF req[c].pc \in {"lookup", "write"}
                   THEN [req[c] EXCEPT !.pc = "lost"] ELSE req[c]]
    /\ UNCHANGED <<store, masterKey, deployed>>

\* secret_recovery.clear_managed_secret: "service must already be stopped".
Recover ==
    /\ proc.state = "down"
    /\ HistoryIsValid
    /\ Binding(head) # None
    /\ head < MaxGen
    /\ LET chain == Append(gens, NewRow(Row(head).overrides, None, None))
       IN  /\ gens' = chain
           /\ versions' = Gc(chain, versions, effective)
    /\ UNCHANGED <<effective, result, idem, masterKey, deployed, proc, req>>

\* The operator replaces or removes the master key file, at any moment.
KeyFileChanges ==
    /\ masterKey' \in (MasterKeys \cup {None}) \ {masterKey}
    /\ UNCHANGED <<store, deployed, proc, req>>

\* The operator edits the deployment environment; only a startup reads it.
EnvironmentChanges ==
    /\ proc.state = "down"
    /\ deployed' = ~deployed
    /\ UNCHANGED <<store, masterKey, proc, req>>

Next ==
    \/ \E c \in Clients :
          Submit(c) \/ Retry(c) \/ Lookup(c) \/ Write(c) \/ WriteFails(c)
    \/ Bootstrap \/ BootstrapFails \/ Adopt \/ AdoptFails \/ Stop
    \/ Recover \/ KeyFileChanges \/ EnvironmentChanges

Spec == Init /\ [][Next]_vars

-----------------------------------------------------------------------------
(* Properties *)

Generations == 0..MaxGen

RowType == [parent : Generations \cup {None}, overrides : Overrides,
            secret : Generations \cup {None},
            by : (Domains \X IdemKeys) \cup {None}]

\* Every table row and process field has its type, and every row of the
\* chain is within the bound.
TypeOK ==
    /\ gens \in Seq(RowType) /\ Len(gens) \in 1..(MaxGen + 1)
    /\ DOMAIN versions \subseteq Generations
    /\ \A v \in DOMAIN versions :
          versions[v] \in [value : SecretValues, key : MasterKeys]
    /\ effective \in 0..head \cup {None}
    /\ result \in [Generations -> {None, "adopted", "failed"}]
    /\ DOMAIN idem = Domains \X IdemKeys
    /\ masterKey \in MasterKeys \cup {None}
    /\ deployed \in BOOLEAN
    /\ proc.state \in {"down", "booted", "adopted"}
    /\ \A c \in Clients :
          /\ req[c].pc \in {"idle", "lookup", "write", "answered", "lost"}
          /\ req[c].tries \in 0..MaxTries

\* The secret rows kept are exactly those the head and the effective
\* generation bind: validate_secret_history can never refuse the store, and
\* no secret outlives both (gc_secret_versions, create_generation's carry).
VersionsAreReferenced ==
    DOMAIN versions = {Binding(head), Bound(effective)} \ {None}

\* Any two accepted answers to one idempotency identity report the same
\* outcome of the same change, whoever asked and however often, and an answer
\* that reports a change names the generation this identity created
\* (the replay in mutate and the UNIQUE identity it rests on).
AnswersAgree ==
    /\ \A c \in Clients :
          LET a == req[c].answer
          IN  (a # None /\ a.status = "ok" /\ a.changed) => Row(a.gen).by = By(c)
    /\ \A c, d \in Clients :
          LET a == req[c].answer
              b == req[d].answer
          IN  (/\ a # None /\ b # None
               /\ a.status = "ok" /\ b.status = "ok"
               /\ By(c) = By(d))
              => a = b /\ req[c].body = req[d].body

\* One identity creates at most one generation, whatever is retried, lost
\* with a stopped process or raced by a second request of the same key.
OneGenerationPerKey ==
    \A i, j \in DOMAIN gens :
       i # j /\ gens[i].by = gens[j].by => gens[i].by = None

\* Requests are idempotent: repeating one, at once or after a restart, changes
\* nothing more and gets the first answer (mutate).
RequestsAreIdempotent == OneGenerationPerKey /\ AnswersAgree

\* A request whose identity was already accepted with the same body is never
\* told that its generation is stale: the replay comes before the If-Match
\* comparison, in the write transaction too.
StaleIsNotAccepted ==
    \A c \in Clients :
       (/\ req'[c].pc = "answered" /\ req[c].pc # "answered"
        /\ req'[c].answer.status = "stale")
       => Stored(c) = None

\* No mutation is applied over a change its author had not seen: each
\* generation accepted from a client extends the generation it named.
ExtendsWhatItNamed ==
    \A c \in Clients :
       (gens' # gens /\ req'[c] # req[c])
       => /\ (Row(head)').parent = req[c].expected
          /\ \A d \in Ordinary :
                (Row(head)').overrides[d] # Row(head).overrides[d]
                => d = req[c].body.domain

\* No edit is lost: none is overwritten unseen, and an accepted one is never
\* answered as if it had been refused (mutate).
NoLostEdit == [][ExtendsWhatItNamed /\ StaleIsNotAccepted]_vars

\* What a row of the chain configures, and what a client sees of an accepted identity.
ConfigOf(row, rows) ==
    [d \in Domains |-> IF d \in Ordinary THEN row.overrides[d]
                       ELSE IF row.secret = None THEN None ELSE rows[row.secret].value]

Accepted == {i \in Domains \X IdemKeys : idem[i] # None}

Contract == INSTANCE SettingsContract WITH
    config  <- ConfigOf(Row(head), versions),
    number  <- head,
    record  <- [i \in Accepted |-> [value  |-> idem[i].fingerprint.value,
                                    answer |-> Ok(idem[i].gen, idem[i].changed)]],
    request <- [c \in Clients |-> [body |-> req[c].body, key |-> req[c].key,
                                   expected |-> req[c].expected]],
    waiting <- {c \in Clients : req[c].pc \in {"lookup", "write"}},
    answer  <- [c \in Clients |-> req[c].answer]

\* The API is one configuration that requests change atomically: whatever is raced, retried, lost with
\* a stopped process or refused, an accepted request is applied once, to the generation its client
\* named, and no edit is lost (mutate, replay, adopt, gc_secret_versions, secret_recovery).
ImplementsContract == Contract!Spec

\* A head that the next startup could resolve and validate stays so through
\* every mutation the service accepts, of settings and of the secret, as long
\* as the key file still holds the key the mutation loaded; only the
\* operator's own tools and files may break it.
MutationsKeepHeadStartable ==
    [][\A c \in Clients :
          (/\ gens' # gens /\ req'[c] # req[c]
           /\ req[c].loaded \in {None, masterKey}
           /\ proc.deployed = deployed
           /\ Startable) => Startable']_vars

\* While a process is adopted, the effective generation is the one it
\* started with, and the stored settings and secret of that generation are
\* still the ones it runs on, whatever was configured since.
RunsWhatIsEffective ==
    proc.state = "adopted" =>
      /\ effective = proc.gen
      /\ Row(effective).overrides = proc.overrides
      /\ Binding(effective) # None =>
           /\ Binding(effective) \in DOMAIN versions
           /\ versions[Binding(effective)].value = proc.secret

\* The activation state a served page shows is the truth about the process
\* that serves it: "active" exactly when it runs the head, and otherwise
\* "pending_main_restart", since a head that failed to start has no process
\* to serve a page (the fail-closed startup).
ServedStateIsTrue ==
    proc.state = "adopted" =>
      ActivationState = IF proc.gen = head THEN "active"
                                           ELSE "pending_main_restart"

\* What runs, what is stored and what is shown agree across startups, failed
\* adoptions, mutations and the collection of secrets.
ChainIsConsistent ==
    TypeOK /\ VersionsAreReferenced /\ RunsWhatIsEffective /\ ServedStateIsTrue
=============================================================================
