-------------------------- MODULE SettingsStoreProofs --------------------------
(***************************************************************************)
(* Proofs about SettingsStore.  The chain only grows, and an idempotency   *)
(* record, once saved, stays: what a client was told about a generation    *)
(* and what a process runs on are therefore still so after any later       *)
(* transaction.  The invariant says what each of them rests on.            *)
(***************************************************************************)
EXTENDS SettingsStore, SequenceTheorems, TLAPS

-----------------------------------------------------------------------------
(* The invariant *)

\* A chain of generations; a secret version is named by the generation that created it.
ChainOk(chain) ==
    /\ chain \in Seq(RowType)
    /\ Len(chain) \in 1..(MaxGen + 1)
    /\ \A i \in 1..Len(chain) : chain[i].secret # None => chain[i].secret < i

VersionType == [value : SecretValues, key : MasterKeys]

StoreInv ==
    /\ ChainOk(gens)
    /\ DOMAIN versions \subseteq Generations
    /\ \A v \in DOMAIN versions : versions[v] \in VersionType
    /\ VersionsAreReferenced
    /\ effective \in 0..head \cup {None}
    /\ result \in [Generations -> {None, "adopted", "failed"}]
    /\ \A g \in Generations : g > head => result[g] = None
    /\ masterKey \in MasterKeys \cup {None}
    /\ deployed \in BOOLEAN

\* What a process that has started holds on to.
ProcInv ==
    /\ proc.state \in {"down", "booted", "adopted"}
    /\ proc.state # "down" =>
         /\ proc.gen \in 0..head
         /\ Row(proc.gen).overrides = proc.overrides
         /\ Binding(proc.gen) # None =>
              /\ Binding(proc.gen) \in DOMAIN versions
              /\ versions[Binding(proc.gen)].value = proc.secret
    /\ proc.state = "booted" => proc.gen = head
    /\ proc.state = "adopted" =>
         /\ effective = proc.gen
         /\ result[proc.gen] = "adopted"
         /\ \A g \in Generations : g > proc.gen => result[g] # "failed"

\* The records of accepted identities, and the generations they created.
IdemInv ==
    /\ idem \in [Domains \X IdemKeys -> IdemRow \cup {None}]
    /\ \A i \in Domains \X IdemKeys : idem[i] # None =>
          /\ idem[i].gen \in 0..head
          /\ idem[i].changed => Row(idem[i].gen).by = i
    /\ \A i \in 1..Len(gens) : gens[i].by # None =>
          gens[i].by \in Domains \X IdemKeys /\ idem[gens[i].by] # None
    /\ OneGenerationPerKey

Codes == {"ok", "conflict", "store_unavailable", "secret_unresolved", "invalid", "decrypt_failed", "stale"}

RequestType ==
    [pc : {"idle", "lookup", "write", "answered", "lost"}, body : Bodies \cup {None},
     key : IdemKeys \cup {None}, expected : Nat \cup {None}, loaded : MasterKeys \cup {None},
     tries : 0..MaxTries,
     answer : [status : Codes, gen : Nat \cup {None}, changed : BOOLEAN] \cup {None}]

\* A request on its way has loaded the keys it needs, and one that was accepted is on record.
RequestOk(q, records) ==
    /\ q \in RequestType
    /\ q.pc # "idle" => q.body \in Bodies /\ q.key \in IdemKeys
    /\ q.pc = "write" =>
          IF q.body.domain = "secret" THEN q.loaded \in MasterKeys ELSE q.loaded = None
    /\ q.answer # None => q.pc # "idle"
    /\ q.answer # None /\ q.answer.status = "ok" =>
          LET record == records[<<q.body.domain, q.key>>]
          IN  /\ record # None
              /\ q.answer = Ok(record.gen, record.changed)
              /\ record.fingerprint.value = q.body.value

RequestsInv ==
    /\ DOMAIN req = Clients
    /\ \A c \in Clients : RequestOk(req[c], idem)

IInv == StoreInv /\ ProcInv /\ IdemInv /\ RequestsInv

-----------------------------------------------------------------------------
(* The chain *)

\* One more generation leaves the earlier ones as they are.
LEMMA Extended ==
  ASSUME NEW chain, ChainOk(chain), NEW row \in RowType, Len(chain) - 1 < MaxGen,
         row.secret # None => row.secret <= Len(chain)
  PROVE  /\ ChainOk(Append(chain, row))
         /\ Len(Append(chain, row)) = Len(chain) + 1
         /\ \A i \in 1..Len(chain) : Append(chain, row)[i] = chain[i]
         /\ Append(chain, row)[Len(chain) + 1] = row
  <1>. DEFINE new == Append(chain, row)
  <1>1. /\ new \in Seq(RowType) /\ Len(new) = Len(chain) + 1
        /\ \A i \in 1..Len(chain) : new[i] = chain[i]
        /\ new[Len(chain) + 1] = row
    BY AppendProperties DEF ChainOk
  <1>2. MaxGen \in Nat /\ Len(chain) \in 1..(MaxGen + 1)
    BY BoundsAssumption DEF ChainOk
  <1>3. Len(new) \in 1..(MaxGen + 1)
    <2>. HIDE DEF new
    <2>. QED
      BY <1>1, <1>2
  <1>4. ASSUME NEW i \in 1..Len(new), new[i].secret # None PROVE new[i].secret < i
    <2>1. row.secret \in Nat \cup {None}
      BY DEF RowType, Generations
    <2>. HIDE DEF new
    <2>2. CASE i = Len(chain) + 1
      BY <1>1, <1>2, <1>4, <2>1, <2>2
    <2>3. CASE i # Len(chain) + 1
      BY <1>1, <1>2, <1>4, <2>3 DEF ChainOk
    <2>. QED
      BY <2>2, <2>3
  <1>. QED
    BY <1>1, <1>3, <1>4 DEF ChainOk

\* Where the rows are.
LEMMA Heads ==
  ASSUME StoreInv
  PROVE  /\ MaxGen \in Nat /\ head \in 0..MaxGen /\ head + 1 = Len(gens) /\ Len(gens) \in 1..(MaxGen + 1)
         /\ effective # None => effective \in 0..head
         /\ \A g \in 0..head : Row(g) \in RowType /\ g + 1 \in 1..Len(gens) /\ g \in Generations
         /\ \A g \in 0..head : Binding(g) # None => Binding(g) \in 0..g
  <1>1. /\ MaxGen \in Nat /\ head \in 0..MaxGen /\ head + 1 = Len(gens) /\ Len(gens) \in 1..(MaxGen + 1)
        /\ gens \in Seq(RowType)
    BY BoundsAssumption DEF StoreInv, ChainOk, head
  <1>2. \A g \in 0..head : g + 1 \in 1..Len(gens) /\ g \in Generations
    BY <1>1 DEF Generations
  <1>3. \A g \in 0..head : Row(g) \in RowType
    BY <1>1, <1>2 DEF Row
  <1>4. ASSUME NEW g \in 0..head, Binding(g) # None PROVE Binding(g) \in 0..g
    <2>1. Binding(g) \in Nat
      BY <1>3, <1>4 DEF Binding, RowType, Generations
    <2>2. Binding(g) < g + 1
      BY <1>2, <1>4 DEF StoreInv, ChainOk, Binding, Row
    <2>. QED
      BY <1>1, <2>1, <2>2
  <1>. QED
    BY <1>1, <1>2, <1>3, <1>4 DEF StoreInv

LEMMA HistoryValid == ASSUME StoreInv PROVE HistoryIsValid
  BY DEF StoreInv, VersionsAreReferenced, HistoryIsValid

-----------------------------------------------------------------------------
(* A transaction that appends a generation *)

\* What a transaction leaves of the secret rows.
RowsFollow(row) ==
    /\ DOMAIN versions' = {row.secret, Bound(effective)} \ {None}
    /\ \A v \in DOMAIN versions' : versions'[v] \in VersionType
    /\ \A v \in DOMAIN versions \cap DOMAIN versions' : versions'[v] = versions[v]

\* The rows of the chain are found in their places after another is appended.
LEMMA AppendedRows ==
  ASSUME StoreInv, NEW row \in RowType, head < MaxGen, row.secret # None => row.secret <= head + 1,
         gens' = Append(gens, row)
  PROVE  /\ ChainOk(gens') /\ head' = head + 1 /\ head' \in Nat
         /\ Len(gens') = Len(gens) + 1
         /\ \A i \in 1..Len(gens) : gens'[i] = gens[i]
         /\ gens'[head' + 1] = row
         /\ \A g \in 0..head : gens'[g + 1] = gens[g + 1]
  <1>1. Len(gens) - 1 < MaxGen /\ (row.secret # None => row.secret <= Len(gens)) /\ ChainOk(gens)
    BY Heads DEF head, StoreInv
  <1>2. /\ ChainOk(gens') /\ Len(gens') = Len(gens) + 1 /\ gens'[Len(gens) + 1] = row
        /\ \A i \in 1..Len(gens) : gens'[i] = gens[i]
    BY <1>1, Extended
  <1>. QED
    BY <1>2, Heads DEF head

LEMMA AppendStore ==
  ASSUME StoreInv, ProcInv, NEW row \in RowType, head < MaxGen,
         row.secret # None => row.secret <= head + 1,
         gens' = Append(gens, row), RowsFollow(row), proc.state # "booted",
         UNCHANGED <<effective, result, masterKey, deployed, proc>>
  PROVE  StoreInv' /\ ProcInv'
  <1>1. /\ ChainOk(gens') /\ head' = head + 1 /\ head' \in Nat
        /\ gens'[head' + 1] = row
        /\ \A g \in 0..head : gens'[g + 1] = gens[g + 1]
    BY AppendedRows
  <1>2. head \in 0..MaxGen /\ (effective # None => effective \in 0..head) /\ MaxGen \in Nat
    BY Heads
  <1>3. Bound(effective)' = Bound(effective)
    BY <1>1, <1>2 DEF Bound, Binding, Row
  <1>4. Binding(head)' = row.secret
    BY <1>1 DEF Binding, Row
  <1>5. VersionsAreReferenced'
    BY <1>3, <1>4 DEF VersionsAreReferenced, RowsFollow
  <1>6. DOMAIN versions' \subseteq Generations
    <2>1. row.secret \in Generations \cup {None}
      BY DEF RowType
    <2>2. Bound(effective) \in Generations \cup {None}
      BY <1>2, Heads DEF Bound, Binding, RowType
    <2>. QED
      BY <2>1, <2>2 DEF RowsFollow
  <1>7. StoreInv'
    <2>1. effective' \in 0..head' \cup {None}
      BY <1>1, <1>2 DEF StoreInv
    <2>2. \A g \in Generations : g > head' => result'[g] = None
      BY <1>1, <1>2 DEF StoreInv, Generations
    <2>. QED
      BY <1>1, <1>5, <1>6, <2>1, <2>2 DEF StoreInv, RowsFollow
  <1>8. ProcInv'
    <2>1. CASE proc.state = "down"
      BY <2>1 DEF ProcInv
    <2>2. CASE proc.state = "adopted"
      <3>1. /\ proc.gen \in 0..head /\ effective = proc.gen /\ effective # None
            /\ Row(proc.gen).overrides = proc.overrides
            /\ Binding(proc.gen) # None =>
                 /\ Binding(proc.gen) \in DOMAIN versions
                 /\ versions[Binding(proc.gen)].value = proc.secret
        BY <2>2, NoneAssumption DEF ProcInv
      <3>2. Row(proc.gen)' = Row(proc.gen)
        BY <1>1, <3>1 DEF Row
      <3>3. Binding(proc.gen)' = Binding(proc.gen)
        BY <3>2 DEF Binding
      <3>4. Binding(proc.gen) # None =>
              /\ Binding(proc.gen) \in DOMAIN versions'
              /\ versions'[Binding(proc.gen)].value = proc.secret
        BY <3>1 DEF RowsFollow, Bound
      <3>5. proc.gen \in 0..head'
        BY <1>1, <1>2, <3>1
      <3>. QED
        BY <2>2, <3>1, <3>2, <3>3, <3>4, <3>5 DEF ProcInv
    <2>. QED
      BY <2>1, <2>2 DEF ProcInv
  <1>. QED
    BY <1>7, <1>8

\* gc_secret_versions keeps the rows that the new head and the effective generation bind, unchanged.
LEMMA Collected ==
  ASSUME StoreInv, NEW row \in RowType, head < MaxGen, row.secret # None => row.secret <= head + 1,
         NEW rows, None \notin DOMAIN rows,
         {row.secret, Bound(effective)} \ {None} \subseteq DOMAIN rows
  PROVE  /\ DOMAIN Gc(Append(gens, row), rows, effective) = {row.secret, Bound(effective)} \ {None}
         /\ \A v \in {row.secret, Bound(effective)} \ {None} : Gc(Append(gens, row), rows, effective)[v] = rows[v]
  <1>. DEFINE chain == Append(gens, row)
              kept == {chain[Len(chain)].secret} \cup (IF effective = None THEN {} ELSE {chain[effective + 1].secret})
  <1>1. Len(gens) - 1 < MaxGen /\ (row.secret # None => row.secret <= Len(gens)) /\ ChainOk(gens)
    BY Heads DEF head, StoreInv
  <1>2. /\ Len(chain) = Len(gens) + 1 /\ chain[Len(gens) + 1] = row
        /\ \A i \in 1..Len(gens) : chain[i] = gens[i]
    BY <1>1, Extended
  <1>3. effective # None => effective + 1 \in 1..Len(gens)
    BY Heads
  <1>4. kept = {row.secret} \cup (IF effective = None THEN {} ELSE {Bound(effective)})
    <2>. HIDE DEF chain
    <2>. QED
      BY <1>2, <1>3 DEF Bound, Binding, Row
  <1>5. DOMAIN rows \cap kept = {row.secret, Bound(effective)} \ {None}
    <2>. HIDE DEF kept
    <2>. QED
      BY <1>4 DEF Bound
  <1>6. Gc(chain, rows, effective) = [v \in DOMAIN rows \cap kept |-> rows[v]]
    BY DEF Gc
  <1>. HIDE DEF chain, kept
  <1>. QED
    BY <1>5, <1>6 DEF chain

LEMMA NewRowType ==
  ASSUME StoreInv, NEW overrides \in Overrides, NEW secret \in Generations \cup {None},
         NEW by \in (Domains \X IdemKeys) \cup {None}
  PROVE  /\ NewRow(overrides, secret, by) \in RowType
         /\ NewRow(overrides, secret, by).secret = secret
         /\ NewRow(overrides, secret, by).by = by
         /\ NewRow(overrides, secret, by).parent = head
         /\ NewRow(overrides, secret, by).overrides = overrides
  BY Heads DEF NewRow, RowType, Generations

\* A change of settings carries the secret of the head.
LEMMA CarriedRows ==
  ASSUME StoreInv, NEW row \in RowType, row.secret = Binding(head), UNCHANGED versions
  PROVE  RowsFollow(row)
  BY DEF StoreInv, VersionsAreReferenced, RowsFollow

\* A cleared secret: what the effective generation binds stays.
LEMMA ClearedRows ==
  ASSUME StoreInv, NEW row \in RowType, row.secret = None, head < MaxGen,
         versions' = Gc(Append(gens, row), versions, effective)
  PROVE  RowsFollow(row)
  <1>1. None \notin DOMAIN versions /\ {row.secret, Bound(effective)} \ {None} \subseteq DOMAIN versions
    BY DEF StoreInv, VersionsAreReferenced
  <1>2. /\ DOMAIN versions' = {row.secret, Bound(effective)} \ {None}
        /\ \A v \in {row.secret, Bound(effective)} \ {None} : versions'[v] = versions[v]
    BY <1>1, Collected
  <1>. QED
    BY <1>1, <1>2 DEF RowsFollow, StoreInv

\* A new secret: its version is named by the generation that binds it, which no row has been.
LEMMA ReplacedRows ==
  ASSUME StoreInv, NEW row \in RowType, row.secret = head + 1, head < MaxGen,
         NEW rows, DOMAIN rows = DOMAIN versions \cup {head + 1}, rows[head + 1] \in VersionType,
         \A w \in DOMAIN versions : w # head + 1 => rows[w] = versions[w],
         versions' = Gc(Append(gens, row), rows, effective)
  PROVE  RowsFollow(row) /\ head + 1 \in DOMAIN versions' /\ versions'[head + 1] = rows[head + 1]
  <1>1. head + 1 # None /\ head + 1 \in Nat /\ row.secret <= head + 1
    BY Heads, NoneAssumption
  <1>2. head + 1 \notin DOMAIN versions
    <2>1. head \in Nat /\ head \in 0..head /\ (effective # None => effective \in 0..head)
      BY Heads
    <2>2. Binding(head) # None => Binding(head) \in 0..head
      BY <2>1, Heads
    <2>3. Bound(effective) # None => effective # None /\ Bound(effective) \in 0..effective
      BY <2>1, Heads DEF Bound
    <2>. QED
      BY <2>1, <2>2, <2>3 DEF StoreInv, VersionsAreReferenced
  <1>3. None \notin DOMAIN rows /\ {row.secret, Bound(effective)} \ {None} \subseteq DOMAIN rows
    BY <1>1 DEF StoreInv, VersionsAreReferenced
  <1>4. /\ DOMAIN versions' = {row.secret, Bound(effective)} \ {None}
        /\ \A v \in {row.secret, Bound(effective)} \ {None} : versions'[v] = rows[v]
    <2>. DEFINE kept == Gc(Append(gens, row), rows, effective)
    <2>1. /\ DOMAIN kept = {row.secret, Bound(effective)} \ {None}
          /\ \A v \in {row.secret, Bound(effective)} \ {None} : kept[v] = rows[v]
      BY <1>1, <1>3, Collected
    <2>. QED
      BY <2>1
  <1>5. \A v \in DOMAIN rows : rows[v] \in VersionType
    BY DEF StoreInv
  <1>6. \A v \in DOMAIN versions' : versions'[v] \in VersionType
    BY <1>3, <1>4, <1>5
  <1>7. \A v \in DOMAIN versions \cap DOMAIN versions' : versions'[v] = versions[v]
    BY <1>2, <1>4
  <1>8. head + 1 \in DOMAIN versions' /\ versions'[head + 1] = rows[head + 1]
    BY <1>1, <1>4
  <1>. QED
    BY <1>4, <1>6, <1>7, <1>8 DEF RowsFollow

-----------------------------------------------------------------------------
(* A step of one request *)

\* A request whose identity was on record still finds the same record, whatever is saved meanwhile.
LEMMA RecordsStay ==
  ASSUME NEW q, NEW before, NEW after, RequestOk(q, before),
         \A i \in Domains \X IdemKeys : before[i] # None => after[i] = before[i]
  PROVE  RequestOk(q, after)
  <1>1. q.answer # None => q.body \in Bodies /\ q.key \in IdemKeys
    BY DEF RequestOk
  <1>2. q.answer # None => <<q.body.domain, q.key>> \in Domains \X IdemKeys
    BY <1>1 DEF Bodies, Domains
  <1>. QED
    BY <1>2 DEF RequestOk

LEMMA OneRequest ==
  ASSUME IInv, NEW c \in Clients, NEW q, RequestOk(q, idem'), req' = [req EXCEPT ![c] = q],
         \A i \in Domains \X IdemKeys : idem[i] # None => idem'[i] = idem[i],
         StoreInv', ProcInv', IdemInv'
  PROVE  IInv'
  <1>1. ASSUME NEW d \in Clients PROVE RequestOk(req'[d], idem')
    <2>1. CASE d = c
      BY <2>1 DEF IInv, RequestsInv
    <2>2. CASE d # c
      <3>1. req'[d] = req[d] /\ RequestOk(req[d], idem)
        BY <2>2 DEF IInv, RequestsInv
      <3>. QED
        BY <3>1, RecordsStay
    <2>. QED
      BY <2>1, <2>2
  <1>. QED
    BY <1>1 DEF IInv, RequestsInv

\* The store is as it was.
LEMMA StoreStays ==
  ASSUME IInv, UNCHANGED <<store, masterKey, deployed, proc>>
  PROVE  StoreInv' /\ ProcInv' /\ IdemInv'
  <1>1. StoreInv'
    BY DEF IInv, StoreInv, store, VersionsAreReferenced, Binding, Bound, Row, head
  <1>2. ProcInv'
    BY DEF IInv, ProcInv, store, Binding, Row, head
  <1>3. IdemInv'
    BY DEF IInv, IdemInv, store, Row, head, OneGenerationPerKey
  <1>. QED
    BY <1>1, <1>2, <1>3

Answers == [status : Codes, gen : Nat \cup {None}, changed : BOOLEAN]

\* What an answer leaves of the request.
LEMMA AnsweredFields ==
  ASSUME IInv, NEW c \in Clients, NEW a \in Answers, req' = Answered(c, a)
  PROVE  \E q \in RequestType :
           /\ req' = [req EXCEPT ![c] = q]
           /\ q.pc = "answered" /\ q.answer = a /\ q.body = req[c].body /\ q.key = req[c].key
  <1>. DEFINE q == [req[c] EXCEPT !.pc = "answered", !.answer = a]
  <1>1. req[c] \in RequestType
    BY DEF IInv, RequestsInv, RequestOk
  <1>2. req' = [req EXCEPT ![c] = q]
    BY DEF Answered, IInv, RequestsInv
  <1>3. /\ q \in RequestType /\ q.pc = "answered" /\ q.answer = a
        /\ q.body = req[c].body /\ q.key = req[c].key
    BY <1>1 DEF RequestType, Answers
  <1>. HIDE DEF q
  <1>. QED
    BY <1>2, <1>3

\* An answer that refuses.
LEMMA RefusedInv ==
  ASSUME IInv, NEW c \in Clients, NEW code \in Codes \ {"ok"}, req[c].pc # "idle",
         req' = Answered(c, Error(code)), UNCHANGED <<store, masterKey, deployed, proc>>
  PROVE  IInv'
  <1>1. Error(code) \in Answers /\ Error(code).status # "ok"
    BY DEF Error, Answers
  <1>2. PICK q \in RequestType :
          /\ req' = [req EXCEPT ![c] = q]
          /\ q.pc = "answered" /\ q.answer = Error(code) /\ q.body = req[c].body /\ q.key = req[c].key
    BY <1>1, AnsweredFields
  <1>3. RequestOk(req[c], idem) /\ idem' = idem
    BY DEF IInv, RequestsInv, store
  <1>4. RequestOk(q, idem')
    BY <1>1, <1>2, <1>3 DEF RequestOk
  <1>. QED
    BY <1>2, <1>3, <1>4, StoreStays, OneRequest

\* An answer from the record of the identity.
LEMMA ReplayedInv ==
  ASSUME IInv, NEW c \in Clients, NEW fp, req[c].pc # "idle", Stored(c) # None,
         fp.value = req[c].body.value,
         req' = Answered(c, Replay(c, fp)), UNCHANGED <<store, masterKey, deployed, proc>>
  PROVE  IInv'
  <1>1. CASE Stored(c).fingerprint = fp
    <2>. DEFINE a == Ok(Stored(c).gen, Stored(c).changed)
    <2>1. /\ RequestOk(req[c], idem) /\ idem' = idem
          /\ req[c].body \in Bodies /\ req[c].key \in IdemKeys
      BY DEF IInv, RequestsInv, RequestOk, store
    <2>2. By(c) \in Domains \X IdemKeys /\ Stored(c) = idem[By(c)]
      BY <2>1 DEF By, Bodies, Domains, Stored
    <2>3. Stored(c) \in IdemRow
      BY <2>2 DEF IInv, IdemInv
    <2>4. a \in Answers /\ a.status = "ok"
      BY <2>3 DEF Ok, Answers, Codes, IdemRow
    <2>5. req' = Answered(c, a)
      BY <1>1 DEF Replay
    <2>6. PICK q \in RequestType :
            /\ req' = [req EXCEPT ![c] = q]
            /\ q.pc = "answered" /\ q.answer = a /\ q.body = req[c].body /\ q.key = req[c].key
      <3>. HIDE DEF a
      <3>. QED
        BY <2>4, <2>5, AnsweredFields
    <2>7. RequestOk(q, idem')
      BY <1>1, <2>1, <2>2, <2>4, <2>6 DEF RequestOk, By
    <2>. QED
      BY <2>1, <2>6, <2>7, StoreStays, OneRequest
  <1>2. CASE Stored(c).fingerprint # fp
    BY <1>2, RefusedInv DEF Replay, Codes
  <1>. QED
    BY <1>1, <1>2

\* What is saved of a request is a record, and keeps the value it asked for.
LEMMA RecordIsRow ==
  ASSUME IInv, NEW c \in Clients, req[c].pc = "write", NEW g \in Nat, NEW changed \in BOOLEAN
  PROVE  /\ Fingerprint(c).value = req[c].body.value
         /\ [fingerprint |-> Fingerprint(c), gen |-> g, changed |-> changed] \in IdemRow \ {None}
  <1>1. req[c].body \in Bodies /\ req[c] \in RequestType
    BY DEF IInv, RequestsInv, RequestOk
  <1>2. /\ Fingerprint(c) \in [value : Values \cup SecretValues \cup {None}, key : MasterKeys \cup {None}]
        /\ Fingerprint(c).value = req[c].body.value
    BY <1>1 DEF Fingerprint, Bodies, RequestType
  <1>3. [fingerprint |-> Fingerprint(c), gen |-> g, changed |-> changed] \in IdemRow
    BY <1>2 DEF IdemRow
  <1>. QED
    BY <1>2, <1>3, NoRowAssumption

\* A record is saved with the generation it names, in one transaction.
LEMMA CommittedInv ==
  ASSUME IInv, NEW c \in Clients, req[c].pc = "write", Stored(c) = None,
         NEW chain, NEW rows, Commit(c, chain, rows), StoreInv', ProcInv',
         \/ chain = gens
         \/ /\ chain # gens
            /\ Len(chain) = Len(gens) + 1 /\ chain[Len(gens) + 1].by = By(c)
            /\ \A i \in 1..Len(gens) : chain[i] = gens[i]
  PROVE  IInv'
  <1>. DEFINE g == Len(chain) - 1
              changed == chain # gens
              record == [fingerprint |-> Fingerprint(c), gen |-> g, changed |-> changed]
  <1>1. /\ RequestOk(req[c], idem) /\ req[c].body \in Bodies /\ req[c].key \in IdemKeys
        /\ req[c] \in RequestType
    BY DEF IInv, RequestsInv, RequestOk
  <1>2. By(c) \in Domains \X IdemKeys /\ idem[By(c)] = None
    BY <1>1 DEF By, Bodies, Domains, Stored
  <1>3. g = head' /\ g \in Nat /\ gens' = chain /\ changed \in BOOLEAN /\ head' \in 0..head'
    <2>1. gens' = chain /\ head' \in Nat
      BY BoundsAssumption DEF Commit, StoreInv, ChainOk, head
    <2>. QED
      BY <2>1 DEF head
  <1>4. Fingerprint(c).value = req[c].body.value
    BY <1>3, RecordIsRow
  <1>5. record \in IdemRow /\ record.gen = g /\ record.changed = changed /\ record.fingerprint = Fingerprint(c)
    <2>. HIDE DEF g, changed
    <2>. QED
      BY <1>3, RecordIsRow
  <1>6. idem' = [idem EXCEPT ![By(c)] = record] /\ req' = Answered(c, Ok(g, changed))
    BY DEF Commit
  <1>7. record # None
    BY <1>5, NoRowAssumption
  <1>8. /\ idem' \in [Domains \X IdemKeys -> IdemRow \cup {None}]
        /\ idem'[By(c)] = record
        /\ \A i \in Domains \X IdemKeys : i # By(c) => idem'[i] = idem[i]
        /\ \A i \in Domains \X IdemKeys : idem[i] # None => idem'[i] = idem[i]
    <2>. HIDE DEF record
    <2>. QED
      BY <1>2, <1>5, <1>6 DEF IInv, IdemInv
  <1>9. /\ head \in Nat /\ head + 1 = Len(gens) /\ Len(gens) \in Nat
        /\ head' + 1 = Len(gens') /\ Len(gens') \in Nat /\ head <= head'
        /\ \A i \in 1..Len(gens) : gens'[i] = gens[i]
        /\ changed => Len(gens') = Len(gens) + 1 /\ gens'[Len(gens')].by = By(c)
        /\ ~changed => gens' = gens
    <2>1. head \in Nat /\ head + 1 = Len(gens) /\ Len(gens) \in Nat
      BY Heads DEF IInv
    <2>2. head' + 1 = Len(gens') /\ Len(gens') \in Nat /\ head' \in Nat
      BY BoundsAssumption DEF StoreInv, ChainOk, head
    <2>3. /\ \A i \in 1..Len(gens) : gens'[i] = gens[i]
          /\ changed => Len(gens') = Len(gens) + 1 /\ gens'[Len(gens')].by = By(c)
          /\ ~changed => gens' = gens
      BY <1>3
    <2>4. head <= head'
      <3>1. Len(gens') = Len(gens) + 1 \/ Len(gens') = Len(gens)
        BY <2>3
      <3>. HIDE DEF changed
      <3>. QED
        BY <2>1, <2>2, <3>1
    <2>. QED
      BY <2>1, <2>2, <2>3, <2>4
  <1>. HIDE DEF record, changed, g
  <1>10. \A i \in Domains \X IdemKeys : idem'[i] # None =>
           /\ idem'[i].gen \in 0..head'
           /\ idem'[i].changed => gens'[idem'[i].gen + 1].by = i
    <2>1. ASSUME NEW i \in Domains \X IdemKeys, idem'[i] # None
          PROVE  idem'[i].gen \in 0..head' /\ (idem'[i].changed => gens'[idem'[i].gen + 1].by = i)
      <3>1. CASE i = By(c)
        <4>1. idem'[i].gen = head' /\ idem'[i].changed = changed
          BY <1>3, <1>5, <1>8, <3>1
        <4>2. idem'[i].changed => changed
          BY <4>1
        <4>3. changed => gens'[head' + 1].by = i
          BY <1>9, <3>1
        <4>. QED
          BY <1>3, <4>1, <4>2, <4>3
      <3>2. CASE i # By(c)
        <4>1. idem'[i] = idem[i] /\ idem[i].gen \in 0..head /\ (idem[i].changed => gens[idem[i].gen + 1].by = i)
          BY <1>8, <2>1, <3>2 DEF IInv, IdemInv, Row
        <4>2. idem[i].gen \in 0..head' /\ idem[i].gen + 1 \in 1..Len(gens)
          BY <1>3, <1>9, <4>1
        <4>. QED
          BY <1>9, <4>1, <4>2
      <3>. QED
        BY <3>1, <3>2
    <2>. QED
      BY <2>1
  <1>11. \A i \in 1..Len(gens') : gens'[i].by # None =>
           gens'[i].by \in Domains \X IdemKeys /\ idem'[gens'[i].by] # None
    <2>1. ASSUME NEW i \in 1..Len(gens'), gens'[i].by # None
          PROVE  gens'[i].by \in Domains \X IdemKeys /\ idem'[gens'[i].by] # None
      <3>1. CASE i \in 1..Len(gens)
        BY <1>8, <1>9, <2>1, <3>1 DEF IInv, IdemInv
      <3>2. CASE i \notin 1..Len(gens)
        BY <1>2, <1>7, <1>8, <1>9, <2>1, <3>2
      <3>. QED
        BY <3>1, <3>2
    <2>. QED
      BY <2>1
  <1>12. OneGenerationPerKey'
    <2>1. DOMAIN gens' = 1..Len(gens') /\ DOMAIN gens = 1..Len(gens)
      BY DEF StoreInv, ChainOk, IInv
    <2>2. ASSUME NEW i \in 1..Len(gens) PROVE gens[i].by # By(c) \/ gens[i].by = None
      BY <1>2 DEF IInv, IdemInv
    <2>3. ASSUME NEW i \in 1..Len(gens'), NEW j \in 1..Len(gens'), i # j,
                 gens'[i].by = gens'[j].by, gens'[i].by # None
          PROVE  FALSE
      <3>1. CASE i \in 1..Len(gens) /\ j \in 1..Len(gens)
        BY <1>9, <2>1, <2>3, <3>1 DEF IInv, IdemInv, OneGenerationPerKey
      <3>2. CASE ~(i \in 1..Len(gens) /\ j \in 1..Len(gens))
        <4>1. \/ i \in 1..Len(gens) /\ gens'[j].by = By(c)
              \/ j \in 1..Len(gens) /\ gens'[i].by = By(c)
          BY <1>9, <2>3, <3>2
        <4>. QED
          BY <1>9, <2>2, <2>3, <4>1
      <3>. QED
        BY <3>1, <3>2
    <2>. QED
      BY <2>1, <2>3 DEF OneGenerationPerKey
  <1>13. IdemInv'
    BY <1>8, <1>10, <1>11, <1>12 DEF IdemInv, Row
  <1>14. Ok(g, changed) \in Answers /\ Ok(g, changed).status = "ok"
    BY <1>3 DEF Ok, Answers, Codes
  <1>15. PICK q \in RequestType :
           /\ req' = [req EXCEPT ![c] = q]
           /\ q.pc = "answered" /\ q.answer = Ok(g, changed) /\ q.body = req[c].body /\ q.key = req[c].key
    BY <1>6, <1>14, AnsweredFields
  <1>16. RequestOk(q, idem')
    BY <1>1, <1>4, <1>5, <1>7, <1>8, <1>14, <1>15 DEF RequestOk, By
  <1>. QED
    BY <1>8, <1>13, <1>15, <1>16, OneRequest

-----------------------------------------------------------------------------
(* What a write transaction does *)

\* The next startup can resolve the secret that a row binds, and validate its settings.
RowStarts(row, rows) ==
    /\ row.overrides \in Admissible
    /\ IF row.secret = None THEN deployed
       ELSE row.secret \in DOMAIN rows /\ masterKey # None /\ rows[row.secret].key = masterKey

\* What is configured, and what a request leaves of it.
Config == ConfigOf(Row(head), versions)

Configures(c, row, rows) ==
    /\ ConfigOf(row, rows) = [Config EXCEPT ![req[c].body.domain] = req[c].body.value]
    /\ Config[req[c].body.domain] # req[c].body.value

AsksForWhatIs(c) ==
    req[c].expected = head /\ Config[req[c].body.domain] = req[c].body.value

\* A row that request c appends to the chain.
Appends(c, row) ==
    /\ gens' = Append(gens, row) /\ head < MaxGen
    /\ Commit(c, gens', versions')
    /\ row.by = By(c) /\ row.parent = head
    /\ row.secret # None => row.secret <= head + 1
    /\ RowsFollow(row)
    /\ Configures(c, row, versions')
    /\ \A d \in Ordinary : row.overrides[d] # Row(head).overrides[d] => d = req[c].body.domain
    /\ Startable /\ req[c].loaded \in {None, masterKey} /\ proc.deployed = deployed =>
          RowStarts(row, versions')

\* Why a request that is neither repeated nor stale may be refused under the write lock.
Reasons == {"secret_unresolved", "invalid", "decrypt_failed"}

LEMMA WriterFacts ==
  ASSUME IInv, NEW c \in Clients, req[c].pc = "write"
  PROVE  /\ req[c] \in RequestType /\ req[c].body \in Bodies /\ req[c].key \in IdemKeys
         /\ By(c) \in Domains \X IdemKeys
         /\ req[c].body.domain = "secret" => req[c].loaded \in MasterKeys /\ req[c].loaded # None
         /\ req[c].body.domain # "secret" => req[c].body.domain \in Ordinary /\ req[c].body.value \in Values \cup {None}
         /\ req[c].body.domain = "secret" => req[c].body.value \in SecretValues \cup {None}
         /\ Row(head) \in RowType /\ Row(head).overrides \in Overrides
         /\ Binding(head) \in Generations \cup {None} /\ (Binding(head) # None => Binding(head) <= head)
         /\ head \in Nat
  <1>1. RequestOk(req[c], idem)
    BY DEF IInv, RequestsInv
  <1>2. req[c] \in RequestType /\ req[c].body \in Bodies /\ req[c].key \in IdemKeys
    BY <1>1 DEF RequestOk
  <1>3. By(c) \in Domains \X IdemKeys
    BY <1>2 DEF By, Bodies, Domains
  <1>4. req[c].body.domain = "secret" => req[c].loaded \in MasterKeys /\ req[c].loaded # None
    BY <1>1, NoneAssumption DEF RequestOk
  <1>5. /\ req[c].body.domain # "secret" => req[c].body.domain \in Ordinary /\ req[c].body.value \in Values \cup {None}
        /\ req[c].body.domain = "secret" => req[c].body.value \in SecretValues \cup {None}
    BY <1>2 DEF Bodies, Ordinary
  <1>6. Row(head) \in RowType /\ head \in Nat /\ head \in 0..head
    BY Heads DEF IInv
  <1>7. Row(head).overrides \in Overrides /\ Binding(head) \in Generations \cup {None}
    BY <1>6 DEF RowType, Binding
  <1>8. Binding(head) # None => Binding(head) <= head
    BY <1>6, Heads DEF IInv
  <1>. QED
    BY <1>2, <1>3, <1>4, <1>5, <1>6, <1>7, <1>8

LEMMA OrdinaryWrites ==
  ASSUME IInv, NEW c \in Clients, req[c].pc = "write", req[c].body.domain # "secret",
         OrdinaryMutation(c), UNCHANGED masterKey
  PROVE  \/ \E code \in Reasons : Refuse(c, code)
         \/ Config[req[c].body.domain] = req[c].body.value /\ Commit(c, gens, versions)
         \/ \E row \in RowType : Appends(c, row)
  <1>. DEFINE d == req[c].body.domain
              new == [Row(head).overrides EXCEPT ![d] = req[c].body.value]
              row == NewRow(new, Binding(head), By(c))
  <1>1. /\ d \in Ordinary /\ req[c].body.value \in Values \cup {None}
        /\ Row(head).overrides \in Overrides /\ Binding(head) \in Generations \cup {None}
        /\ By(c) \in Domains \X IdemKeys /\ head \in Nat
        /\ Binding(head) # None => Binding(head) <= head + 1
    BY WriterFacts DEF Generations
  <1>2. new \in Overrides /\ \A e \in Ordinary : e # d => new[e] = Row(head).overrides[e]
    BY <1>1 DEF Overrides
  <1>3. /\ row \in RowType /\ row.secret = Binding(head) /\ row.by = By(c)
        /\ row.parent = head /\ row.overrides = new
    <2>. HIDE DEF new
    <2>. QED
      BY <1>1, <1>2, NewRowType DEF IInv
  <1>4. \/ Refuse(c, "secret_unresolved") \/ Refuse(c, "invalid")
        \/ new = Row(head).overrides /\ Commit(c, gens, versions)
        \/ /\ new \in Admissible /\ head < MaxGen /\ new # Row(head).overrides
           /\ Commit(c, Append(gens, row), versions)
    BY DEF OrdinaryMutation
  <1>5. CASE new = Row(head).overrides /\ Commit(c, gens, versions)
    <2>1. Row(head).overrides[d] = req[c].body.value
      BY <1>1, <1>5 DEF Overrides
    <2>2. Config[d] = Row(head).overrides[d]
      BY <1>1 DEF Config, ConfigOf, Domains
    <2>. QED
      BY <1>5, <2>1, <2>2
  <1>6. CASE new \in Admissible /\ head < MaxGen /\ new # Row(head).overrides
             /\ Commit(c, Append(gens, row), versions)
    <2>1. gens' = Append(gens, row) /\ versions' = versions /\ Commit(c, gens', versions')
      BY <1>6 DEF Commit
    <2>2. RowsFollow(row)
      <3>. HIDE DEF row
      <3>. QED
        BY <1>3, <2>1, CarriedRows DEF IInv
    <2>3. Startable /\ req[c].loaded \in {None, masterKey} /\ proc.deployed = deployed => RowStarts(row, versions')
      <3>. HIDE DEF row
      <3>. QED
        BY <1>3, <1>6, <2>1 DEF Startable, SecretResolves, Decrypts, RowStarts
    <2>4. \A e \in Ordinary : row.overrides[e] # Row(head).overrides[e] => e = d
      BY <1>2, <1>3
    <2>5. Configures(c, row, versions')
      <3>1. new[d] = req[c].body.value /\ Row(head).overrides[d] # req[c].body.value
        BY <1>1, <1>6 DEF Overrides
      <3>. HIDE DEF row, new
      <3>2. ConfigOf(row, versions') = [Config EXCEPT ![d] = req[c].body.value]
        BY <1>1, <1>2, <1>3, <2>1, <3>1 DEF ConfigOf, Config, Binding, Domains
      <3>3. Config[d] # req[c].body.value
        BY <1>1, <3>1 DEF ConfigOf, Config, Domains
      <3>. QED
        BY <3>2, <3>3 DEF Configures
    <2>. HIDE DEF row, new
    <2>. QED
      BY <1>1, <1>3, <1>6, <2>1, <2>2, <2>3, <2>4, <2>5 DEF Appends
  <1>. QED
    BY <1>4, <1>5, <1>6 DEF Reasons

LEMMA ClearWrites ==
  ASSUME IInv, NEW c \in Clients, req[c].pc = "write", req[c].body.domain = "secret",
         req[c].body.value = None, Config["secret"] # None, ClearSecret(c)
  PROVE  \/ \E code \in Reasons : Refuse(c, code)
         \/ \E row \in RowType : Appends(c, row)
  <1>. DEFINE row == NewRow(Row(head).overrides, None, By(c))
  <1>1. CASE ~proc.deployed
    BY <1>1 DEF ClearSecret, Reasons
  <1>2. CASE proc.deployed
    <2>1. /\ row \in RowType /\ row.secret = None /\ row.by = By(c) /\ row.parent = head
          /\ row.overrides = Row(head).overrides
      BY WriterFacts, NewRowType DEF IInv
    <2>2. /\ head < MaxGen /\ gens' = Append(gens, row)
          /\ versions' = Gc(Append(gens, row), versions, effective)
          /\ Commit(c, gens', versions')
      BY <1>2 DEF ClearSecret, Commit
    <2>3. RowsFollow(row)
      <3>. HIDE DEF row
      <3>. QED
        BY <2>1, <2>2, ClearedRows DEF IInv
    <2>4. Startable /\ proc.deployed = deployed => RowStarts(row, versions')
      BY <1>2, <2>1 DEF Startable, RowStarts
    <2>. HIDE DEF row
    <2>5. Configures(c, row, versions')
      BY <2>1 DEF Configures, ConfigOf, Config, Domains, Ordinary
    <2>. QED
      BY <2>1, <2>2, <2>3, <2>4, <2>5 DEF Appends
  <1>. QED
    BY <1>1, <1>2

LEMMA ReplaceWrites ==
  ASSUME IInv, NEW c \in Clients, req[c].pc = "write", req[c].body.domain = "secret",
         req[c].body.value # None, Config["secret"] # req[c].body.value, ReplaceSecret(c)
  PROVE  \E row \in RowType : Appends(c, row)
  <1>. DEFINE row == NewRow(Row(head).overrides, head + 1, By(c))
              version == [value |-> req[c].body.value, key |-> req[c].loaded]
              rows == [w \in DOMAIN versions \cup {head + 1} |-> IF w = head + 1 THEN version ELSE versions[w]]
  <1>1. /\ head \in Nat /\ req[c].loaded \in MasterKeys /\ req[c].loaded # None
        /\ req[c].body.value \in SecretValues /\ By(c) \in Domains \X IdemKeys
        /\ Row(head).overrides \in Overrides
    BY WriterFacts
  <1>2. /\ head < MaxGen /\ gens' = Append(gens, row)
        /\ versions' = Gc(Append(gens, row), rows, effective)
        /\ Commit(c, gens', versions')
    BY DEF ReplaceSecret, Commit
  <1>3. version \in VersionType /\ version.key = req[c].loaded
    BY <1>1 DEF VersionType
  <1>4. /\ row \in RowType /\ row.secret = head + 1 /\ row.by = By(c) /\ row.parent = head
        /\ row.overrides = Row(head).overrides
    <2>1. head + 1 \in Generations /\ MaxGen \in Nat
      BY <1>1, <1>2, BoundsAssumption DEF Generations
    <2>. QED
      BY <1>1, <2>1, NewRowType DEF IInv
  <1>5. /\ DOMAIN rows = DOMAIN versions \cup {head + 1} /\ rows[head + 1] = version
        /\ \A w \in DOMAIN versions : w # head + 1 => rows[w] = versions[w]
    OBVIOUS
  <1>6. RowsFollow(row) /\ head + 1 \in DOMAIN versions' /\ versions'[head + 1] = version
    <2>1. rows[head + 1] \in VersionType
      BY <1>3, <1>5
    <2>2. StoreInv /\ head < MaxGen /\ row \in RowType /\ row.secret = head + 1
      BY <1>2, <1>4 DEF IInv
    <2>. HIDE DEF row, rows, version
    <2>3. RowsFollow(row) /\ head + 1 \in DOMAIN versions' /\ versions'[head + 1] = rows[head + 1]
      BY <1>2, <1>5, <2>1, <2>2, ReplacedRows
    <2>. QED
      BY <1>5, <2>3
  <1>7. Startable /\ req[c].loaded \in {None, masterKey} => RowStarts(row, versions')
    <2>. HIDE DEF row, rows, version
    <2>1. head + 1 # None /\ versions'[head + 1].key = req[c].loaded
      BY <1>1, <1>3, <1>6, NoneAssumption
    <2>. QED
      BY <1>1, <1>4, <1>6, <2>1 DEF Startable, RowStarts
  <1>8. Configures(c, row, versions')
    <2>1. version.value = req[c].body.value /\ head + 1 # None
      BY <1>1, NoneAssumption
    <2>. HIDE DEF row, rows, version
    <2>. QED
      BY <1>4, <1>6, <2>1 DEF Configures, ConfigOf, Config, Domains, Ordinary
  <1>. HIDE DEF row, rows, version
  <1>. QED
    BY <1>1, <1>2, <1>4, <1>6, <1>7, <1>8 DEF Appends

\* What is configured of the secret is the value of the version that the head binds.
LEMMA SecretIs ==
  ASSUME IInv
  PROVE  Config["secret"] = IF Binding(head) = None THEN None ELSE versions[Binding(head)].value
  BY DEF Config, ConfigOf, Domains, Ordinary, Binding

LEMMA BoundSecret ==
  ASSUME IInv, Binding(head) # None
  PROVE  Config["secret"] \in SecretValues /\ Config["secret"] # None
  <1>1. Binding(head) \in DOMAIN versions
    BY DEF IInv, StoreInv, VersionsAreReferenced
  <1>2. versions[Binding(head)].value \in SecretValues
    BY <1>1 DEF IInv, StoreInv, VersionType
  <1>. QED
    BY <1>2, SecretIs, NoneAssumption

LEMMA WriteOutcomes ==
  ASSUME IInv, NEW c \in Clients, Write(c)
  PROVE  \/ /\ Stored(c) # None
            /\ req' = Answered(c, Replay(c, Fingerprint(c)))
            /\ UNCHANGED <<gens, versions, idem>>
         \/ Stored(c) = None /\ req[c].expected # head /\ Refuse(c, "stale")
         \/ Stored(c) = None /\ req[c].expected = head /\ \E code \in Reasons : Refuse(c, code)
         \/ Stored(c) = None /\ AsksForWhatIs(c) /\ Commit(c, gens, versions)
         \/ Stored(c) = None /\ req[c].expected = head /\ \E row \in RowType : Appends(c, row)
  <1>1. CASE Stored(c) # None
    BY <1>1 DEF Write, Mutate
  <1>2. CASE Stored(c) = None /\ req[c].expected # head
    BY <1>2 DEF Write, Mutate
  <1>3. CASE Stored(c) = None /\ req[c].expected = head
    <2>1. CASE req[c].body.domain # "secret"
      <3>1. OrdinaryMutation(c) /\ req[c].pc = "write" /\ UNCHANGED masterKey
        BY <1>3, <2>1 DEF Write, Mutate
      <3>. QED
        BY <1>3, <2>1, <3>1, OrdinaryWrites DEF AsksForWhatIs
    <2>2. CASE req[c].body.domain = "secret"
      <3>1. SecretMutation(c) /\ req[c].pc = "write"
        BY <1>3, <2>2 DEF Write, Mutate
      <3>2. \/ Config["secret"] = req[c].body.value /\ Commit(c, gens, versions)
            \/ Refuse(c, "decrypt_failed")
            \/ req[c].body.value = None /\ Config["secret"] # None /\ ClearSecret(c)
            \/ req[c].body.value # None /\ Config["secret"] # req[c].body.value /\ ReplaceSecret(c)
        BY <3>1, SecretIs, BoundSecret DEF SecretMutation
      <3>3. CASE req[c].body.value = None /\ Config["secret"] # None /\ ClearSecret(c)
        BY <1>3, <2>2, <3>1, <3>3, ClearWrites
      <3>4. CASE req[c].body.value # None /\ Config["secret"] # req[c].body.value /\ ReplaceSecret(c)
        BY <1>3, <2>2, <3>1, <3>4, ReplaceWrites
      <3>. QED
        BY <1>3, <2>2, <3>2, <3>3, <3>4 DEF Reasons, AsksForWhatIs
    <2>. QED
      BY <2>1, <2>2
  <1>. QED
    BY <1>1, <1>2, <1>3

-----------------------------------------------------------------------------
(* Every step preserves the invariant *)

LEMMA WriteInv ==
  ASSUME IInv, NEW c \in Clients, Write(c)
  PROVE  IInv'
  <1>1. /\ proc.state = "adopted" /\ req[c].pc = "write" /\ req[c].pc # "idle"
        /\ UNCHANGED <<effective, result, masterKey, deployed, proc>>
        /\ StoreInv /\ ProcInv
    BY DEF Write, IInv
  <1>2. CASE /\ Stored(c) # None
             /\ req' = Answered(c, Replay(c, Fingerprint(c)))
             /\ UNCHANGED <<gens, versions, idem>>
    <2>1. Fingerprint(c).value = req[c].body.value
      BY DEF Fingerprint
    <2>2. UNCHANGED <<store, masterKey, deployed, proc>>
      BY <1>1, <1>2 DEF store
    <2>. QED
      BY <1>1, <1>2, <2>1, <2>2, ReplayedInv
  <1>3. ASSUME NEW code \in Reasons \cup {"stale"}, Refuse(c, code) PROVE IInv'
    <2>1. req' = Answered(c, Error(code)) /\ UNCHANGED <<store, masterKey, deployed, proc>>
      BY <1>1, <1>3 DEF Refuse, store
    <2>. QED
      BY <1>1, <1>3, <2>1, RefusedInv DEF Reasons, Codes
  <1>4. CASE Stored(c) = None /\ Commit(c, gens, versions)
    <2>1. gens' = gens /\ versions' = versions
      BY <1>4 DEF Commit
    <2>2. StoreInv'
      BY <1>1, <2>1 DEF StoreInv, VersionsAreReferenced, Binding, Bound, Row, head
    <2>3. ProcInv'
      BY <1>1, <2>1 DEF ProcInv, Binding, Row, head
    <2>. QED
      BY <1>1, <1>4, <2>2, <2>3, CommittedInv
  <1>5. ASSUME Stored(c) = None, NEW row \in RowType, Appends(c, row) PROVE IInv'
    <2>1. /\ gens' = Append(gens, row) /\ head < MaxGen /\ Commit(c, gens', versions')
          /\ row.by = By(c) /\ RowsFollow(row)
          /\ row.secret # None => row.secret <= head + 1
      BY <1>5 DEF Appends
    <2>2. StoreInv' /\ ProcInv'
      BY <1>1, <2>1, AppendStore
    <2>3. /\ Len(gens') = Len(gens) + 1 /\ gens'[head' + 1] = row /\ head' + 1 = Len(gens')
          /\ \A i \in 1..Len(gens) : gens'[i] = gens[i]
          /\ Len(gens) \in Nat
      <3>1. head' + 1 = Len(gens') /\ Len(gens) \in Nat
        BY <1>1, <2>2, Heads DEF head, StoreInv, ChainOk
      <3>. QED
        BY <1>1, <2>1, <3>1, AppendedRows
    <2>4. gens' # gens /\ gens'[Len(gens) + 1].by = By(c)
      BY <2>1, <2>3
    <2>. QED
      BY <1>1, <1>5, <2>1, <2>2, <2>3, <2>4, CommittedInv
  <1>. QED
    BY <1>2, <1>3, <1>4, <1>5, WriteOutcomes

LEMMA SubmitInv ==
  ASSUME IInv, NEW c \in Clients, Submit(c)
  PROVE  IInv'
  <1>1. req[c].tries < MaxTries /\ UNCHANGED <<store, masterKey, deployed, proc>> /\ idem' = idem
    BY DEF Submit, store
  <1>2. req[c] \in RequestType /\ StoreInv
    BY DEF IInv, RequestsInv, RequestOk
  <1>3. PICK body \in Bodies, k \in IdemKeys, g \in 0..head : Sends(c, body, k, g)
    BY DEF Submit
  <1>. DEFINE q == [NoRequest EXCEPT !.pc = "lookup", !.body = body, !.key = k,
                                     !.expected = g, !.tries = req[c].tries + 1]
  <1>4. req' = [req EXCEPT ![c] = q]
    BY <1>3 DEF Sends
  <1>5. req[c].tries + 1 \in 0..MaxTries /\ g \in Nat
    <2>1. head \in Nat /\ req[c].tries \in 0..MaxTries /\ MaxTries \in Nat
      BY <1>2, Heads, BoundsAssumption DEF RequestType
    <2>. QED
      BY <1>1, <1>3, <2>1
  <1>6. q \in RequestType /\ q.pc = "lookup" /\ q.body = body /\ q.key = k /\ q.answer = None
    <2>1. NoRequest \in RequestType /\ NoRequest.answer = None
      BY BoundsAssumption DEF NoRequest, RequestType
    <2>. QED
      BY <1>5, <2>1 DEF RequestType
  <1>. HIDE DEF q
  <1>7. RequestOk(q, idem')
    BY <1>6 DEF RequestOk
  <1>. QED
    BY <1>1, <1>4, <1>7, StoreStays, OneRequest

LEMMA RetryInv ==
  ASSUME IInv, NEW c \in Clients, Retry(c)
  PROVE  IInv'
  <1>. DEFINE q == [req[c] EXCEPT !.pc = "lookup", !.tries = @ + 1, !.loaded = None]
  <1>1. /\ req[c].tries < MaxTries /\ req[c] \in RequestType /\ req[c].pc # "idle"
        /\ UNCHANGED <<store, masterKey, deployed, proc>> /\ idem' = idem
        /\ RequestOk(req[c], idem)
    BY DEF Retry, IInv, RequestsInv, RequestOk, store
  <1>2. req' = [req EXCEPT ![c] = q]
    BY DEF Retry, IInv, RequestsInv
  <1>3. req[c].tries + 1 \in 0..MaxTries
    BY <1>1, BoundsAssumption DEF RequestType
  <1>4. /\ q \in RequestType /\ q.pc = "lookup" /\ q.body = req[c].body /\ q.key = req[c].key
        /\ q.answer = req[c].answer
    BY <1>1, <1>3 DEF RequestType
  <1>. HIDE DEF q
  <1>5. RequestOk(q, idem')
    BY <1>1, <1>4 DEF RequestOk
  <1>. QED
    BY <1>1, <1>2, <1>5, StoreStays, OneRequest

LEMMA LookupInv ==
  ASSUME IInv, NEW c \in Clients, Lookup(c)
  PROVE  IInv'
  <1>. DEFINE secret == req[c].body.domain = "secret"
              fp == [value |-> req[c].body.value, key |-> IF secret THEN masterKey ELSE None]
              loaded == IF secret THEN masterKey ELSE None
              q == [req[c] EXCEPT !.pc = "write", !.loaded = loaded]
  <1>1. /\ req[c] \in RequestType /\ req[c].pc # "idle"
        /\ UNCHANGED <<store, masterKey, deployed, proc>> /\ idem' = idem
        /\ RequestOk(req[c], idem) /\ masterKey \in MasterKeys \cup {None}
    BY DEF Lookup, IInv, RequestsInv, RequestOk, store, StoreInv
  <1>2. \/ req' = Answered(c, Error("store_unavailable"))
        \/ Stored(c) # None /\ req' = Answered(c, Replay(c, fp))
        \/ (secret => masterKey # None) /\ req' = [req EXCEPT ![c] = q]
    BY DEF Lookup, IInv, RequestsInv
  <1>3. CASE req' = Answered(c, Error("store_unavailable"))
    BY <1>1, <1>3, RefusedInv DEF Codes
  <1>4. CASE Stored(c) # None /\ req' = Answered(c, Replay(c, fp))
    <2>1. fp.value = req[c].body.value
      OBVIOUS
    <2>. HIDE DEF fp
    <2>. QED
      BY <1>1, <1>4, <2>1, ReplayedInv
  <1>5. CASE (secret => masterKey # None) /\ req' = [req EXCEPT ![c] = q]
    <2>1. loaded \in MasterKeys \cup {None} /\ IF secret THEN loaded \in MasterKeys ELSE loaded = None
      BY <1>1, <1>5
    <2>. HIDE DEF loaded
    <2>2. /\ q \in RequestType /\ q.pc = "write" /\ q.body = req[c].body /\ q.key = req[c].key
          /\ q.answer = req[c].answer /\ q.loaded = loaded
      BY <1>1, <2>1 DEF RequestType
    <2>. HIDE DEF q
    <2>3. RequestOk(q, idem')
      BY <1>1, <2>1, <2>2 DEF RequestOk
    <2>. QED
      BY <1>1, <1>5, <2>3, StoreStays, OneRequest
  <1>. QED
    BY <1>2, <1>3, <1>4, <1>5

LEMMA WriteFailsInv ==
  ASSUME IInv, NEW c \in Clients, WriteFails(c)
  PROVE  IInv'
  BY RefusedInv DEF WriteFails, Codes

\* The requests are as they were, and the records too.
LEMMA SameRequests ==
  ASSUME IInv, UNCHANGED <<gens, idem, req>>, StoreInv', ProcInv'
  PROVE  IInv'
  BY DEF IInv, IdemInv, RequestsInv, RequestOk, Row, head, OneGenerationPerKey

LEMMA BootstrapInv ==
  ASSUME IInv, Bootstrap
  PROVE  IInv'
  <1>1. UNCHANGED <<gens, versions, effective, result, idem, masterKey, deployed, req>>
    BY DEF Bootstrap, store
  <1>2. StoreInv'
    BY <1>1 DEF IInv, StoreInv, VersionsAreReferenced, Binding, Bound, Row, head
  <1>3. ProcInv'
    <2>1. /\ proc'.state = "booted" /\ proc'.gen = head /\ proc'.overrides = Row(head).overrides
          /\ proc'.secret = SecretValue(head)
      BY DEF Bootstrap
    <2>2. head \in 0..head /\ head' = head /\ Row(head)' = Row(head) /\ Binding(head)' = Binding(head)
      BY <1>1, Heads DEF IInv, head, Row, Binding
    <2>3. Binding(head) # None => Binding(head) \in DOMAIN versions
      BY DEF IInv, StoreInv, VersionsAreReferenced
    <2>. QED
      BY <1>1, <2>1, <2>2, <2>3 DEF ProcInv, SecretValue, Row, Binding
  <1>. QED
    BY <1>1, <1>2, <1>3, SameRequests

\* A failed attempt is recorded against the head, which no process runs.
LEMMA FailureInv ==
  ASSUME IInv, Activation(head, FALSE), proc'.state = "down", UNCHANGED <<masterKey, deployed, req>>
  PROVE  IInv'
  <1>1. /\ UNCHANGED <<gens, versions, effective, idem, masterKey, deployed, req>>
        /\ result' = [result EXCEPT ![head] = "failed"]
    BY DEF Activation
  <1>2. StoreInv'
    <2>1. /\ head' = head /\ head \in Nat
          /\ UNCHANGED <<Binding(head), Bound(effective)>>
      BY <1>1, Heads DEF IInv, head, Binding, Bound, Row
    <2>2. result \in [Generations -> {None, "adopted", "failed"}]
      BY DEF IInv, StoreInv
    <2>3. \A g \in Generations : g > head => g # head /\ result[g] = None
      BY <2>1 DEF IInv, StoreInv, Generations
    <2>4. /\ result' \in [Generations -> {None, "adopted", "failed"}]
          /\ \A g \in Generations : g # head => result'[g] = result[g]
      <3>. HIDE DEF head
      <3>. QED
        BY <1>1, <2>2
    <2>5. \A g \in Generations : g > head' => result'[g] = None
      BY <2>1, <2>3, <2>4
    <2>6. VersionsAreReferenced'
      BY <1>1, <2>1 DEF IInv, StoreInv, VersionsAreReferenced
    <2>. QED
      BY <1>1, <2>1, <2>4, <2>5, <2>6 DEF IInv, StoreInv
  <1>3. ProcInv'
    BY DEF ProcInv
  <1>. QED
    BY <1>1, <1>2, <1>3, SameRequests

LEMMA AdoptInv ==
  ASSUME IInv, Adopt
  PROVE  IInv'
  <1>1. /\ UNCHANGED <<gens, idem, masterKey, deployed, req>>
        /\ result' = [result EXCEPT ![proc.gen] = "adopted"]
        /\ effective' = proc.gen
        /\ versions' = Gc(gens, versions, proc.gen)
        /\ proc.state = "booted" /\ proc' = [proc EXCEPT !.state = "adopted"]
    BY DEF Adopt, Activation
  <1>2. /\ proc.gen = head /\ head \in Nat /\ head \in 0..head /\ head \in Generations /\ head # None
        /\ head + 1 = Len(gens) /\ head' = head
        /\ Row(head)' = Row(head) /\ Binding(head)' = Binding(head)
    BY <1>1, Heads, NoneAssumption DEF IInv, ProcInv, head, Row, Binding
  <1>3. /\ DOMAIN versions' = {Binding(head)} \ {None}
        /\ \A v \in DOMAIN versions' : v \in DOMAIN versions /\ versions'[v] = versions[v]
    <2>1. {gens[Len(gens)].secret} \cup {gens[proc.gen + 1].secret} = {Binding(head)}
      BY <1>2 DEF Binding, Row
    <2>2. versions' = [v \in DOMAIN versions \cap {Binding(head)} |-> versions[v]]
      BY <1>1, <1>2, <2>1 DEF Gc
    <2>3. DOMAIN versions \cap {Binding(head)} = {Binding(head)} \ {None}
      BY DEF IInv, StoreInv, VersionsAreReferenced
    <2>. QED
      BY <2>2, <2>3
  <1>4. Bound(effective)' = Binding(head)
    BY <1>1, <1>2 DEF Bound, Binding, Row
  <1>5. StoreInv'
    <2>1. VersionsAreReferenced'
      BY <1>2, <1>3, <1>4 DEF VersionsAreReferenced
    <2>2. /\ result' \in [Generations -> {None, "adopted", "failed"}]
          /\ \A g \in Generations : g > head' => result'[g] = None
      BY <1>1, <1>2 DEF IInv, StoreInv, Generations
    <2>. QED
      BY <1>1, <1>2, <1>3, <2>1, <2>2 DEF IInv, StoreInv
  <1>6. ProcInv'
    <2>1. /\ Row(proc.gen).overrides = proc.overrides
          /\ Binding(proc.gen) # None => versions[Binding(proc.gen)].value = proc.secret
          /\ proc.gen \in Generations
      BY <1>1, <1>2 DEF IInv, ProcInv
    <2>2. /\ proc'.state = "adopted" /\ proc'.gen = proc.gen /\ proc'.overrides = proc.overrides
          /\ proc'.secret = proc.secret
      BY <1>1 DEF IInv, ProcInv
    <2>3. /\ result'[proc.gen] = "adopted"
          /\ \A g \in Generations : g > proc.gen => result'[g] # "failed"
      <3>1. \A g \in Generations : g > proc.gen => g # proc.gen /\ result[g] = None
        BY <1>2 DEF IInv, StoreInv, Generations
      <3>2. \A g \in Generations : g > proc.gen => result'[g] = None
        BY <1>1, <3>1 DEF IInv, StoreInv
      <3>3. None # "failed"
        BY NoneAssumption
      <3>. QED
        BY <1>1, <2>1, <3>2, <3>3 DEF IInv, StoreInv
    <2>. QED
      BY <1>1, <1>2, <1>3, <2>1, <2>2, <2>3 DEF ProcInv, Row, Binding
  <1>. QED
    BY <1>1, <1>5, <1>6, SameRequests

LEMMA StopInv ==
  ASSUME IInv, Stop
  PROVE  IInv'
  <1>1. /\ UNCHANGED <<gens, versions, effective, result, idem, masterKey, deployed>>
        /\ proc' = Down
        /\ req' = [c \in Clients |-> IF req[c].pc \in {"lookup", "write"}
                                     THEN [req[c] EXCEPT !.pc = "lost"] ELSE req[c]]
    BY DEF Stop, store
  <1>2. StoreInv' /\ IdemInv'
    BY <1>1 DEF IInv, StoreInv, IdemInv, VersionsAreReferenced, Binding, Bound, Row, head, OneGenerationPerKey
  <1>3. ProcInv'
    BY <1>1 DEF Down, ProcInv
  <1>4. ASSUME NEW c \in Clients PROVE RequestOk(req'[c], idem')
    <2>1. RequestOk(req[c], idem) /\ idem' = idem
      BY <1>1 DEF IInv, RequestsInv
    <2>2. CASE req[c].pc \in {"lookup", "write"}
      <3>. DEFINE q == [req[c] EXCEPT !.pc = "lost"]
      <3>1. /\ q \in RequestType /\ q.pc = "lost" /\ q.body = req[c].body /\ q.key = req[c].key
            /\ q.answer = req[c].answer
        BY <2>1 DEF RequestOk, RequestType
      <3>2. req'[c] = q
        BY <1>1, <2>2
      <3>. HIDE DEF q
      <3>. QED
        BY <2>1, <2>2, <3>1, <3>2 DEF RequestOk
    <2>3. CASE req[c].pc \notin {"lookup", "write"}
      BY <1>1, <2>1, <2>3
    <2>. QED
      BY <2>2, <2>3
  <1>. QED
    BY <1>1, <1>2, <1>3, <1>4 DEF IInv, RequestsInv

\* The recovery tool appends a generation that no identity created.
LEMMA RecoverInv ==
  ASSUME IInv, Recover
  PROVE  IInv'
  <1>. DEFINE row == NewRow(Row(head).overrides, None, None)
  <1>1. /\ proc.state = "down" /\ head < MaxGen /\ gens' = Append(gens, row)
        /\ versions' = Gc(Append(gens, row), versions, effective)
        /\ UNCHANGED <<effective, result, idem, masterKey, deployed, proc, req>>
    BY DEF Recover
  <1>2. Row(head).overrides \in Overrides
    <2>1. Row(head) \in RowType
      BY Heads DEF IInv
    <2>. QED
      BY <2>1 DEF RowType
  <1>3. row \in RowType /\ row.secret = None /\ row.by = None
    BY <1>2, NewRowType DEF IInv
  <1>. HIDE DEF row
  <1>4. RowsFollow(row)
    BY <1>1, <1>3, ClearedRows DEF IInv
  <1>5. StoreInv' /\ ProcInv'
    BY <1>1, <1>3, <1>4, AppendStore DEF IInv
  <1>6. /\ head' = head + 1 /\ head \in Nat /\ head + 1 = Len(gens)
        /\ Len(gens') = Len(gens) + 1 /\ gens'[Len(gens) + 1] = row
        /\ \A i \in 1..Len(gens) : gens'[i] = gens[i]
        /\ \A g \in 0..head : g \in 0..head' /\ gens'[g + 1] = gens[g + 1]
        /\ Len(gens) \in Nat
        /\ DOMAIN gens = 1..Len(gens) /\ DOMAIN gens' = 1..Len(gens')
    <2>1. head \in Nat /\ head + 1 = Len(gens) /\ Len(gens) \in Nat
      BY Heads DEF IInv
    <2>2. DOMAIN gens = 1..Len(gens) /\ DOMAIN gens' = 1..Len(gens')
      BY <1>5 DEF StoreInv, ChainOk, IInv
    <2>. QED
      BY <1>1, <1>3, <2>1, <2>2, AppendedRows DEF IInv
  <1>7. \A i \in 1..Len(gens') : i \in 1..Len(gens) \/ gens'[i].by = None
    BY <1>3, <1>6
  <1>8. IdemInv'
    <2>1. \A i \in Domains \X IdemKeys : idem'[i] # None =>
            idem'[i].gen \in 0..head' /\ (idem'[i].changed => gens'[idem'[i].gen + 1].by = i)
      BY <1>1, <1>6 DEF IInv, IdemInv, Row
    <2>2. \A i \in 1..Len(gens') : gens'[i].by # None =>
            gens'[i].by \in Domains \X IdemKeys /\ idem'[gens'[i].by] # None
      BY <1>1, <1>6, <1>7 DEF IInv, IdemInv
    <2>3. OneGenerationPerKey'
      BY <1>6, <1>7 DEF IInv, IdemInv, OneGenerationPerKey
    <2>. QED
      BY <1>1, <2>1, <2>2, <2>3 DEF IInv, IdemInv, Row
  <1>. QED
    BY <1>1, <1>5, <1>8 DEF IInv, RequestsInv, RequestOk

\* The operator changes the key file or the environment.
LEMMA OperatorInv ==
  ASSUME IInv, KeyFileChanges \/ EnvironmentChanges
  PROVE  IInv'
  <1>1. /\ UNCHANGED <<gens, versions, effective, result, idem, proc, req>>
        /\ masterKey' \in MasterKeys \cup {None} /\ deployed' \in BOOLEAN
    BY DEF IInv, StoreInv, KeyFileChanges, EnvironmentChanges, store
  <1>2. StoreInv' /\ ProcInv'
    BY <1>1 DEF IInv, StoreInv, ProcInv, VersionsAreReferenced, Binding, Bound, Row, head
  <1>. QED
    BY <1>1, <1>2, SameRequests

LEMMA InitInv == Init => IInv
  <1>. SUFFICES ASSUME Init PROVE IInv
    OBVIOUS
  <1>1. Root \in RowType /\ Root.secret = None /\ Root.by = None
    BY DEF Root, RowType, NoOverrides, Overrides
  <1>2. /\ gens \in Seq(RowType) /\ Len(gens) = 1 /\ gens[1] = Root /\ DOMAIN gens = {1} /\ DOMAIN gens = 1..Len(gens)
    <2>. HIDE DEF Root
    <2>. QED
      BY <1>1 DEF Init
  <1>3. head = 0 /\ MaxGen \in Nat
    BY <1>2, BoundsAssumption DEF head
  <1>4. StoreInv
    <2>1. ChainOk(gens)
      BY <1>1, <1>2, <1>3 DEF ChainOk
    <2>2. Binding(head) = None /\ Bound(effective) = None
      BY <1>1, <1>2, <1>3 DEF Binding, Bound, Row, Init
    <2>3. DOMAIN versions = {} /\ VersionsAreReferenced
      BY <2>2 DEF Init, VersionsAreReferenced
    <2>. QED
      BY <2>1, <2>3 DEF Init, StoreInv, Generations
  <1>5. ProcInv
    BY DEF Init, ProcInv, Down
  <1>6. IdemInv
    BY <1>1, <1>2 DEF Init, IdemInv, OneGenerationPerKey
  <1>7. RequestsInv
    <2>1. NoRequest \in RequestType /\ NoRequest.pc = "idle" /\ NoRequest.answer = None
      BY BoundsAssumption DEF NoRequest, RequestType
    <2>2. RequestOk(NoRequest, idem)
      <3>. HIDE DEF NoRequest
      <3>. QED
        BY <2>1 DEF RequestOk
    <2>. QED
      BY <2>2 DEF Init, RequestsInv
  <1>. QED
    BY <1>4, <1>5, <1>6, <1>7 DEF IInv

LEMMA NextInv ==
  ASSUME IInv, [Next]_vars
  PROVE  IInv'
  <1>1. ASSUME NEW c \in Clients, Submit(c) \/ Retry(c) \/ Lookup(c) \/ Write(c) \/ WriteFails(c)
        PROVE  IInv'
    BY <1>1, SubmitInv, RetryInv, LookupInv, WriteInv, WriteFailsInv
  <1>2. CASE BootstrapFails
    <2>1. Activation(head, FALSE) /\ proc.state = "down" /\ UNCHANGED <<masterKey, deployed, proc, req>>
      BY <1>2 DEF BootstrapFails
    <2>. QED
      BY <2>1, FailureInv
  <1>3. CASE AdoptFails
    <2>1. proc.gen = head
      BY <1>3 DEF AdoptFails, IInv, ProcInv
    <2>. QED
      BY <1>3, <2>1, FailureInv DEF AdoptFails, Down
  <1>4. CASE UNCHANGED vars
    <2>1. StoreInv' /\ ProcInv'
      BY <1>4 DEF vars, IInv, StoreInv, ProcInv, VersionsAreReferenced, Binding, Bound, Row, head
    <2>. QED
      BY <1>4, <2>1, SameRequests DEF vars
  <1>. QED
    BY <1>1, <1>2, <1>3, <1>4, BootstrapInv, AdoptInv, StopInv, RecoverInv, OperatorInv DEF Next

THEOREM Invariance == Spec => []IInv
  <1>1. Init => IInv
    BY InitInv
  <1>2. IInv /\ [Next]_vars => IInv'
    BY NextInv
  <1>. QED
    BY <1>1, <1>2, PTL DEF Spec

-----------------------------------------------------------------------------
(* What runs, what is stored and what is shown *)

LEMMA Consistent == IInv => ChainIsConsistent
  <1>. SUFFICES ASSUME IInv PROVE ChainIsConsistent
    OBVIOUS
  <1>1. /\ head \in 0..MaxGen /\ MaxGen \in Nat /\ StoreInv
        /\ effective # None => effective \in 0..head
    BY Heads DEF IInv
  <1>2. TypeOK
    <2>1. \A c \in Clients : req[c] \in RequestType
      BY DEF IInv, RequestsInv, RequestOk
    <2>2. \A c \in Clients : req[c].pc \in {"idle", "lookup", "write", "answered", "lost"} /\ req[c].tries \in 0..MaxTries
      BY <2>1 DEF RequestType
    <2>3. DOMAIN idem = Domains \X IdemKeys /\ proc.state \in {"down", "booted", "adopted"}
      BY DEF IInv, IdemInv, ProcInv
    <2>. QED
      BY <1>1, <2>2, <2>3 DEF StoreInv, ChainOk, VersionType, TypeOK
  <1>3. RunsWhatIsEffective
    BY DEF IInv, ProcInv, RunsWhatIsEffective
  <1>4. ServedStateIsTrue
    <2>. SUFFICES ASSUME proc.state = "adopted"
                  PROVE  ActivationState = IF proc.gen = head THEN "active" ELSE "pending_main_restart"
      BY DEF ServedStateIsTrue
    <2>1. effective = proc.gen /\ proc.gen \in 0..head
      BY DEF IInv, ProcInv
    <2>2. result[head] # "failed"
      <3>1. proc.gen # head => head > proc.gen /\ head \in Generations
        BY <1>1, <2>1 DEF Generations
      <3>. QED
        BY <3>1 DEF IInv, ProcInv
    <2>. QED
      BY <2>1, <2>2 DEF ActivationState
  <1>. QED
    BY <1>1, <1>2, <1>3, <1>4 DEF ChainIsConsistent, StoreInv

\* For any number of clients, keys, values and generations: the secret rows kept are those that the
\* head and the effective generation bind, a process runs on the settings and the secret stored for
\* the generation it adopted, and the activation state it shows is true (settings_control: startup,
\* adopt, the mutations, gc_secret_versions, secret_recovery).
THEOREM Consistency == Spec => []ChainIsConsistent
  BY Invariance, Consistent, PTL

-----------------------------------------------------------------------------
(* Idempotency *)

LEMMA Agree == IInv => RequestsAreIdempotent
  <1>. SUFFICES ASSUME IInv PROVE RequestsAreIdempotent
    OBVIOUS
  <1>1. ASSUME NEW c \in Clients, req[c].answer # None, req[c].answer.status = "ok"
        PROVE  /\ By(c) \in Domains \X IdemKeys /\ idem[By(c)] # None
               /\ req[c].answer = Ok(idem[By(c)].gen, idem[By(c)].changed)
               /\ idem[By(c)].fingerprint.value = req[c].body.value
               /\ req[c].body \in Bodies
    <2>1. RequestOk(req[c], idem)
      BY DEF IInv, RequestsInv
    <2>2. req[c].body \in Bodies /\ req[c].key \in IdemKeys
      BY <1>1, <2>1 DEF RequestOk
    <2>. QED
      BY <1>1, <2>1, <2>2 DEF RequestOk, By, Bodies, Domains
  <1>2. ASSUME NEW c \in Clients, req[c].answer # None, req[c].answer.status = "ok", req[c].answer.changed
        PROVE  Row(req[c].answer.gen).by = By(c)
    <2>1. /\ req[c].answer.gen = idem[By(c)].gen
          /\ req[c].answer.changed = idem[By(c)].changed
      <3>1. req[c].answer = Ok(idem[By(c)].gen, idem[By(c)].changed)
        BY <1>1, <1>2
      <3>2. \A g, changed : Ok(g, changed).gen = g /\ Ok(g, changed).changed = changed
        BY DEF Ok
      <3>. QED
        BY <3>1, <3>2
    <2>2. idem[By(c)].changed
      BY <1>2, <2>1
    <2>. QED
      BY <1>1, <1>2, <2>1, <2>2 DEF IInv, IdemInv
  <1>3. ASSUME NEW c \in Clients, NEW d \in Clients,
               req[c].answer # None, req[c].answer.status = "ok",
               req[d].answer # None, req[d].answer.status = "ok", By(c) = By(d)
        PROVE  req[c].answer = req[d].answer /\ req[c].body = req[d].body
    <2>1. req[c].answer = req[d].answer /\ req[c].body.value = req[d].body.value
      BY <1>1, <1>3
    <2>2. req[c].body.domain = req[d].body.domain
      BY <1>3 DEF By
    <2>3. \A a, b \in Bodies : a.domain = b.domain /\ a.value = b.value => a = b
      BY DEF Bodies
    <2>. QED
      BY <1>1, <1>3, <2>1, <2>2, <2>3
  <1>. QED
    BY <1>2, <1>3 DEF IInv, IdemInv, RequestsAreIdempotent, AnswersAgree

\* Whatever is retried, raced or lost with a stopped process: an identity creates at most one
\* generation, and all its accepted answers are the same answer to the same body (mutate).
THEOREM Idempotency == Spec => []RequestsAreIdempotent
  BY Invariance, Agree, PTL

-----------------------------------------------------------------------------
(* What a step may do to the chain *)

\* Only a write transaction of the request itself changes the chain and answers the request.
LEMMA ChangingStep ==
  ASSUME IInv, [Next]_vars, NEW c \in Clients, gens' # gens, req'[c] # req[c]
  PROVE  Write(c) /\ req[c].expected = head /\ \E row \in RowType : Appends(c, row)
  <1>0. Next
    BY DEF vars
  <1>1. PICK d \in Clients : Write(d)
    <2>1. ASSUME NEW d \in Clients, Submit(d) \/ Retry(d) \/ Lookup(d) \/ WriteFails(d) PROVE FALSE
      BY <2>1 DEF Submit, Retry, Lookup, WriteFails, store
    <2>2. ~(Bootstrap \/ BootstrapFails \/ Adopt \/ AdoptFails \/ Stop)
      BY DEF Bootstrap, BootstrapFails, Activation, Adopt, AdoptFails, Stop, store
    <2>3. ~(Recover \/ KeyFileChanges \/ EnvironmentChanges)
      BY DEF Recover, KeyFileChanges, EnvironmentChanges, store
    <2>. QED
      BY <1>0, <2>1, <2>2, <2>3 DEF Next
  <1>2. \/ \E row \in RowType : Appends(d, row) /\ req[d].expected = head
        \/ Commit(d, gens, versions) \/ gens' = gens
    BY <1>1, WriteOutcomes DEF Refuse
  <1>3. PICK row \in RowType : Appends(d, row) /\ req[d].expected = head
    BY <1>2 DEF Commit
  <1>4. d = c
    BY <1>3 DEF Appends, Commit, Answered, IInv, RequestsInv
  <1>. QED
    BY <1>1, <1>3, <1>4

LEMMA HeadAfter ==
  ASSUME IInv, IInv', NEW c \in Clients, NEW row \in RowType, Appends(c, row)
  PROVE  Row(head)' = row
  <1>1. StoreInv /\ head < MaxGen /\ gens' = Append(gens, row) /\ (row.secret # None => row.secret <= head + 1)
    BY DEF Appends, IInv
  <1>2. gens'[head' + 1] = row
    BY <1>1, AppendedRows
  <1>. QED
    BY <1>2 DEF Row

LEMMA StepExtends ==
  ASSUME IInv, IInv', [Next]_vars
  PROVE  ExtendsWhatItNamed
  <1>. SUFFICES ASSUME NEW c \in Clients, gens' # gens, req'[c] # req[c]
                PROVE  /\ (Row(head)').parent = req[c].expected
                       /\ \A d \in Ordinary : (Row(head)').overrides[d] # Row(head).overrides[d]
                                                => d = req[c].body.domain
    BY DEF ExtendsWhatItNamed
  <1>1. PICK row \in RowType : Appends(c, row)
    BY ChangingStep
  <1>2. req[c].expected = head /\ Row(head)' = row
    BY <1>1, ChangingStep, HeadAfter
  <1>. QED
    BY <1>1, <1>2 DEF Appends

LEMMA StepIsNotStale ==
  ASSUME IInv, [Next]_vars
  PROVE  StaleIsNotAccepted
  <1>. SUFFICES ASSUME NEW c \in Clients, req'[c].pc = "answered", req[c].pc # "answered",
                       req'[c].answer.status = "stale", Stored(c) # None
                PROVE  FALSE
    BY DEF StaleIsNotAccepted
  <1>0. DOMAIN req = Clients
    BY DEF IInv, RequestsInv
  <1>1. ASSUME NEW d \in Clients, NEW a, req' = Answered(d, a), a.status # "stale" PROVE FALSE
    <2>1. req'[d].answer = a \/ d # c
      BY <1>0, <1>1 DEF Answered, IInv, RequestsInv, RequestOk, RequestType
    <2>2. d # c => req'[c] = req[c]
      BY <1>0, <1>1 DEF Answered
    <2>. QED
      BY <1>1, <2>1, <2>2
  <1>2. ASSUME NEW d \in Clients, NEW fp PROVE Replay(d, fp).status # "stale"
    BY DEF Replay, Ok, Error
  <1>3. ASSUME NEW d \in Clients, NEW q, q.pc # "answered", req' = [req EXCEPT ![d] = q] PROVE FALSE
    BY <1>0, <1>3
  <1>4. ASSUME NEW d \in Clients, Submit(d) PROVE FALSE
    <2>1. PICK body \in Bodies, k \in IdemKeys, g \in 0..head : Sends(d, body, k, g)
      BY <1>4 DEF Submit
    <2>. DEFINE q == [NoRequest EXCEPT !.pc = "lookup", !.body = body, !.key = k,
                                       !.expected = g, !.tries = req[d].tries + 1]
    <2>2. q.pc = "lookup" /\ req' = [req EXCEPT ![d] = q]
      BY <2>1 DEF Sends, NoRequest
    <2>. HIDE DEF q
    <2>. QED
      BY <1>3, <2>2
  <1>5. ASSUME NEW d \in Clients, Retry(d) PROVE FALSE
    <2>. DEFINE q == [req[d] EXCEPT !.pc = "lookup", !.tries = @ + 1, !.loaded = None]
    <2>1. req[d] \in RequestType
      BY DEF IInv, RequestsInv, RequestOk
    <2>2. q.pc = "lookup" /\ req' = [req EXCEPT ![d] = q]
      BY <1>0, <1>5, <2>1 DEF Retry, RequestType
    <2>. HIDE DEF q
    <2>. QED
      BY <1>3, <2>2
  <1>6. ASSUME NEW d \in Clients, Lookup(d) PROVE FALSE
    <2>. DEFINE secret == req[d].body.domain = "secret"
                fp == [value |-> req[d].body.value, key |-> IF secret THEN masterKey ELSE None]
                loaded == IF secret THEN masterKey ELSE None
                q == [req[d] EXCEPT !.pc = "write", !.loaded = loaded]
    <2>1. \/ req' = Answered(d, Error("store_unavailable"))
          \/ req' = Answered(d, Replay(d, fp))
          \/ req' = [req EXCEPT ![d] = q]
      BY <1>0, <1>6 DEF Lookup
    <2>2. req[d] \in RequestType
      BY DEF IInv, RequestsInv, RequestOk
    <2>. HIDE DEF loaded
    <2>3. q.pc = "write"
      BY <2>2 DEF RequestType
    <2>. HIDE DEF q, fp
    <2>4. Error("store_unavailable").status # "stale"
      BY DEF Error
    <2>. QED
      BY <1>1, <1>2, <1>3, <2>1, <2>3, <2>4
  <1>7. ASSUME NEW d \in Clients, Write(d) PROVE FALSE
    <2>1. CASE d = c
      <3>1. req' = Answered(c, Replay(c, Fingerprint(c)))
        BY <1>7, <2>1, WriteOutcomes
      <3>. QED
        BY <1>1, <1>2, <3>1
    <2>2. CASE d # c
      <3>1. \E a : req' = Answered(d, a)
        BY <1>7, WriteOutcomes DEF Refuse, Commit, Appends
      <3>. QED
        BY <1>0, <2>2, <3>1 DEF Answered
    <2>. QED
      BY <2>1, <2>2
  <1>8. ASSUME NEW d \in Clients, WriteFails(d) PROVE FALSE
    <2>1. Error("store_unavailable").status # "stale"
      BY DEF Error
    <2>. QED
      BY <1>1, <1>8, <2>1 DEF WriteFails
  <1>9. CASE Stop
    <2>1. req'[c] = IF req[c].pc \in {"lookup", "write"} THEN [req[c] EXCEPT !.pc = "lost"] ELSE req[c]
      BY <1>9 DEF Stop
    <2>2. req[c] \in RequestType
      BY DEF IInv, RequestsInv, RequestOk
    <2>. QED
      BY <2>1, <2>2 DEF RequestType
  <1>10. CASE UNCHANGED req
    BY <1>10
  <1>. QED
    BY <1>4, <1>5, <1>6, <1>7, <1>8, <1>9, <1>10
       DEF Next, vars, Bootstrap, BootstrapFails, Adopt, AdoptFails, Recover, KeyFileChanges, EnvironmentChanges

\* No edit is lost, for any number of clients and generations: a generation accepted from a client
\* extends the one it named and changes only the domain it asked for, and a request whose identity is
\* on record is never refused as stale (mutate).
THEOREM Edits == Spec => NoLostEdit
  <1>1. IInv /\ IInv' /\ [Next]_vars => [ExtendsWhatItNamed /\ StaleIsNotAccepted]_vars
    BY StepExtends, StepIsNotStale
  <1>. QED
    BY <1>1, Invariance, PTL DEF Spec, NoLostEdit

LEMMA StepKeepsStartable ==
  ASSUME IInv, IInv', [Next]_vars, NEW c \in Clients, gens' # gens, req'[c] # req[c],
         req[c].loaded \in {None, masterKey}, proc.deployed = deployed, Startable
  PROVE  Startable'
  <1>1. PICK row \in RowType : Appends(c, row)
    BY ChangingStep
  <1>2. Row(head)' = row /\ UNCHANGED <<masterKey, deployed>>
    BY <1>1, ChangingStep, HeadAfter DEF Write
  <1>3. RowStarts(row, versions')
    BY <1>1 DEF Appends
  <1>4. StoreInv'
    BY DEF IInv
  <1>5. HistoryIsValid'
    BY <1>4 DEF StoreInv, VersionsAreReferenced, HistoryIsValid
  <1>6. Binding(head)' = row.secret /\ (Row(head)').overrides \in Admissible
    BY <1>2, <1>3 DEF Binding, RowStarts
  <1>7. SecretResolves(head, deployed)'
    BY <1>2, <1>3, <1>5, <1>6 DEF RowStarts, SecretResolves, Decrypts
  <1>. QED
    BY <1>5, <1>6, <1>7 DEF Startable

\* Whatever is configured, a head that the next startup could resolve and validate stays so through
\* every mutation that loaded the key the file still holds (the checks of mutate before it commits).
THEOREM Startability == Spec => MutationsKeepHeadStartable
  <1>. DEFINE A == \A c \in Clients :
                     (/\ gens' # gens /\ req'[c] # req[c]
                      /\ req[c].loaded \in {None, masterKey}
                      /\ proc.deployed = deployed
                      /\ Startable) => Startable'
  <1>1. IInv /\ IInv' /\ [Next]_vars => [A]_vars
    BY StepKeepsStartable
  <1>2. MutationsKeepHeadStartable <=> [][A]_vars
    BY DEF MutationsKeepHeadStartable
  <1>. HIDE DEF A
  <1>. QED
    BY <1>1, <1>2, Invariance, PTL DEF Spec

-----------------------------------------------------------------------------
(* The API implements SettingsContract *)

RecordIs  == [i \in Accepted |-> [value  |-> idem[i].fingerprint.value,
                                  answer |-> Ok(idem[i].gen, idem[i].changed)]]
RequestIs == [c \in Clients |-> [body |-> req[c].body, key |-> req[c].key, expected |-> req[c].expected]]
WaitingIs == {c \in Clients : req[c].pc \in {"lookup", "write"}}
AnswerIs  == [c \in Clients |-> req[c].answer]

\* What the clients see.
Sight == <<Config, head, RecordIs, RequestIs, WaitingIs, AnswerIs>>

Seen == Contract!Next \/ UNCHANGED Sight

SameConfig == Config' = Config /\ head' = head /\ RecordIs' = RecordIs

\* One request moves.
LEMMA OneRequestIsSeen ==
  ASSUME IInv, NEW c \in Clients, NEW q, req' = [req EXCEPT ![c] = q]
  PROVE  /\ RequestIs' = [RequestIs EXCEPT ![c] = [body |-> q.body, key |-> q.key, expected |-> q.expected]]
         /\ WaitingIs' = IF q.pc \in {"lookup", "write"} THEN WaitingIs \cup {c} ELSE WaitingIs \ {c}
         /\ AnswerIs' = [AnswerIs EXCEPT ![c] = q.answer]
  <1>1. req'[c] = q /\ \A d \in Clients : d # c => req'[d] = req[d]
    BY DEF IInv, RequestsInv
  <1>2. RequestIs' = [RequestIs EXCEPT ![c] = [body |-> q.body, key |-> q.key, expected |-> q.expected]]
    BY <1>1 DEF RequestIs
  <1>3. WaitingIs' = IF q.pc \in {"lookup", "write"} THEN WaitingIs \cup {c} ELSE WaitingIs \ {c}
    BY <1>1 DEF WaitingIs
  <1>4. AnswerIs' = [AnswerIs EXCEPT ![c] = q.answer]
    <2>1. AnswerIs' = [d \in Clients |-> req'[d].answer]
      BY DEF AnswerIs
    <2>2. \A d \in Clients : req'[d].answer = IF d = c THEN q.answer ELSE AnswerIs[d]
      BY <1>1 DEF AnswerIs
    <2>3. DOMAIN AnswerIs = Clients /\ AnswerIs = [d \in Clients |-> AnswerIs[d]]
      BY DEF AnswerIs
    <2>. QED
      BY <2>1, <2>2, <2>3
  <1>. QED
    BY <1>2, <1>3, <1>4

\* A request that is answered: it stays the same request, and no longer waits.
LEMMA AnswerIsSeen ==
  ASSUME IInv, NEW c \in Clients, NEW a \in Answers, req' = Answered(c, a)
  PROVE  /\ RequestIs' = RequestIs
         /\ WaitingIs' = WaitingIs \ {c}
         /\ AnswerIs' = [AnswerIs EXCEPT ![c] = a]
  <1>. DEFINE q == [req[c] EXCEPT !.pc = "answered", !.answer = a]
  <1>1. req' = [req EXCEPT ![c] = q] /\ req[c] \in RequestType
    BY DEF Answered, IInv, RequestsInv, RequestOk
  <1>2. /\ q.pc = "answered" /\ q.answer = a
        /\ q.body = req[c].body /\ q.key = req[c].key /\ q.expected = req[c].expected
    BY <1>1 DEF RequestType
  <1>. HIDE DEF q
  <1>3. /\ RequestIs' = [RequestIs EXCEPT ![c] = [body |-> q.body, key |-> q.key, expected |-> q.expected]]
        /\ WaitingIs' = IF q.pc \in {"lookup", "write"} THEN WaitingIs \cup {c} ELSE WaitingIs \ {c}
        /\ AnswerIs' = [AnswerIs EXCEPT ![c] = q.answer]
    BY <1>1, OneRequestIsSeen
  <1>4. [RequestIs EXCEPT ![c] = [body |-> q.body, key |-> q.key, expected |-> q.expected]] = RequestIs
    BY <1>2 DEF RequestIs
  <1>. QED
    BY <1>2, <1>3, <1>4

LEMMA SameStore == ASSUME UNCHANGED store PROVE SameConfig
  BY DEF store, SameConfig, Config, ConfigOf, Row, head, RecordIs, Accepted

LEMMA NothingIsSeen == ASSUME SameConfig, UNCHANGED req PROVE Seen
  BY DEF SameConfig, Seen, Sight, RequestIs, WaitingIs, AnswerIs

\* The contract sees the identity of a request on its way, and whether it was accepted.
LEMMA IdentityIsSeen ==
  ASSUME IInv, NEW c \in Clients, req[c].pc \in {"lookup", "write"}
  PROVE  /\ c \in WaitingIs
         /\ By(c) \in Domains \X IdemKeys
         /\ Contract!Body(c) = req[c].body /\ Contract!By(c) = By(c)
         /\ RequestIs[c].expected = req[c].expected
         /\ By(c) \in DOMAIN RecordIs <=> Stored(c) # None
  <1>1. req[c].body \in Bodies /\ req[c].key \in IdemKeys
    BY DEF IInv, RequestsInv, RequestOk
  <1>2. By(c) \in Domains \X IdemKeys
    BY <1>1 DEF By, Bodies, Domains
  <1>3. Contract!Body(c) = req[c].body /\ Contract!By(c) = By(c)
    BY DEF Contract!Body, Contract!By, By
  <1>4. RequestIs[c].expected = req[c].expected /\ c \in WaitingIs
    BY DEF RequestIs, WaitingIs
  <1>5. By(c) \in DOMAIN RecordIs <=> Stored(c) # None
    BY <1>2 DEF RecordIs, Accepted, Stored
  <1>. QED
    BY <1>2, <1>3, <1>4, <1>5

\* A refusal of a request on its way, for a reason that holds.
LEMMA RefusalIsSeen ==
  ASSUME IInv, NEW c \in Clients, req[c].pc \in {"lookup", "write"}, SameConfig,
         NEW code, req' = Answered(c, Error(code)),
         \/ code = "store_unavailable"
         \/ code = "conflict" /\ Stored(c) # None
         \/ code = "stale" /\ Stored(c) = None /\ req[c].expected # head
         \/ code \in Reasons /\ Stored(c) = None /\ req[c].expected = head
  PROVE  Seen
  <1>. DEFINE a == [status |-> code, gen |-> None, changed |-> FALSE]
  <1>1. a \in Answers /\ Error(code) = a
    BY DEF Answers, Codes, Reasons, Error
  <1>2. /\ RequestIs' = RequestIs /\ WaitingIs' = WaitingIs \ {c}
        /\ AnswerIs' = [AnswerIs EXCEPT ![c] = a]
    BY <1>1, AnswerIsSeen
  <1>3. code \in Contract!Reasons(c)
    BY IdentityIsSeen DEF Contract!Reasons, Reasons, RecordIs, RequestIs
  <1>4. Contract!Gets(c, a)
    BY <1>2 DEF Contract!Gets, RequestIs, WaitingIs, AnswerIs
  <1>5. Contract!Refuse(c)
    BY <1>3, <1>4 DEF Contract!Refuse, SameConfig, Config, RecordIs
  <1>. QED
    BY <1>5, IdentityIsSeen DEF Seen, Contract!Next, WaitingIs

\* An answer from the record.
LEMMA ReplayIsSeen ==
  ASSUME IInv, NEW c \in Clients, req[c].pc \in {"lookup", "write"}, SameConfig,
         NEW fp, fp.value = req[c].body.value, Stored(c) # None, req' = Answered(c, Replay(c, fp))
  PROVE  Seen
  <1>1. CASE Stored(c).fingerprint # fp
    <2>1. req' = Answered(c, Error("conflict"))
      BY <1>1 DEF Replay
    <2>. QED
      BY <2>1, RefusalIsSeen
  <1>2. CASE Stored(c).fingerprint = fp
    <2>. DEFINE a == Ok(Stored(c).gen, Stored(c).changed)
    <2>1. By(c) \in DOMAIN RecordIs /\ Contract!By(c) = By(c) /\ Contract!Body(c) = req[c].body
          /\ c \in WaitingIs /\ By(c) \in Domains \X IdemKeys
      BY IdentityIsSeen
    <2>2. a \in Answers
      <3>1. Stored(c) \in IdemRow
        BY <2>1 DEF Stored, IInv, IdemInv
      <3>. QED
        BY <3>1 DEF Answers, Codes, Ok, IdemRow
    <2>3. RecordIs[By(c)].value = Contract!Body(c).value /\ RecordIs[By(c)].answer = a
      BY <1>2, <2>1 DEF RecordIs, Stored
    <2>4. /\ RequestIs' = RequestIs /\ WaitingIs' = WaitingIs \ {c}
          /\ AnswerIs' = [AnswerIs EXCEPT ![c] = a]
      BY <1>2, <2>2, AnswerIsSeen DEF Replay
    <2>. HIDE DEF a
    <2>5. Contract!Gets(c, RecordIs[Contract!By(c)].answer)
      <3>1. AnswerIs' = [AnswerIs EXCEPT ![c] = RecordIs[Contract!By(c)].answer]
        BY <2>1, <2>3, <2>4
      <3>. QED
        BY <2>4, <3>1 DEF Contract!Gets, RequestIs, WaitingIs, AnswerIs
    <2>6. Contract!Repeat(c)
      <3>1. /\ Contract!By(c) \in DOMAIN RecordIs
            /\ RecordIs[Contract!By(c)].value = Contract!Body(c).value
            /\ Contract!Gets(c, RecordIs[Contract!By(c)].answer)
        BY ONLY <2>1, <2>3, <2>5
      <3>2. UNCHANGED <<Config, head, RecordIs>>
        BY DEF SameConfig
      <3>. QED
        BY ONLY <3>1, <3>2 DEF Contract!Repeat, Config, RecordIs
    <2>. QED
      BY <2>1, <2>6 DEF Seen, Contract!Next, WaitingIs
  <1>. QED
    BY <1>1, <1>2

\* A transaction that commits: the request is applied, recorded and answered at once.
LEMMA AcceptIsSeen ==
  ASSUME IInv, IInv', NEW c \in Clients, req[c].pc = "write", Stored(c) = None, req[c].expected = head,
         Commit(c, gens', versions'),
         Config' = [Config EXCEPT ![req[c].body.domain] = req[c].body.value],
         head' = IF Config' = Config THEN head ELSE head + 1, gens' # gens <=> head' # head
  PROVE  Seen
  <1>. DEFINE a == Ok(head', head' # head)
              new == [value |-> req[c].body.value, answer |-> a]
  <1>1. /\ By(c) \notin DOMAIN RecordIs /\ Contract!By(c) = By(c) /\ Contract!Body(c) = req[c].body
        /\ c \in WaitingIs /\ By(c) \in Domains \X IdemKeys /\ RequestIs[c].expected = head
    BY IdentityIsSeen
  <1>2. head' \in Nat /\ head \in Nat
    BY Heads DEF IInv
  <1>3. a \in Answers /\ a.status = "ok"
    BY <1>2 DEF Answers, Codes, Ok
  <1>4. /\ idem' = [idem EXCEPT ![By(c)] =
                      [fingerprint |-> Fingerprint(c), gen |-> head', changed |-> head' # head]]
        /\ req' = Answered(c, a)
    BY DEF Commit, head
  <1>5. /\ idem'[By(c)] = [fingerprint |-> Fingerprint(c), gen |-> head', changed |-> head' # head]
        /\ \A i \in Domains \X IdemKeys : i # By(c) => idem'[i] = idem[i]
        /\ Fingerprint(c).value = req[c].body.value
        /\ idem'[By(c)] # None
    BY <1>1, <1>2, <1>4, RecordIsRow DEF IInv, IdemInv
  <1>6. Accepted' = Accepted \cup {By(c)}
    BY <1>1, <1>5 DEF Accepted
  <1>7. RecordIs' = [i \in DOMAIN RecordIs \cup {By(c)} |-> IF i = By(c) THEN new ELSE RecordIs[i]]
    <2>1. RecordIs' = [i \in Accepted' |-> [value  |-> idem'[i].fingerprint.value,
                                            answer |-> Ok(idem'[i].gen, idem'[i].changed)]]
      BY DEF RecordIs
    <2>2. /\ DOMAIN RecordIs = Accepted /\ By(c) \notin Accepted
          /\ \A i \in Accepted : /\ i \in Domains \X IdemKeys
                                 /\ RecordIs[i] = [value  |-> idem[i].fingerprint.value,
                                                   answer |-> Ok(idem[i].gen, idem[i].changed)]
      BY <1>1 DEF RecordIs, Accepted
    <2>3. new = [value |-> idem'[By(c)].fingerprint.value, answer |-> Ok(idem'[By(c)].gen, idem'[By(c)].changed)]
      BY <1>5
    <2>4. ASSUME NEW i \in Accepted
          PROVE  RecordIs[i] = [value |-> idem'[i].fingerprint.value, answer |-> Ok(idem'[i].gen, idem'[i].changed)]
      BY <1>5, <2>2
    <2>. HIDE DEF new
    <2>. QED
      BY <1>6, <2>1, <2>2, <2>3, <2>4
  <1>8. /\ RequestIs' = RequestIs /\ WaitingIs' = WaitingIs \ {c}
        /\ AnswerIs' = [AnswerIs EXCEPT ![c] = a]
    <2>. HIDE DEF a
    <2>. QED
      BY <1>3, <1>4, AnswerIsSeen
  <1>9. Contract!Gets(c, Contract!Ok(head', head' # head))
    BY <1>8 DEF Contract!Gets, Contract!Ok, Ok, RequestIs, WaitingIs, AnswerIs
  <1>10. Contract!Accept(c)
    <2>1. Contract!By(c) \notin DOMAIN RecordIs /\ RequestIs[c].expected = head
      BY <1>1
    <2>2. Config' = [Config EXCEPT ![Contract!Body(c).domain] = Contract!Body(c).value]
      BY <1>1
    <2>3. RecordIs' = [i \in DOMAIN RecordIs \cup {Contract!By(c)} |->
                         IF i = Contract!By(c)
                           THEN [value |-> Contract!Body(c).value, answer |-> Contract!Ok(head', head' # head)]
                           ELSE RecordIs[i]]
      BY <1>1, <1>7 DEF Contract!Ok, Ok
    <2>. QED
      BY <1>9, <2>1, <2>2, <2>3 DEF Contract!Accept, Config, RecordIs, RequestIs
  <1>. QED
    BY <1>1, <1>10 DEF Seen, Contract!Next, WaitingIs

LEMMA SubmitSeen ==
  ASSUME IInv, NEW c \in Clients, Submit(c)
  PROVE  Seen
  <1>1. PICK body \in Bodies, k \in IdemKeys, g \in 0..head : Sends(c, body, k, g)
    BY DEF Submit
  <1>. DEFINE q == [NoRequest EXCEPT !.pc = "lookup", !.body = body, !.key = k,
                                     !.expected = g, !.tries = req[c].tries + 1]
  <1>2. req' = [req EXCEPT ![c] = q] /\ SameConfig /\ c \notin WaitingIs
    BY <1>1, SameStore DEF Sends, Submit, WaitingIs
  <1>3. q.pc = "lookup" /\ q.body = body /\ q.key = k /\ q.expected = g /\ q.answer = None
    BY DEF NoRequest
  <1>. HIDE DEF q
  <1>4. /\ RequestIs' = [RequestIs EXCEPT ![c] = [body |-> body, key |-> k, expected |-> g]]
        /\ WaitingIs' = WaitingIs \cup {c}
        /\ AnswerIs' = [AnswerIs EXCEPT ![c] = None]
    BY <1>2, <1>3, OneRequestIsSeen
  <1>5. \E b \in Bodies, j \in IdemKeys, h \in 0..head :
          RequestIs' = [RequestIs EXCEPT ![c] = [body |-> b, key |-> j, expected |-> h]]
    BY <1>1, <1>4
  <1>6. Contract!Ask(c)
    BY <1>2, <1>4, <1>5 DEF Contract!Ask, SameConfig, Config, RecordIs, RequestIs, WaitingIs, AnswerIs
  <1>. QED
    BY <1>6 DEF Seen, Contract!Next

LEMMA RetrySeen ==
  ASSUME IInv, NEW c \in Clients, Retry(c)
  PROVE  Seen
  <1>. DEFINE q == [req[c] EXCEPT !.pc = "lookup", !.tries = @ + 1, !.loaded = None]
  <1>1. req[c] \in RequestType /\ req[c].body \in Bodies
    BY DEF Retry, IInv, RequestsInv, RequestOk
  <1>2. req' = [req EXCEPT ![c] = q] /\ SameConfig /\ c \notin WaitingIs
    BY <1>1, SameStore DEF Retry, WaitingIs, RequestType, IInv, RequestsInv
  <1>3. /\ q.pc = "lookup" /\ q.body = req[c].body /\ q.key = req[c].key /\ q.expected = req[c].expected
        /\ q.answer = req[c].answer
    BY <1>1 DEF RequestType
  <1>. HIDE DEF q
  <1>4. /\ RequestIs' = [RequestIs EXCEPT ![c] = [body |-> q.body, key |-> q.key, expected |-> q.expected]]
        /\ WaitingIs' = WaitingIs \cup {c}
        /\ AnswerIs' = [AnswerIs EXCEPT ![c] = q.answer]
    BY <1>2, <1>3, OneRequestIsSeen
  <1>5. RequestIs' = RequestIs /\ AnswerIs' = AnswerIs
    <2>1. [RequestIs EXCEPT ![c] = [body |-> q.body, key |-> q.key, expected |-> q.expected]] = RequestIs
      BY <1>3 DEF RequestIs
    <2>2. [AnswerIs EXCEPT ![c] = q.answer] = AnswerIs
      BY <1>3 DEF AnswerIs
    <2>. QED
      BY <1>4, <2>1, <2>2
  <1>6. Contract!AskAgain(c)
    <2>1. Contract!Body(c) \in Bodies
      BY <1>1 DEF Contract!Body
    <2>. QED
      BY <1>2, <1>4, <1>5, <2>1 DEF Contract!AskAgain, SameConfig, Config, RecordIs, RequestIs, WaitingIs, AnswerIs
  <1>. QED
    BY <1>6 DEF Seen, Contract!Next

\* The look before the transaction answers from the record, or is not seen.
LEMMA LookupSeen ==
  ASSUME IInv, NEW c \in Clients, Lookup(c)
  PROVE  Seen
  <1>. DEFINE secret == req[c].body.domain = "secret"
              loaded == IF secret THEN masterKey ELSE None
              fp == [value |-> req[c].body.value, key |-> loaded]
              q == [req[c] EXCEPT !.pc = "write", !.loaded = loaded]
  <1>1. req[c].pc = "lookup" /\ SameConfig /\ fp.value = req[c].body.value
    BY SameStore DEF Lookup
  <1>2. req[c] \in RequestType /\ DOMAIN req = Clients
    BY DEF IInv, RequestsInv, RequestOk
  <1>3. \/ req' = Answered(c, Error("store_unavailable"))
        \/ Stored(c) # None /\ req' = Answered(c, Replay(c, fp))
        \/ req' = [req EXCEPT ![c] = q]
    BY <1>2 DEF Lookup
  <1>4. CASE req' = Answered(c, Error("store_unavailable"))
    BY <1>1, <1>4, RefusalIsSeen
  <1>5. CASE Stored(c) # None /\ req' = Answered(c, Replay(c, fp))
    <2>. HIDE DEF fp
    <2>. QED
      BY <1>1, <1>5, ReplayIsSeen
  <1>6. CASE req' = [req EXCEPT ![c] = q]
    <2>. HIDE DEF loaded
    <2>1. /\ q.pc = "write" /\ q.body = req[c].body /\ q.key = req[c].key /\ q.expected = req[c].expected
          /\ q.answer = req[c].answer
      BY <1>2 DEF RequestType
    <2>. HIDE DEF q
    <2>2. /\ RequestIs' = [RequestIs EXCEPT ![c] = [body |-> q.body, key |-> q.key, expected |-> q.expected]]
          /\ WaitingIs' = WaitingIs \cup {c}
          /\ AnswerIs' = [AnswerIs EXCEPT ![c] = q.answer]
      BY <1>6, <2>1, OneRequestIsSeen
    <2>3. RequestIs' = RequestIs /\ AnswerIs' = AnswerIs /\ WaitingIs' = WaitingIs
      BY <1>1, <2>1, <2>2 DEF RequestIs, AnswerIs, WaitingIs
    <2>. QED
      BY <1>1, <2>3 DEF Seen, Sight, SameConfig
  <1>. QED
    BY <1>3, <1>4, <1>5, <1>6

LEMMA WriteSeen ==
  ASSUME IInv, IInv', NEW c \in Clients, Write(c)
  PROVE  Seen
  <1>1. req[c].pc = "write" /\ UNCHANGED effective
    BY DEF Write
  <1>2. ASSUME UNCHANGED <<gens, versions, idem>> PROVE SameConfig
    BY <1>1, <1>2 DEF SameConfig, Config, ConfigOf, Row, head, RecordIs, Accepted
  <1>3. CASE /\ Stored(c) # None
             /\ req' = Answered(c, Replay(c, Fingerprint(c)))
             /\ UNCHANGED <<gens, versions, idem>>
    <2>1. Fingerprint(c).value = req[c].body.value
      BY DEF Fingerprint
    <2>. QED
      BY <1>1, <1>2, <1>3, <2>1, ReplayIsSeen
  <1>4. CASE Stored(c) = None /\ req[c].expected # head /\ Refuse(c, "stale")
    BY <1>1, <1>2, <1>4, RefusalIsSeen DEF Refuse
  <1>5. ASSUME Stored(c) = None, req[c].expected = head, NEW code \in Reasons, Refuse(c, code)
        PROVE  Seen
    BY <1>1, <1>2, <1>5, RefusalIsSeen DEF Refuse
  <1>6. CASE Stored(c) = None /\ AsksForWhatIs(c) /\ Commit(c, gens, versions)
    <2>1. /\ gens' = gens /\ versions' = versions /\ head' = head /\ Config' = Config
          /\ Commit(c, gens', versions')
      BY <1>6 DEF Commit, Config, ConfigOf, Row, head
    <2>2. Config' = [Config EXCEPT ![req[c].body.domain] = req[c].body.value]
      BY <1>6, <2>1 DEF AsksForWhatIs, Config, ConfigOf
    <2>. QED
      BY <1>1, <1>6, <2>1, <2>2, AcceptIsSeen DEF AsksForWhatIs
  <1>7. ASSUME Stored(c) = None, req[c].expected = head, NEW row \in RowType, Appends(c, row)
        PROVE  Seen
    <2>1. Row(head)' = row
      BY <1>7, HeadAfter
    <2>2. Configures(c, row, versions') /\ Commit(c, gens', versions')
      BY <1>7 DEF Appends
    <2>3. Config' = ConfigOf(row, versions')
      BY <2>1 DEF Config, ConfigOf
    <2>4. head' = head + 1 /\ head \in Nat
      <3>1. /\ StoreInv /\ head < MaxGen /\ gens' = Append(gens, row)
            /\ row.secret # None => row.secret <= head + 1
        BY <1>7 DEF Appends, IInv
      <3>. QED
        BY <3>1, AppendedRows, Heads
    <2>5. head' # head /\ gens' # gens
      BY <2>4 DEF head
    <2>6. Config' # Config
      <3>1. req[c].body.domain \in Domains
        BY <1>1, WriterFacts DEF Domains
      <3>. QED
        BY <2>2, <2>3, <3>1 DEF Configures, Config, ConfigOf
    <2>. QED
      BY <1>1, <1>7, <2>2, <2>3, <2>4, <2>5, <2>6, AcceptIsSeen DEF Configures
  <1>. QED
    BY <1>3, <1>4, <1>5, <1>6, <1>7, WriteOutcomes

\* What the collection of secrets leaves of the version that the head binds.
LEMMA CollectionIsNotSeen ==
  ASSUME IInv, IInv', UNCHANGED <<gens, idem, req>>,
         \/ UNCHANGED versions
         \/ versions' = Gc(gens, versions, effective')
  PROVE  Seen
  <1>1. head' = head /\ Row(head)' = Row(head) /\ Binding(head)' = Binding(head)
    BY DEF head, Row, Binding
  <1>2. ASSUME Binding(head) # None PROVE versions'[Binding(head)] = versions[Binding(head)]
    <2>1. Binding(head) \in DOMAIN versions'
      BY <1>1, <1>2 DEF IInv, StoreInv, VersionsAreReferenced
    <2>2. CASE versions' = Gc(gens, versions, effective')
      BY <2>1, <2>2 DEF Gc
    <2>. QED
      BY <2>2
  <1>3. Config' = Config
    <2>1. Config' = ConfigOf(Row(head), versions')
      BY <1>1 DEF Config, ConfigOf
    <2>. QED
      BY <1>2, <2>1 DEF Config, ConfigOf, Binding
  <1>4. RecordIs' = RecordIs
    BY DEF RecordIs, Accepted
  <1>. QED
    BY <1>1, <1>3, <1>4, NothingIsSeen DEF SameConfig

LEMMA StopSeen == ASSUME IInv, Stop PROVE Seen
  <1>1. /\ SameConfig
        /\ req' = [c \in Clients |-> IF req[c].pc \in {"lookup", "write"}
                                     THEN [req[c] EXCEPT !.pc = "lost"] ELSE req[c]]
    BY SameStore DEF Stop
  <1>2. ASSUME NEW c \in Clients
        PROVE  /\ req'[c].body = req[c].body /\ req'[c].key = req[c].key
               /\ req'[c].expected = req[c].expected /\ req'[c].answer = req[c].answer
               /\ req'[c].pc \notin {"lookup", "write"}
    <2>1. req[c] \in RequestType
      BY DEF IInv, RequestsInv, RequestOk
    <2>2. req'[c] = IF req[c].pc \in {"lookup", "write"} THEN [req[c] EXCEPT !.pc = "lost"] ELSE req[c]
      BY <1>1
    <2>. QED
      BY <2>1, <2>2 DEF RequestType
  <1>3. RequestIs' = RequestIs /\ AnswerIs' = AnswerIs /\ WaitingIs' = {}
    BY <1>2 DEF RequestIs, AnswerIs, WaitingIs
  <1>4. Contract!Lose
    BY <1>1, <1>3 DEF Contract!Lose, SameConfig, Config, RecordIs, RequestIs, WaitingIs, AnswerIs
  <1>. QED
    BY <1>4 DEF Seen, Contract!Next

LEMMA RecoverSeen == ASSUME IInv, Recover PROVE Seen
  <1>. DEFINE row == NewRow(Row(head).overrides, None, None)
  <1>1. /\ head < MaxGen /\ Binding(head) # None /\ gens' = Append(gens, row) /\ UNCHANGED <<idem, req>>
    BY DEF Recover
  <1>2. Row(head).overrides \in Overrides
    <2>1. Row(head) \in RowType
      BY Heads DEF IInv
    <2>. QED
      BY <2>1 DEF RowType
  <1>3. row \in RowType /\ row.secret = None /\ row.overrides = Row(head).overrides
    BY <1>2, NewRowType DEF IInv
  <1>. HIDE DEF row
  <1>4. head' = head + 1 /\ Row(head)' = row
    <2>1. head' = head + 1 /\ gens'[head' + 1] = row
      BY <1>1, <1>3, AppendedRows DEF IInv
    <2>. QED
      BY <2>1 DEF Row
  <1>5. Config' = [Config EXCEPT !["secret"] = None]
    <2>1. Config' = ConfigOf(row, versions')
      BY <1>4 DEF Config, ConfigOf
    <2>. QED
      BY <1>3, <2>1 DEF Config, ConfigOf, Domains, Ordinary
  <1>6. Config["secret"] # None
    BY <1>1, BoundSecret
  <1>7. RecordIs' = RecordIs /\ RequestIs' = RequestIs /\ WaitingIs' = WaitingIs /\ AnswerIs' = AnswerIs
    BY <1>1 DEF RecordIs, Accepted, RequestIs, WaitingIs, AnswerIs
  <1>8. Contract!Clear
    BY <1>4, <1>5, <1>6, <1>7 DEF Contract!Clear, Config, RecordIs, RequestIs, WaitingIs, AnswerIs
  <1>. QED
    BY <1>8 DEF Seen, Contract!Next

LEMMA StepSeen == IInv /\ IInv' /\ [Next]_vars => Seen
  <1>. SUFFICES ASSUME IInv, IInv', [Next]_vars PROVE Seen
    OBVIOUS
  <1>1. ASSUME NEW c \in Clients, Submit(c) \/ Retry(c) \/ Lookup(c) \/ Write(c) \/ WriteFails(c)
        PROVE  Seen
    <2>1. CASE WriteFails(c)
      <3>1. SameConfig
        BY <2>1, SameStore DEF WriteFails
      <3>. QED
        BY <2>1, <3>1, RefusalIsSeen DEF WriteFails
    <2>. QED
      BY <1>1, <2>1, SubmitSeen, RetrySeen, LookupSeen, WriteSeen
  <1>2. CASE Bootstrap \/ KeyFileChanges \/ EnvironmentChanges \/ UNCHANGED vars
    <2>1. UNCHANGED store /\ UNCHANGED req
      BY <1>2 DEF Bootstrap, KeyFileChanges, EnvironmentChanges, vars, store
    <2>. QED
      BY <2>1, SameStore, NothingIsSeen
  <1>3. CASE BootstrapFails \/ AdoptFails
    BY <1>3, CollectionIsNotSeen DEF BootstrapFails, AdoptFails, Activation
  <1>4. CASE Adopt
    BY <1>4, CollectionIsNotSeen DEF Adopt, Activation
  <1>. QED
    BY <1>1, <1>2, <1>3, <1>4, StopSeen, RecoverSeen DEF Next

LEMMA ContractInit == Init => Contract!Init
  <1>. SUFFICES ASSUME Init PROVE Contract!Init
    OBVIOUS
  <1>1. head = 0 /\ Row(head) = Root
    BY DEF Init, head, Row
  <1>2. Config = [d \in Domains |-> None]
    BY <1>1 DEF Config, ConfigOf, Root, NoOverrides
  <1>3. Accepted = {}
    BY DEF Init, Accepted
  <1>4. RecordIs = [i \in {} |-> None]
    BY <1>3 DEF RecordIs
  <1>5. \A c \in Clients : req[c] = NoRequest
    BY DEF Init
  <1>6. /\ RequestIs = [c \in Clients |-> [body |-> None, key |-> None, expected |-> None]]
        /\ WaitingIs = {} /\ AnswerIs = [c \in Clients |-> None]
    BY <1>5 DEF RequestIs, WaitingIs, AnswerIs, NoRequest
  <1>. QED
    BY <1>1, <1>2, <1>4, <1>6 DEF Contract!Init, Config, RecordIs, RequestIs, WaitingIs, AnswerIs

\* For any number of clients, identities, values and generations, and whatever is raced, retried, lost
\* or collected: every step of the settings service, of the recovery tool and of the operator is a step
\* of the contract, or is not seen in it (mutate, replay, adopt, gc_secret_versions, secret_recovery).
THEOREM Implementation == Spec => ImplementsContract
  <1>1. Init => Contract!Init
    BY ContractInit
  <1>2. IInv /\ IInv' /\ [Next]_vars => [Contract!Next]_Contract!vars
    BY StepSeen DEF Seen, Sight, Contract!vars, Config, RecordIs, RequestIs, WaitingIs, AnswerIs
  <1>. QED
    BY <1>1, <1>2, Invariance, PTL DEF Spec, ImplementsContract, Contract!Spec
=============================================================================
