------------------------ MODULE SensorTransportProofs ------------------------
(***************************************************************************)
(* Proofs about SensorTransport.  Events are numbered as they are          *)
(* submitted, and whatever waits in memory was submitted after everything  *)
(* in the table: so each write continues the order of the table, and an    *)
(* event is in one place at a time.  The table only changes by losing rows *)
(* (purge, eviction, acknowledgement), which keeps the memo of the next    *)
(* expiry sound, or by rows it has taken note of.                          *)
(***************************************************************************)
EXTENDS SensorTransport, NaturalsInduction, WellFoundedInduction, FiniteSetTheorems,
        SequenceTheorems, TLAPS

-----------------------------------------------------------------------------
(* The invariant *)

RowType == [seq : Nat, ev : Nat, obs : Int]

SpoolType == [rows : SUBSET RowType, seq : Nat, memo : Int, blocked : BOOLEAN]

\* A table with the sequence seq of events that are among evs.
RowsOk(rows, seq, evs) ==
    /\ IsFiniteSet(rows) /\ Cardinality(rows) <= MaxEvents
    /\ \A r \in rows : r.ev \in evs /\ r.seq \in 1..seq
    /\ \A r \in rows : Expiry(r) \in Nat /\ Expiry(r) >= TTL - Lag /\ Expiry(r) <= Empty
    /\ \A q, r \in rows : q.ev < r.ev => q.seq < r.seq
    /\ \A q, r \in rows : q.ev = r.ev => q = r

MemoOk(memo, rows) ==
    memo # Unknown =>
       Gate /\ memo \in (TTL - Lag)..Empty /\ \A r \in rows : memo <= Expiry(r)

SpoolOk(s, evs) == s \in SpoolType /\ RowsOk(s.rows, s.seq, evs) /\ MemoOk(s.memo, s.rows)

CoalescerType ==
    [pend : Seq(Nat), bytes : Nat, oldest : Nat, disabled : BOOLEAN,
     failed : BOOLEAN, stop : BOOLEAN, closing : BOOLEAN,
     timer : {"off", "ready", "asleep", "timed", "done"}, cur : Nat, at : Nat,
     by : Threads \cup {"none", "handler", "timer"}, job : Seq(Nat),
     result : {"none", "clean", "unclean"}]

Elements(q) == {q[i] : i \in DOMAIN q}
Ascends(q) == \A i, j \in DOMAIN q : i < j => q[i] < q[j]

\* The events in the coalescer's hands.
InMemory(k) == Elements(k.pend) \cup Elements(k.job) \cup ({k.cur} \ {0})

\* The coalescer: a window waits only while nothing is being written, the event being submitted is
\* the newest one, and nothing is submitted any more once it is closing.
CoalescerOk(k) ==
    /\ k \in CoalescerType
    /\ k.pend # <<>> => Coalesce /\ ~k.disabled /\ k.job = <<>>
    /\ k.pend = <<>> => k.bytes = 0
    /\ Len(k.pend) < MaxPend /\ k.bytes <= MaxBytes
    /\ Ascends(k.pend) /\ Ascends(k.job)
    /\ k.cur # 0 => \A x \in Elements(k.pend) \cup Elements(k.job) : x < k.cur
    /\ k.closing => k.stop /\ k.cur = 0 /\ (k.job # <<>> => k.by = "timer")
    /\ k.result = "clean" =>
          /\ Coalesce /\ k.closing /\ ~k.failed
          /\ k.timer \in {"off", "done"} /\ k.pend = <<>> /\ k.job = <<>>

ClockInv ==
    /\ now \in 0..MaxTime
    /\ \E n \in Nat : DOMAIN born = 1..n
    /\ DOMAIN born \subseteq Events
    /\ \A e \in DOMAIN born : born[e] \in Int /\ born[e] >= 0 - Lag /\ born[e] <= MaxTime
    /\ faults \in Nat /\ full \in BOOLEAN

\* What is in memory was submitted after all that is in the table.
MemoryInv ==
    /\ InMemory(c) \subseteq DOMAIN born
    /\ \A x \in InMemory(c), r \in sp.rows : r.ev < x

\* A batch in flight is known by its sequence numbers, which are not used again.
ProducerOk(p, s, server) ==
    /\ p \in [pc : {"idle", "post", "ack", "report"}, batch : SUBSET RowType, perm : BOOLEAN]
    /\ \A b \in p.batch : b.seq <= s.seq /\ \A r \in s.rows : r.seq = b.seq => r.ev = b.ev
    /\ p.pc = "ack" => Evs(p.batch) \subseteq server

LogType == [durable : SUBSET Nat, stale : SUBSET Nat, evicted : SUBSET Nat, server : SUBSET Nat,
            past : SUBSET Nat]

LogInv ==
    /\ log \in LogType
    /\ NothingVanishes
    /\ Coalesce /\ ~c.failed =>
          DOMAIN born \ log.past \subseteq log.durable \cup log.stale \cup InMemory(c)

IInv ==
    /\ ClockInv
    /\ SpoolOk(sp, DOMAIN born)
    /\ CoalescerOk(c)
    /\ MemoryInv
    /\ ProducerOk(d, sp, log.server)
    /\ LogInv

-----------------------------------------------------------------------------
(* The memo *)

LEMMA Limits ==
    /\ MaxEvents \in Nat /\ MaxPend \in Nat /\ MaxPend > 0 /\ MaxBytes \in Nat
    /\ TTL \in Nat /\ Lag \in Nat /\ MaxTime \in Nat /\ Window \in Nat /\ MaxFaults \in Nat
    /\ Gate \in BOOLEAN /\ Coalesce \in BOOLEAN
    /\ Unknown = 0 - 1 /\ Empty = MaxTime + TTL + 1
    /\ \A e \in Events : Size[e] \in Nat
  BY LimitsAssumption DEF Unknown, Empty

LEMMA MinOfSet ==
  ASSUME NEW S \in SUBSET Nat, S # {}
  PROVE  Min(S) \in S /\ \A y \in S : Min(S) <= y
  <1>. DEFINE R == {ss \in Nat \X Nat : ss[1] < ss[2]}
  <1>1. OpToRel(<, Nat) = R
    BY DEF OpToRel
  <1>2. PICK m \in S : \A x \in S : <<x, m>> \notin R
    <2>1. IsWellFoundedOn(R, Nat)
      BY <1>1, NatLessThanWellFounded
    <2>. HIDE DEF R
    <2>. QED
      BY <2>1, WFMin
  <1>3. ASSUME NEW x \in S PROVE m <= x
    <2>1. <<x, m>> \in Nat \X Nat /\ <<x, m>>[1] = x /\ <<x, m>>[2] = m
      OBVIOUS
    <2>. QED
      BY <1>2, <2>1
  <1>4. \E x \in S : \A y \in S : x =< y
    BY <1>3
  <1>. QED
    BY <1>4 DEF Min

\* _rebuild_stale_memo computes a sound memo.
LEMMA MemoIsSound ==
  ASSUME NEW rows \in SUBSET RowType,
         \A r \in rows : Expiry(r) \in Nat /\ Expiry(r) >= TTL - Lag /\ Expiry(r) <= Empty
  PROVE  /\ Memo(rows) \in (TTL - Lag)..Empty
         /\ Memo(rows) \in Nat
         /\ \A r \in rows : Memo(rows) <= Expiry(r)
  <1>1. CASE rows = {}
    BY <1>1, Limits DEF Memo
  <1>2. CASE rows # {}
    <2>. DEFINE S == {Expiry(r) : r \in rows}
    <2>1. S \in SUBSET Nat /\ S # {}
      BY <1>2
    <2>2. Min(S) \in S /\ \A y \in S : Min(S) <= y
      <3>. HIDE DEF S
      <3>. QED
        BY <2>1, MinOfSet
    <2>3. Memo(rows) = Min(S)
      BY <1>2 DEF Memo
    <2>. QED
      BY <2>1, <2>2, <2>3, Limits
  <1>. QED
    BY <1>1, <1>2

\* _note_new_insert keeps it sound for the rows it is told of.
LEMMA NoteIsSound ==
  ASSUME NEW rows \in SUBSET RowType, NEW new \in SUBSET RowType, NEW memo \in Int, MemoOk(memo, rows),
         \A r \in new : Expiry(r) \in Nat /\ Expiry(r) >= TTL - Lag /\ Expiry(r) <= Empty
  PROVE  Note(memo, new) \in Int /\ MemoOk(Note(memo, new), rows \cup new)
  <1>1. CASE ~Gate \/ memo = Unknown
    <2>1. Note(memo, new) = memo /\ memo = Unknown
      BY <1>1 DEF Note, MemoOk
    <2>. QED
      BY <2>1, Limits DEF MemoOk
  <1>2. CASE Gate /\ memo # Unknown
    <2>1. memo \in (TTL - Lag)..Empty /\ \A r \in rows : memo <= Expiry(r)
      BY <1>2 DEF MemoOk
    <2>2. /\ Memo(new) \in (TTL - Lag)..Empty /\ Memo(new) \in Nat
          /\ \A r \in new : Memo(new) <= Expiry(r)
      BY MemoIsSound
    <2>. DEFINE a == Memo(new)
                m == Min({memo, a})
    <2>3. m \in {memo, a} /\ m <= memo /\ m <= a
      <3>1. memo \in Int /\ a \in Int
        BY <2>2
      <3>. HIDE DEF a
      <3>2. \E x \in {memo, a} : \A y \in {memo, a} : x =< y
        BY <3>1
      <3>3. m \in {memo, a} /\ \A y \in {memo, a} : m =< y
        BY <3>2 DEF Min
      <3>. QED
        BY <3>3
    <2>4. \A r \in rows \cup new : m <= Expiry(r)
      <3>1. \A r \in rows : Expiry(r) \in Int
        BY Limits DEF Expiry, RowType
      <3>. QED
        BY <2>1, <2>2, <2>3, <3>1, Limits
    <2>5. Note(memo, new) = m
      BY <1>2 DEF Note
    <2>. QED
      BY <1>2, <2>1, <2>2, <2>3, <2>4, <2>5, Limits DEF MemoOk
  <1>. QED
    BY <1>1, <1>2

-----------------------------------------------------------------------------
(* The table *)

\* t is s with some rows less, or a change of the memo or of the mark that it is blocked.
Shrunk(s, t) == t \in SpoolType /\ t.rows \subseteq s.rows /\ t.seq = s.seq

LEMMA ShrunkIsOk ==
  ASSUME NEW evs, NEW s, SpoolOk(s, evs), NEW t, Shrunk(s, t), MemoOk(t.memo, t.rows)
  PROVE  SpoolOk(t, evs)
  <1>1. IsFiniteSet(t.rows) /\ Cardinality(t.rows) <= Cardinality(s.rows)
    BY FS_Subset DEF SpoolOk, RowsOk, Shrunk
  <1>2. Cardinality(t.rows) \in Nat /\ Cardinality(s.rows) \in Nat
    BY <1>1, FS_CardinalityType DEF SpoolOk, RowsOk
  <1>3. Cardinality(t.rows) <= MaxEvents
    BY <1>1, <1>2, Limits DEF SpoolOk, RowsOk
  <1>4. RowsOk(t.rows, t.seq, evs)
    BY <1>1, <1>3 DEF SpoolOk, RowsOk, Shrunk
  <1>. QED
    BY <1>4 DEF SpoolOk, Shrunk

\* A memo that is sound for a table is so for less of it.
LEMMA MemoOfLess ==
  ASSUME NEW memo, NEW rows, MemoOk(memo, rows), NEW less \in SUBSET rows
  PROVE  MemoOk(memo, less)
  BY DEF MemoOk

LEMMA Refreshed ==
  ASSUME NEW s \in SpoolType, NEW incoming \in Nat
  PROVE  LET t == Refresh(s, incoming)
         IN  /\ t \in SpoolType /\ t.rows = s.rows /\ t.seq = s.seq /\ t.memo = s.memo
             /\ ~t.blocked => ~s.blocked \/ Cardinality(s.rows) + incoming <= MaxEvents
  <1>. DEFINE b == s.blocked /\ ~(Cardinality(s.rows) + incoming <= MaxEvents /\ ~full)
  <1>1. Refresh(s, incoming) = [s EXCEPT !.blocked = b]
    BY DEF Refresh
  <1>2. b \in BOOLEAN
    OBVIOUS
  <1>3. ~b => ~s.blocked \/ Cardinality(s.rows) + incoming <= MaxEvents
    OBVIOUS
  <1>. HIDE DEF b
  <1>. QED
    BY <1>1, <1>2, <1>3 DEF SpoolType

LEMMA PurgeShrinks ==
  ASSUME NEW s \in SpoolType, NEW drain \in BOOLEAN
  PROVE  LET t == Purge(s, drain)
         IN  t \in SpoolType /\ t.rows \subseteq s.rows /\ t.seq = s.seq /\ t.memo = s.memo
  <1>. DEFINE gone == IF drain THEN Stale(s.rows) ELSE FirstByAge(Chunk, Stale(s.rows))
              u == [s EXCEPT !.rows = @ \ gone]
  <1>1. u \in SpoolType /\ u.rows \subseteq s.rows /\ u.seq = s.seq /\ u.memo = s.memo
    <2>. HIDE DEF gone
    <2>. QED
      BY DEF SpoolType
  <1>2. Purge(s, drain) = Refresh(u, 0)
    BY DEF Purge
  <1>. HIDE DEF u
  <1>. QED
    BY <1>1, <1>2, Refreshed

\* The memo spares a purge or is computed anew after it.
LEMMA PurgeKeeps ==
  ASSUME NEW evs, NEW s, SpoolOk(s, evs), NEW drain \in BOOLEAN
  PROVE  LET t == PurgeIfNeeded(s, drain)
         IN  Shrunk(s, t) /\ SpoolOk(t, evs)
  <1>1. s \in SpoolType /\ s.memo \in Int /\ s.rows \in SUBSET RowType
    BY DEF SpoolOk, SpoolType
  <1>2. \A r \in s.rows : Expiry(r) \in Nat /\ Expiry(r) >= TTL - Lag /\ Expiry(r) <= Empty
    BY DEF SpoolOk, RowsOk
  <1>. DEFINE memo == IF Gate /\ s.memo = Unknown THEN Memo(s.rows) ELSE s.memo
              t == [s EXCEPT !.memo = memo]
              u == Purge(t, drain)
              after == IF Gate THEN Memo(u.rows) ELSE u.memo
              v == [u EXCEPT !.memo = after]
  <1>3. memo \in Int /\ MemoOk(memo, s.rows)
    <2>1. CASE Gate /\ s.memo = Unknown
      <3>1. /\ memo = Memo(s.rows) /\ Memo(s.rows) \in (TTL - Lag)..Empty
            /\ \A r \in s.rows : Memo(s.rows) <= Expiry(r)
        BY <1>1, <1>2, <2>1, MemoIsSound
      <3>. QED
        BY <2>1, <3>1, Limits DEF MemoOk
    <2>2. CASE ~(Gate /\ s.memo = Unknown)
      BY <1>1, <2>2 DEF SpoolOk
    <2>. QED
      BY <2>1, <2>2
  <1>4. t \in SpoolType /\ t.rows = s.rows /\ t.seq = s.seq /\ t.memo = memo
    <2>. HIDE DEF memo
    <2>. QED
      BY <1>1, <1>3 DEF SpoolType
  <1>5. u \in SpoolType /\ u.rows \subseteq s.rows /\ u.seq = s.seq /\ u.memo = memo
    <2>. HIDE DEF t, memo
    <2>. QED
      BY <1>4, PurgeShrinks
  <1>6. after \in Int /\ MemoOk(after, u.rows)
    <2>1. CASE Gate
      <3>1. /\ after = Memo(u.rows) /\ Memo(u.rows) \in (TTL - Lag)..Empty
            /\ \A r \in u.rows : Memo(u.rows) <= Expiry(r)
        <4>. HIDE DEF u
        <4>1. u.rows \in SUBSET RowType
          BY <1>1, <1>5
        <4>2. \A r \in u.rows : Expiry(r) \in Nat /\ Expiry(r) >= TTL - Lag /\ Expiry(r) <= Empty
          BY <1>2, <1>5
        <4>. QED
          BY <2>1, <4>1, <4>2, MemoIsSound
      <3>. QED
        BY <2>1, <3>1, Limits DEF MemoOk
    <2>2. CASE ~Gate
      <3>1. after = memo /\ memo = s.memo
        BY <1>5, <2>2
      <3>. QED
        BY <1>1, <1>3, <1>5, <2>2, <3>1, MemoOfLess
    <2>. QED
      BY <2>1, <2>2
  <1>7. v \in SpoolType /\ v.rows = u.rows /\ v.seq = u.seq /\ v.memo = after
    <2>. HIDE DEF u, after
    <2>. QED
      BY <1>5, <1>6 DEF SpoolType
  <1>8. PurgeIfNeeded(s, drain) = IF Gate /\ now < t.memo THEN t ELSE v
    BY DEF PurgeIfNeeded
  <1>9. Shrunk(s, t) /\ MemoOk(t.memo, t.rows)
    <2>. HIDE DEF t, memo
    <2>. QED
      BY <1>3, <1>4 DEF Shrunk
  <1>10. Shrunk(s, v) /\ MemoOk(v.memo, v.rows)
    <2>. HIDE DEF v, u, after
    <2>. QED
      BY <1>5, <1>6, <1>7 DEF Shrunk
  <1>. HIDE DEF t, v
  <1>. QED
    BY <1>8, <1>9, <1>10, ShrunkIsOk

LEMMA MaxWithZero ==
  ASSUME NEW x \in Int
  PROVE  Max({0, x}) \in Int /\ Max({0, x}) >= x /\ Max({0, x}) >= 0
  <1>1. \E y \in {0, x} : \A z \in {0, x} : y >= z
    OBVIOUS
  <1>2. Max({0, x}) \in {0, x} /\ \A z \in {0, x} : Max({0, x}) >= z
    BY <1>1 DEF Max
  <1>. QED
    BY <1>2

\* Room is made at the expense of evidence only, and a table that is not blocked has it.
LEMMA RoomIsMade ==
  ASSUME NEW evs, NEW s, SpoolOk(s, evs), NEW incoming \in Nat
  PROVE  LET t == MakeRoom(s, incoming)
         IN  /\ Shrunk(s, t) /\ SpoolOk(t, evs)
             /\ Evs(s.rows \ t.rows) \cap Health = {}
             /\ ~t.blocked => Cardinality(t.rows) + incoming <= MaxEvents
  <1>. DEFINE needed == Max({0, Cardinality(s.rows) + incoming - MaxEvents})
              gone == FirstBySeq(Min({needed, Chunk}), Evidence(s.rows))
              few == Cardinality(gone) < needed
              t == [s EXCEPT !.rows = @ \ gone, !.blocked = @ \/ few]
              more == FirstBySeq(Chunk, Evidence(t.rows))
              w == [t EXCEPT !.rows = @ \ more, !.blocked = TRUE]
              u == IF full THEN w ELSE t
              v == Refresh(u, incoming)
  <1>1. MakeRoom(s, incoming) = v
    BY DEF MakeRoom
  <1>2. s \in SpoolType /\ IsFiniteSet(s.rows) /\ Cardinality(s.rows) \in Nat
    BY FS_CardinalityType DEF SpoolOk, RowsOk
  <1>3. gone \subseteq Evidence(s.rows) /\ Evidence(s.rows) \subseteq s.rows
    BY DEF FirstBySeq, Evidence
  <1>4. few \in BOOLEAN
    OBVIOUS
  <1>5. /\ t \in SpoolType /\ t.rows = s.rows \ gone /\ t.seq = s.seq /\ t.memo = s.memo
        /\ t.blocked = (s.blocked \/ few)
    <2>. HIDE DEF gone, few
    <2>. QED
      BY <1>2, <1>4 DEF SpoolType
  <1>6. more \subseteq Evidence(t.rows)
    BY DEF FirstBySeq
  <1>7. /\ w \in SpoolType /\ w.rows = t.rows \ more /\ w.seq = s.seq /\ w.memo = s.memo
        /\ w.blocked
    <2>. HIDE DEF more, t
    <2>. QED
      BY <1>5 DEF SpoolType
  <1>8. ~t.blocked => Cardinality(t.rows) + incoming <= MaxEvents
    <2>1. SUFFICES ASSUME ~few PROVE Cardinality(t.rows) + incoming <= MaxEvents
      BY <1>5
    <2>2. /\ IsFiniteSet(gone) /\ Cardinality(gone) \in Nat
          /\ Cardinality(s.rows \ gone) = Cardinality(s.rows) - Cardinality(gone)
      <3>. HIDE DEF gone
      <3>1. IsFiniteSet(gone) /\ s.rows \cap gone = gone
        BY <1>2, <1>3, FS_Subset
      <3>. QED
        BY <1>2, <3>1, FS_Difference, FS_CardinalityType
    <2>3. needed \in Int /\ needed >= Cardinality(s.rows) + incoming - MaxEvents
      BY <1>2, MaxWithZero, Limits
    <2>4. Cardinality(gone) >= needed
      <3>1. ~(Cardinality(gone) < needed)
        BY <2>1
      <3>. HIDE DEF gone, needed
      <3>. QED
        BY <2>2, <2>3, <3>1
    <2>5. Cardinality(t.rows) = Cardinality(s.rows) - Cardinality(gone)
      BY <1>5, <2>2
    <2>. HIDE DEF gone, needed, t
    <2>. QED
      BY <1>2, <2>2, <2>3, <2>4, <2>5, Limits
  <1>9. /\ u \in SpoolType /\ u.rows \subseteq s.rows /\ u.seq = s.seq /\ u.memo = s.memo
        /\ s.rows \ u.rows \subseteq Evidence(s.rows)
        /\ ~u.blocked => Cardinality(u.rows) + incoming <= MaxEvents
    <2>1. Evidence(t.rows) \subseteq Evidence(s.rows)
      BY <1>5 DEF Evidence
    <2>. HIDE DEF t, w, gone, more, few, needed
    <2>. QED
      BY <1>3, <1>5, <1>6, <1>7, <1>8, <2>1
  <1>10. /\ v \in SpoolType /\ v.rows = u.rows /\ v.seq = u.seq /\ v.memo = u.memo
         /\ ~v.blocked => Cardinality(v.rows) + incoming <= MaxEvents
    <2>. HIDE DEF u
    <2>. QED
      BY <1>9, Refreshed
  <1>11. Shrunk(s, v) /\ MemoOk(v.memo, v.rows)
    <2>. HIDE DEF u, v
    <2>. QED
      BY <1>9, <1>10, MemoOfLess DEF Shrunk, SpoolOk
  <1>12. Evs(s.rows \ v.rows) \cap Health = {}
    <2>. HIDE DEF u, v
    <2>. QED
      BY <1>9, <1>10 DEF Evs, Evidence
  <1>. HIDE DEF v
  <1>. QED
    BY <1>1, <1>10, <1>11, <1>12, ShrunkIsOk

\* The place of an element among the members of a set of numbers.
LEMMA Places ==
  ASSUME NEW n \in Nat, NEW P \in SUBSET (1..n)
  PROVE  /\ IsFiniteSet(P) /\ Cardinality(P) \in Nat
         /\ \A i \in P : Cardinality({j \in P : j <= i}) \in 1..Cardinality(P)
         /\ \A i, k \in P : i < k =>
               Cardinality({j \in P : j <= i}) < Cardinality({j \in P : j <= k})
  <1>1. IsFiniteSet(P) /\ Cardinality(P) \in Nat
    <2>1. IsFiniteSet(1..n)
      BY FS_Interval
    <2>. QED
      BY <2>1, FS_Subset, FS_CardinalityType
  <1>2. ASSUME NEW i \in P
        PROVE  /\ IsFiniteSet({j \in P : j <= i})
               /\ Cardinality({j \in P : j <= i}) \in 1..Cardinality(P)
    <2>. DEFINE A == {j \in P : j <= i}
    <2>1. A \in SUBSET P /\ i \in A
      OBVIOUS
    <2>. HIDE DEF A
    <2>2. IsFiniteSet(A) /\ Cardinality(A) <= Cardinality(P) /\ Cardinality(A) \in Nat
      BY <1>1, <2>1, FS_Subset, FS_CardinalityType
    <2>3. Cardinality(A) # 0
      BY <2>1, <2>2, FS_EmptySet
    <2>4. Cardinality(A) \in 1..Cardinality(P)
      BY <1>1, <2>2, <2>3
    <2>. QED
      BY <2>2, <2>4 DEF A
  <1>3. ASSUME NEW i \in P, NEW k \in P, i < k
        PROVE  Cardinality({j \in P : j <= i}) < Cardinality({j \in P : j <= k})
    <2>. DEFINE A == {j \in P : j <= i}
                B == {j \in P : j <= k}
    <2>1. A \in SUBSET B /\ k \in B /\ k \notin A
      <3>1. i \in Int /\ k \in Int /\ \A j \in P : j \in Int
        OBVIOUS
      <3>2. \A j \in P : j <= i => j <= k
        BY <1>3, <3>1
      <3>3. k <= k /\ ~(k <= i)
        BY <1>3, <3>1
      <3>. QED
        BY <3>2, <3>3
    <2>2. IsFiniteSet(A) /\ IsFiniteSet(B)
      BY <1>2
    <2>. HIDE DEF A, B
    <2>3. Cardinality(A) \in Nat /\ Cardinality(B) \in Nat /\ Cardinality(A) <= Cardinality(B)
      BY <2>1, <2>2, FS_Subset, FS_CardinalityType
    <2>4. Cardinality(B) = Cardinality(A) => A = B
      BY <2>1, <2>2, FS_Subset
    <2>5. Cardinality(A) < Cardinality(B)
      BY <2>1, <2>3, <2>4
    <2>. QED
      BY <2>5 DEF A, B
  <1>. QED
    BY <1>1, <1>2, <1>3

\* The rows of a group continue the table: their sequence numbers are new, and in the order of
\* submission.
LEMMA InsertContinues ==
  ASSUME NEW evs, NEW s, SpoolOk(s, evs), NEW group \in Seq(Nat), Ascends(group),
         Elements(group) \subseteq evs, NEW P \in SUBSET DOMAIN group,
         \A x \in Elements(group), r \in s.rows : r.ev < x,
         \A i \in P : /\ born[group[i]] \in Int /\ born[group[i]] + TTL >= 0
                      /\ born[group[i]] >= 0 - Lag /\ born[group[i]] <= MaxTime,
         Cardinality(s.rows) + Cardinality(P) <= MaxEvents
  PROVE  LET t == Insert(s, group, P)
         IN  /\ t \in SpoolType /\ t.memo = s.memo
             /\ s.rows \subseteq t.rows /\ t.seq >= s.seq
             /\ RowsOk(t.rows, t.seq, evs)
             /\ \A r \in t.rows \ s.rows : r.seq > s.seq /\ \E i \in P : r.ev = group[i]
             /\ \A i \in P : group[i] \in Evs(t.rows)
  <1>. DEFINE Place(i) == Cardinality({j \in P : j <= i})
              row(i) == [seq |-> s.seq + Place(i), ev |-> group[i], obs |-> born[group[i]]]
              R == {row(i) : i \in P}
              t == [s EXCEPT !.rows = @ \cup R, !.seq = @ + Cardinality(P)]
  <1>1. s \in SpoolType /\ IsFiniteSet(s.rows) /\ Cardinality(s.rows) \in Nat
    BY FS_CardinalityType DEF SpoolOk, RowsOk
  <1>2. Len(group) \in Nat /\ DOMAIN group = 1..Len(group)
    OBVIOUS
  <1>3. /\ IsFiniteSet(P) /\ Cardinality(P) \in Nat
        /\ \A i \in P : Place(i) \in 1..Cardinality(P)
        /\ \A i, k \in P : i < k => Place(i) < Place(k)
    BY <1>2, Places
  <1>4. {i \in P : group[i] \notin Evs(s.rows)} = P
    <2>1. ASSUME NEW i \in P, group[i] \in Evs(s.rows) PROVE FALSE
      <3>1. PICK r \in s.rows : group[i] = r.ev
        BY <2>1 DEF Evs
      <3>2. group[i] \in Elements(group) /\ group[i] \in Nat
        BY DEF Elements
      <3>3. r.ev < group[i]
        BY <3>2
      <3>. QED
        BY <3>1, <3>2, <3>3
    <2>. QED
      BY <2>1
  <1>5. Insert(s, group, P) = t
    BY <1>4 DEF Insert
  <1>6. ASSUME NEW i \in P
        PROVE  /\ row(i) \in RowType /\ row(i).ev = group[i] /\ row(i).obs = born[group[i]]
               /\ row(i).seq = s.seq + Place(i) /\ row(i).seq > s.seq /\ row(i).seq \in Nat
               /\ row(i).seq <= s.seq + Cardinality(P)
               /\ group[i] \in Nat /\ group[i] \in evs /\ group[i] \in Elements(group)
    <2>1. s.seq \in Nat /\ Place(i) \in Nat /\ Place(i) >= 1 /\ Place(i) <= Cardinality(P)
      <3>1. Place(i) \in 1..Cardinality(P)
        BY <1>3
      <3>2. s.seq \in Nat
        BY <1>1 DEF SpoolType
      <3>. HIDE DEF Place
      <3>. QED
        BY <1>3, <3>1, <3>2
    <2>2. group[i] \in Nat /\ group[i] \in Elements(group)
      BY DEF Elements
    <2>. HIDE DEF Place
    <2>. QED
      BY <1>3, <2>1, <2>2 DEF RowType
  <1>7. R \in SUBSET RowType
    BY <1>6
  <1>8. IsFiniteSet(R) /\ Cardinality(R) <= Cardinality(P) /\ Cardinality(R) \in Nat
    <2>. DEFINE f == [i \in P |-> row(i)]
    <2>1. f \in Surjection(P, R)
      BY DEF Surjection
    <2>. HIDE DEF f, R
    <2>. QED
      BY <1>3, <2>1, FS_Surjection, FS_CardinalityType
  <1>9. /\ t \in SpoolType /\ t.rows = s.rows \cup R /\ t.seq = s.seq + Cardinality(P)
        /\ t.memo = s.memo
    <2>. HIDE DEF R
    <2>1. s.seq + Cardinality(P) \in Nat /\ s.rows \cup R \in SUBSET RowType
      BY <1>1, <1>3, <1>7 DEF SpoolType
    <2>. QED
      BY <1>1, <2>1 DEF SpoolType
  <1>10. IsFiniteSet(t.rows) /\ Cardinality(t.rows) <= MaxEvents
    <2>. HIDE DEF R, t
    <2>1. /\ IsFiniteSet(t.rows)
          /\ Cardinality(t.rows) = Cardinality(s.rows) + Cardinality(R) - Cardinality(s.rows \cap R)
      <3>1. t.rows = s.rows \cup R
        BY <1>9
      <3>2. /\ IsFiniteSet(s.rows \cup R)
            /\ Cardinality(s.rows \cup R) = Cardinality(s.rows) + Cardinality(R) - Cardinality(s.rows \cap R)
        BY <1>1, <1>8, FS_Union
      <3>. QED
        BY <3>1, <3>2
    <2>2. Cardinality(s.rows \cap R) \in Nat
      BY <1>1, FS_Intersection, FS_CardinalityType
    <2>. QED
      BY <1>1, <1>3, <1>8, <2>1, <2>2, Limits
  <1>11. s.seq \in Nat /\ \A r \in s.rows : r \in RowType /\ r.ev \in evs /\ r.seq \in 1..s.seq
    BY <1>1 DEF SpoolOk, RowsOk, SpoolType
  <1>12. \A r \in t.rows : r.ev \in evs /\ r.seq \in 1..t.seq
    <2>1. \A r \in R : r.ev \in evs /\ r.seq \in 1..t.seq
      <3>. HIDE DEF Place, row, t
      <3>. QED
        BY <1>3, <1>6, <1>9, <1>11
    <2>. HIDE DEF R, t
    <2>. QED
      BY <1>3, <1>9, <1>11, <2>1
  <1>13. \A r \in t.rows : Expiry(r) \in Nat /\ Expiry(r) >= TTL - Lag /\ Expiry(r) <= Empty
    <2>1. ASSUME NEW i \in P
          PROVE  Expiry(row(i)) \in Nat /\ Expiry(row(i)) >= TTL - Lag /\ Expiry(row(i)) <= Empty
      <3>1. row(i).obs = born[group[i]]
        BY <1>6
      <3>. HIDE DEF row
      <3>. QED
        BY <3>1, Limits DEF Expiry
    <2>. HIDE DEF row, t
    <2>. QED
      BY <1>9, <2>1 DEF SpoolOk, RowsOk
  <1>14. ASSUME NEW i \in P, NEW k \in P
         PROVE  /\ row(i).ev < row(k).ev => row(i).seq < row(k).seq
                /\ row(i).ev = row(k).ev => i = k
    <2>1. i \in Int /\ k \in Int /\ i \in DOMAIN group /\ k \in DOMAIN group
      BY <1>2
    <2>2. group[i] \in Nat /\ group[k] \in Nat /\ row(i).ev = group[i] /\ row(k).ev = group[k]
      BY <1>6
    <2>3. (i < k => group[i] < group[k]) /\ (k < i => group[k] < group[i])
      BY <2>1 DEF Ascends
    <2>4. i < k => row(i).seq < row(k).seq
      <3>1. s.seq \in Nat /\ Place(i) \in Int /\ Place(k) \in Int
        <4>1. Place(i) \in 1..Cardinality(P) /\ Place(k) \in 1..Cardinality(P)
          BY <1>3
        <4>. HIDE DEF Place
        <4>. QED
          BY <1>11, <4>1
      <3>2. i < k => Place(i) < Place(k)
        BY <1>3
      <3>3. row(i).seq = s.seq + Place(i) /\ row(k).seq = s.seq + Place(k)
        BY <1>6
      <3>. HIDE DEF row, Place
      <3>. QED
        BY <3>1, <3>2, <3>3
    <2>. HIDE DEF row
    <2>. QED
      BY <2>1, <2>2, <2>3, <2>4
  <1>15. ASSUME NEW q \in t.rows, NEW r \in t.rows
         PROVE  (q.ev < r.ev => q.seq < r.seq) /\ (q.ev = r.ev => q = r)
    <2>1. CASE q \in s.rows /\ r \in s.rows
      BY <2>1 DEF SpoolOk, RowsOk
    <2>2. CASE q \in s.rows /\ r \in R
      <3>1. PICK k \in P : r = row(k)
        BY <2>2
      <3>2. q.ev < r.ev /\ q.ev \in Nat /\ r.ev \in Nat
        <4>1. r.ev = group[k] /\ group[k] \in Elements(group) /\ group[k] \in Nat
          BY <1>6, <3>1
        <4>. QED
          BY <1>11, <2>2, <4>1 DEF RowType
      <3>3. q.seq < r.seq
        <4>1. r.seq > s.seq /\ r.seq \in Nat
          BY <1>6, <3>1
        <4>. QED
          BY <1>11, <2>2, <4>1
      <3>. QED
        BY <3>2, <3>3
    <2>3. CASE q \in R /\ r \in s.rows
      <3>1. PICK i \in P : q = row(i)
        BY <2>3
      <3>2. r.ev < q.ev /\ q.ev \in Nat /\ r.ev \in Nat
        <4>1. q.ev = group[i] /\ group[i] \in Elements(group) /\ group[i] \in Nat
          BY <1>6, <3>1
        <4>. QED
          BY <1>11, <2>3, <4>1 DEF RowType
      <3>. QED
        BY <3>2
    <2>4. CASE q \in R /\ r \in R
      <3>1. PICK i \in P, k \in P : q = row(i) /\ r = row(k)
        BY <2>4
      <3>. HIDE DEF row
      <3>. QED
        BY <1>14, <3>1
    <2>. HIDE DEF R, t
    <2>. QED
      BY <1>9, <2>1, <2>2, <2>3, <2>4
  <1>16. RowsOk(t.rows, t.seq, evs)
    <2>. HIDE DEF t
    <2>. QED
      BY <1>10, <1>12, <1>13, <1>15 DEF RowsOk
  <1>17. \A r \in t.rows \ s.rows : r.seq > s.seq /\ \E i \in P : r.ev = group[i]
    <2>1. ASSUME NEW r \in t.rows \ s.rows
          PROVE  r.seq > s.seq /\ \E i \in P : r.ev = group[i]
      <3>1. r \in R
        <4>. HIDE DEF t, R
        <4>. QED
          BY <1>9
      <3>2. PICK i \in P : r = row(i)
        BY <3>1
      <3>. QED
        BY <1>6, <3>2
    <2>. QED
      BY <2>1
  <1>18. ASSUME NEW i \in P PROVE group[i] \in Evs(t.rows)
    <2>1. row(i) \in t.rows
      BY <1>9
    <2>2. row(i).ev = group[i]
      BY <1>6
    <2>. HIDE DEF row, t
    <2>. QED
      BY <2>1, <2>2 DEF Evs
  <1>19. s.rows \subseteq t.rows /\ t.seq >= s.seq
    <2>. HIDE DEF t, R
    <2>. QED
      BY <1>3, <1>9, <1>11
  <1>. HIDE DEF t
  <1>. QED
    BY <1>5, <1>9, <1>16, <1>17, <1>18, <1>19

-----------------------------------------------------------------------------
(* The coalescer *)

LEMMA NoElements == Elements(<<>>) = {} /\ Ascends(<<>>) /\ <<>> \in Seq(Nat) /\ Len(<<>>) = 0
  BY DEF Elements, Ascends

LEMMA AppendAscends ==
  ASSUME NEW q \in Seq(Nat), Ascends(q), NEW x \in Nat, \A y \in Elements(q) : y < x
  PROVE  /\ Append(q, x) \in Seq(Nat) /\ Append(q, x) # <<>> /\ Len(Append(q, x)) = Len(q) + 1
         /\ Ascends(Append(q, x))
         /\ Elements(Append(q, x)) = Elements(q) \cup {x}
  <1>. DEFINE w == Append(q, x)
              n == Len(q)
  <1>1. /\ w \in Seq(Nat) /\ w # <<>> /\ Len(w) = n + 1 /\ n \in Nat
        /\ \A i \in 1..n : w[i] = q[i]
        /\ w[n + 1] = x
        /\ DOMAIN w = 1..(n + 1) /\ DOMAIN q = 1..n
    BY AppendProperties
  <1>2. \A i \in 1..(n + 1) : i \in 1..n \/ i = n + 1
    BY <1>1
  <1>3. \A i \in 1..n : q[i] < x
    BY <1>1 DEF Elements
  <1>. HIDE DEF w, n
  <1>4. Ascends(w)
    <2>1. SUFFICES ASSUME NEW i \in 1..(n + 1), NEW j \in 1..(n + 1), i < j
                   PROVE  w[i] < w[j]
      BY <1>1 DEF Ascends
    <2>2. i \in 1..n
      BY <1>1, <2>1
    <2>3. CASE j \in 1..n
      BY <1>1, <2>1, <2>2, <2>3 DEF Ascends
    <2>4. CASE j = n + 1
      BY <1>1, <1>3, <2>2, <2>4
    <2>. QED
      BY <1>2, <2>3, <2>4
  <1>5. Elements(w) = Elements(q) \cup {x}
    <2>1. \A i \in 1..(n + 1) : w[i] \in Elements(q) \cup {x}
      BY <1>1, <1>2 DEF Elements
    <2>2. \A i \in 1..n : q[i] \in Elements(w)
      BY <1>1 DEF Elements
    <2>3. x \in Elements(w)
      BY <1>1 DEF Elements
    <2>. QED
      BY <1>1, <2>1, <2>2, <2>3 DEF Elements
  <1>. QED
    BY <1>1, <1>4, <1>5 DEF w, n

\* The window is taken out of memory, to be written.
LEMMA Flushed ==
  ASSUME NEW k \in CoalescerType, k.job = <<>>, Ascends(k.pend), k.result # "clean",
         k.cur # 0 => \A x \in Elements(k.pend) : x < k.cur,
         k.closing => k.stop /\ k.cur = 0,
         NEW y \in CoalescerType, y.pend = <<>>, y.bytes = 0, y.job = k.pend, y.cur = k.cur,
         y.closing = k.closing, y.stop = k.stop, y.result = k.result,
         y.closing => y.by = "timer"
  PROVE  CoalescerOk(y) /\ InMemory(y) = InMemory(k)
  BY NoElements, Limits DEF CoalescerOk, InMemory

\* The coalescer moves what it holds, and nothing else happens.
LEMMA CoalescerMoves ==
  ASSUME IInv, UNCHANGED <<now, born, sp, full, d, log, faults>>,
         CoalescerOk(c'), InMemory(c') = InMemory(c), c'.failed = c.failed
  PROVE  IInv'
  <1>1. ClockInv'
    BY DEF IInv, ClockInv
  <1>2. SpoolOk(sp, DOMAIN born)' /\ ProducerOk(d, sp, log.server)'
    BY DEF IInv, SpoolOk, RowsOk, MemoOk, ProducerOk
  <1>3. MemoryInv'
    BY DEF IInv, MemoryInv
  <1>4. LogInv'
    BY DEF IInv, LogInv, NothingVanishes
  <1>. QED
    BY <1>1, <1>2, <1>3, <1>4 DEF IInv

LEMMA SubmitStepKeeps ==
  ASSUME IInv, SubmitStep
  PROVE  IInv'
  <1>. DEFINE k == SubmitOne
              y == IF /\ k.pend # <<>>
                      /\ Len(k.pend) = MaxPend \/ now - k.oldest >= Window
                   THEN Flush(k) ELSE k
  <1>1. /\ c.cur # 0 /\ c.job = <<>> /\ c' = y
        /\ UNCHANGED <<now, born, sp, full, d, log, faults>>
    BY DEF SubmitStep
  <1>2. CoalescerOk(c) /\ c \in CoalescerType /\ c.cur \in Nat /\ ~c.closing /\ c.result # "clean"
    BY <1>1 DEF IInv, CoalescerOk, CoalescerType
  <1>3. c.cur \in Events /\ Size[c.cur] \in Nat
    <2>1. c.cur \in DOMAIN born
      BY <1>1 DEF IInv, MemoryInv, InMemory
    <2>. QED
      BY <2>1, Limits DEF IInv, ClockInv
  <1>4. \/ k = Direct(c) /\ c.pend = <<>>
        \/ k = Flush(c) /\ c.pend # <<>>
        \/ k = Append_(c) /\ Coalesce /\ ~c.disabled /\ c.bytes + Size[c.cur] <= MaxBytes
    <2>1. c.pend # <<>> => Coalesce /\ ~c.disabled
      BY <1>2 DEF CoalescerOk
    <2>2. c.bytes \in Nat /\ (c.pend = <<>> => c.bytes = 0)
      BY <1>2 DEF CoalescerOk, CoalescerType
    <2>3. CASE c.disabled \/ ~Coalesce
      BY <2>1, <2>3 DEF SubmitOne
    <2>4. CASE ~(c.disabled \/ ~Coalesce)
      <3>1. CASE c.pend # <<>> /\ (Elapsed \/ sp.blocked \/ c.cur \in Health
                              \/ c.bytes + Size[c.cur] > MaxBytes)
        BY <2>4, <3>1 DEF SubmitOne
      <3>2. CASE ~(c.pend # <<>> /\ (Elapsed \/ sp.blocked \/ c.cur \in Health
                              \/ c.bytes + Size[c.cur] > MaxBytes))
        <4>1. CASE sp.blocked \/ c.cur \in Health \/ Size[c.cur] > MaxBytes
          <5>1. k = Direct(c)
            BY <2>4, <3>2, <4>1 DEF SubmitOne
          <5>2. c.pend = <<>>
            BY <1>3, <2>2, <3>2, <4>1, Limits
          <5>. QED
            BY <5>1, <5>2
        <4>2. CASE ~(sp.blocked \/ c.cur \in Health \/ Size[c.cur] > MaxBytes)
          <5>1. k = Append_(c)
            BY <2>4, <3>2, <4>2 DEF SubmitOne
          <5>2. c.bytes + Size[c.cur] <= MaxBytes
            BY <1>3, <2>2, <3>2, <4>2, Limits
          <5>. QED
            BY <2>4, <5>1, <5>2
        <4>. QED
          BY <4>1, <4>2
      <3>. QED
        BY <3>1, <3>2
    <2>. QED
      BY <2>3, <2>4
  <1>5. CASE k = Direct(c) /\ c.pend = <<>>
    <2>1. /\ y = k /\ k.pend = <<>> /\ k.bytes = c.bytes /\ k.cur = 0 /\ k.job = <<c.cur>>
          /\ k \in CoalescerType /\ k.closing = c.closing /\ k.result = c.result
          /\ k.failed = c.failed
      <3>. DEFINE j == <<c.cur>>
      <3>1. k = [c EXCEPT !.cur = 0, !.at = 0, !.job = j]
        BY <1>5 DEF Direct
      <3>2. j \in Seq(Nat)
        BY <1>2
      <3>. HIDE DEF k, j
      <3>3. /\ k.pend = c.pend /\ k.bytes = c.bytes /\ k.cur = 0 /\ k.job = j
            /\ k \in CoalescerType /\ k.closing = c.closing /\ k.result = c.result
            /\ k.failed = c.failed
        BY <1>2, <3>1, <3>2 DEF CoalescerType
      <3>4. y = k /\ k.pend = <<>>
        BY <1>5, <3>3
      <3>. HIDE DEF y
      <3>. QED
        BY <3>3, <3>4 DEF j
    <2>2. Elements(<<c.cur>>) = {c.cur} /\ Ascends(<<c.cur>>)
      BY DEF Elements, Ascends
    <2>. HIDE DEF k, y
    <2>3. CoalescerOk(y)
      BY <1>2, <1>5, <2>1, <2>2 DEF CoalescerOk
    <2>4. InMemory(y) = InMemory(c)
      BY <1>1, <1>5, <2>1, <2>2, NoElements DEF InMemory
    <2>. QED
      BY <1>1, <2>1, <2>3, <2>4, CoalescerMoves
  <1>6. CASE k = Flush(c) /\ c.pend # <<>>
    <2>1. /\ y = k /\ k \in CoalescerType /\ k.pend = <<>> /\ k.bytes = 0 /\ k.job = c.pend
          /\ k.cur = c.cur /\ k.closing = c.closing /\ k.stop = c.stop /\ k.result = c.result
          /\ k.failed = c.failed
      <3>1. k = [c EXCEPT !.pend = <<>>, !.bytes = 0, !.oldest = 0, !.job = c.pend]
        BY <1>6 DEF Flush
      <3>. HIDE DEF k
      <3>2. /\ k \in CoalescerType /\ k.pend = <<>> /\ k.bytes = 0 /\ k.job = c.pend
            /\ k.cur = c.cur /\ k.closing = c.closing /\ k.stop = c.stop /\ k.result = c.result
            /\ k.failed = c.failed
        BY <1>2, <3>1, NoElements DEF CoalescerType
      <3>. QED
        BY <3>2
    <2>. HIDE DEF k, y
    <2>2. CoalescerOk(y) /\ InMemory(y) = InMemory(c)
      BY <1>1, <1>2, <2>1, Flushed DEF CoalescerOk
    <2>. QED
      BY <1>1, <2>1, <2>2, CoalescerMoves
  <1>7. CASE k = Append_(c) /\ Coalesce /\ ~c.disabled /\ c.bytes + Size[c.cur] <= MaxBytes
    <2>. DEFINE q == Append(c.pend, c.cur)
    <2>1. /\ q \in Seq(Nat) /\ q # <<>> /\ Len(q) = Len(c.pend) + 1 /\ Ascends(q)
          /\ Elements(q) = Elements(c.pend) \cup {c.cur}
      BY <1>1, <1>2, AppendAscends DEF CoalescerOk, CoalescerType
    <2>. HIDE DEF q
    <2>2. /\ k \in CoalescerType /\ k.pend = q /\ k.bytes = c.bytes + Size[c.cur] /\ k.cur = 0
          /\ k.job = <<>> /\ k.closing = c.closing /\ k.stop = c.stop /\ k.result = c.result
          /\ k.failed = c.failed /\ k.disabled = c.disabled
      <3>1. k = [c EXCEPT !.pend = q, !.bytes = @ + Size[c.cur], !.cur = 0, !.at = 0,
                          !.oldest = IF c.pend = <<>> THEN c.at ELSE @,
                          !.timer = Notified(@)]
        BY <1>7 DEF Append_, q
      <3>2. Notified(c.timer) \in {"off", "ready", "asleep", "timed", "done"}
        BY <1>2 DEF Notified, CoalescerType
      <3>3. c.bytes + Size[c.cur] \in Nat
        BY <1>2, <1>3 DEF CoalescerType
      <3>. HIDE DEF k
      <3>. QED
        BY <1>1, <1>2, <2>1, <3>1, <3>2, <3>3 DEF CoalescerType
    <2>3. InMemory(k) = InMemory(c)
      <3>. HIDE DEF k
      <3>. QED
        BY <1>1, <2>1, <2>2, NoElements DEF InMemory
    <2>4. CASE k.pend # <<>> /\ (Len(k.pend) = MaxPend \/ now - k.oldest >= Window)
      <3>1. y = Flush(k)
        BY <2>4
      <3>. HIDE DEF k, y
      <3>2. /\ y \in CoalescerType /\ y.pend = <<>> /\ y.bytes = 0 /\ y.job = q
            /\ y.cur = 0 /\ y.closing = c.closing /\ y.stop = c.stop /\ y.result = c.result
            /\ y.failed = c.failed
        BY <2>1, <2>2, <3>1 DEF Flush, CoalescerType
      <3>3. CoalescerOk(y) /\ InMemory(y) = InMemory(k)
        BY <1>2, <2>1, <2>2, <3>2, Flushed
      <3>. QED
        BY <1>1, <2>3, <3>2, <3>3, CoalescerMoves
    <2>5. CASE ~(k.pend # <<>> /\ (Len(k.pend) = MaxPend \/ now - k.oldest >= Window))
      <3>1. y = k
        BY <2>5
      <3>2. Len(q) < MaxPend
        <4>1. Len(q) # MaxPend
          <5>. HIDE DEF k
          <5>. QED
            BY <2>1, <2>2, <2>5
        <4>2. Len(c.pend) < MaxPend /\ Len(c.pend) \in Nat
          BY <1>2 DEF CoalescerOk, CoalescerType
        <4>. QED
          BY <2>1, <4>1, <4>2, Limits
      <3>. HIDE DEF k, y
      <3>3. CoalescerOk(y)
        BY <1>2, <1>7, <2>1, <2>2, <3>1, <3>2, NoElements DEF CoalescerOk
      <3>. QED
        BY <1>1, <2>2, <2>3, <3>1, <3>3, CoalescerMoves
    <2>. QED
      BY <2>4, <2>5
  <1>. QED
    BY <1>4, <1>5, <1>6, <1>7

LEMMA Turned ==
  ASSUME NEW k, CoalescerOk(k), NEW t \in {"off", "ready", "asleep", "timed", "done"},
         k.result = "clean" => t \in {"off", "done"}
  PROVE  LET y == [k EXCEPT !.timer = t]
         IN  CoalescerOk(y) /\ InMemory(y) = InMemory(k) /\ y.failed = k.failed
  <1>. DEFINE y == [k EXCEPT !.timer = t]
  <1>1. /\ y \in CoalescerType /\ y.pend = k.pend /\ y.job = k.job /\ y.cur = k.cur
        /\ y.bytes = k.bytes /\ y.disabled = k.disabled /\ y.failed = k.failed
        /\ y.stop = k.stop /\ y.closing = k.closing /\ y.by = k.by /\ y.result = k.result
        /\ y.timer = t
    BY DEF CoalescerOk, CoalescerType
  <1>. HIDE DEF y
  <1>2. CoalescerOk(y)
    BY <1>1 DEF CoalescerOk
  <1>3. InMemory(y) = InMemory(k)
    BY <1>1 DEF InMemory
  <1>. QED
    BY <1>1, <1>2, <1>3 DEF y

LEMMA TimerStepKeeps ==
  ASSUME IInv, TimerStep
  PROVE  IInv'
  <1>1. /\ c.timer = "ready" /\ c.cur = 0 /\ c.job = <<>>
        /\ UNCHANGED <<now, born, sp, full, d, log, faults>>
    BY DEF TimerStep, LockFree
  <1>2. CoalescerOk(c) /\ c \in CoalescerType /\ c.result # "clean"
    BY <1>1 DEF IInv, CoalescerOk
  <1>3. \/ \E t \in {"done", "asleep", "timed"} : c' = [c EXCEPT !.timer = t]
        \/ \E t \in {"done", "ready"} :
              c' = [c EXCEPT !.pend = <<>>, !.bytes = 0, !.oldest = 0, !.job = c.pend,
                             !.timer = t, !.by = "timer"]
    <2>1. CASE c.disabled
      BY <2>1 DEF TimerStep
    <2>2. CASE ~c.disabled /\ (c.closing \/ c.stop)
      <3>1. c' = [Flush(c) EXCEPT !.timer = "done", !.by = "timer"]
        BY <2>2 DEF TimerStep
      <3>2. c' = [c EXCEPT !.pend = <<>>, !.bytes = 0, !.oldest = 0, !.job = c.pend,
                           !.timer = "done", !.by = "timer"]
        BY <3>1 DEF Flush
      <3>. QED
        BY <3>2
    <2>3. CASE ~c.disabled /\ ~(c.closing \/ c.stop) /\ c.pend = <<>>
      BY <2>3 DEF TimerStep
    <2>4. CASE ~c.disabled /\ ~(c.closing \/ c.stop) /\ c.pend # <<>> /\ ~Elapsed /\ ~sp.blocked
      BY <2>4 DEF TimerStep
    <2>5. CASE ~c.disabled /\ ~(c.closing \/ c.stop) /\ c.pend # <<>> /\ ~(~Elapsed /\ ~sp.blocked)
      <3>1. c' = [Flush(c) EXCEPT !.by = "timer"]
        BY <2>5 DEF TimerStep
      <3>2. c' = [c EXCEPT !.pend = <<>>, !.bytes = 0, !.oldest = 0, !.job = c.pend,
                           !.timer = "ready", !.by = "timer"]
        BY <1>1, <1>2, <3>1 DEF Flush, CoalescerType
      <3>. QED
        BY <3>2
    <2>. QED
      BY <2>1, <2>2, <2>3, <2>4, <2>5
  <1>4. CASE \E t \in {"done", "asleep", "timed"} : c' = [c EXCEPT !.timer = t]
    <2>1. PICK t \in {"done", "asleep", "timed"} : c' = [c EXCEPT !.timer = t]
      BY <1>4
    <2>. QED
      BY <1>1, <1>2, <2>1, Turned, CoalescerMoves
  <1>5. CASE \E t \in {"done", "ready"} :
                c' = [c EXCEPT !.pend = <<>>, !.bytes = 0, !.oldest = 0, !.job = c.pend,
                               !.timer = t, !.by = "timer"]
    <2>1. PICK t \in {"done", "ready"} :
                c' = [c EXCEPT !.pend = <<>>, !.bytes = 0, !.oldest = 0, !.job = c.pend,
                               !.timer = t, !.by = "timer"]
      BY <1>5
    <2>2. /\ c' \in CoalescerType /\ c'.pend = <<>> /\ c'.bytes = 0 /\ c'.job = c.pend
          /\ c'.cur = c.cur /\ c'.closing = c.closing /\ c'.stop = c.stop
          /\ c'.result = c.result /\ c'.by = "timer" /\ c'.failed = c.failed
      BY <1>2, <2>1, NoElements DEF CoalescerType
    <2>3. CoalescerOk(c') /\ InMemory(c') = InMemory(c)
      BY <1>1, <1>2, <2>2, Flushed DEF CoalescerOk
    <2>. QED
      BY <1>1, <2>2, <2>3, CoalescerMoves
  <1>. QED
    BY <1>3, <1>4, <1>5

LEMMA ShutdownKeeps ==
  ASSUME IInv, TimerWakes \/ RequestStop \/ Close \/ Joined
  PROVE  IInv'
  <1>1. CoalescerOk(c) /\ c \in CoalescerType
    BY DEF IInv, CoalescerOk
  <1>2. UNCHANGED <<now, born, sp, full, d, log, faults>>
    BY DEF TimerWakes, RequestStop, Close, Joined
  <1>3. CASE TimerWakes
    <2>1. c' = [c EXCEPT !.timer = "ready"] /\ c.result # "clean"
      BY <1>1, <1>3 DEF TimerWakes, CoalescerOk
    <2>. QED
      BY <1>1, <1>2, <2>1, Turned, CoalescerMoves
  <1>4. CASE RequestStop
    <2>1. /\ c' \in CoalescerType /\ c'.pend = c.pend /\ c'.job = c.job /\ c'.cur = c.cur
          /\ c'.bytes = c.bytes /\ c'.disabled = c.disabled /\ c'.failed = c.failed
          /\ c'.stop /\ c'.closing = c.closing /\ c'.by = c.by /\ c'.result = c.result
          /\ c'.timer = c.timer
      BY <1>1, <1>4 DEF RequestStop, CoalescerType
    <2>2. CoalescerOk(c')
      BY <1>1, <2>1 DEF CoalescerOk
    <2>3. InMemory(c') = InMemory(c)
      BY <2>1 DEF InMemory
    <2>. QED
      BY <1>2, <2>1, <2>2, <2>3, CoalescerMoves
  <1>5. CASE Close
    <2>0. Notified(c.timer) \in {"off", "ready", "asleep", "timed", "done"}
      BY <1>1 DEF Notified, CoalescerType
    <2>. DEFINE t == Notified(c.timer)
    <2>1. c' = [c EXCEPT !.closing = TRUE, !.timer = t] /\ c.stop /\ c.cur = 0 /\ c.job = <<>> /\ ~c.closing
      BY <1>5 DEF Close, LockFree
    <2>. HIDE DEF t
    <2>2. /\ c' \in CoalescerType /\ c'.pend = c.pend /\ c'.job = c.job /\ c'.cur = c.cur
          /\ c'.bytes = c.bytes /\ c'.disabled = c.disabled /\ c'.failed = c.failed
          /\ c'.stop = c.stop /\ c'.closing /\ c'.by = c.by /\ c'.result = c.result
      BY <1>1, <2>0, <2>1 DEF CoalescerType, t
    <2>3. CoalescerOk(c')
      BY <1>1, <2>1, <2>2 DEF CoalescerOk
    <2>4. InMemory(c') = InMemory(c)
      BY <2>2 DEF InMemory
    <2>. QED
      BY <1>2, <2>2, <2>3, <2>4, CoalescerMoves
  <1>6. CASE Joined
    <2>1. PICK o \in {"clean", "unclean"} :
             /\ c' = [c EXCEPT !.result = o]
             /\ o = "clean" => /\ Coalesce /\ c.closing /\ ~c.failed /\ c.pend = <<>>
                               /\ c.timer \in {"off", "done"} /\ (c.by = "timer" => c.job = <<>>)
      BY <1>6 DEF Joined
    <2>2. /\ c' \in CoalescerType /\ c'.pend = c.pend /\ c'.job = c.job /\ c'.cur = c.cur
          /\ c'.bytes = c.bytes /\ c'.disabled = c.disabled /\ c'.failed = c.failed
          /\ c'.stop = c.stop /\ c'.closing = c.closing /\ c'.by = c.by /\ c'.result = o
          /\ c'.timer = c.timer
      BY <1>1, <2>1 DEF CoalescerType
    <2>3. CoalescerOk(c')
      BY <1>1, <2>1, <2>2 DEF CoalescerOk
    <2>4. InMemory(c') = InMemory(c)
      BY <2>2 DEF InMemory
    <2>. QED
      BY <1>2, <2>2, <2>3, <2>4, CoalescerMoves
  <1>. QED
    BY <1>3, <1>4, <1>5, <1>6

-----------------------------------------------------------------------------
(* Writes to the table *)

\* New rows have new sequence numbers, so a batch in flight is still what it was.
LEMMA ProducerKept ==
  ASSUME NEW p, NEW s \in SpoolType, NEW server, ProducerOk(p, s, server),
         NEW t \in SpoolType, t.seq >= s.seq, \A r \in t.rows : r \in s.rows \/ r.seq > s.seq,
         NEW more, server \subseteq more
  PROVE  ProducerOk(p, t, more)
  <1>1. s.seq \in Nat /\ t.seq \in Nat /\ \A r \in t.rows : r.seq \in Nat
    BY DEF SpoolType, RowType
  <1>2. \A b \in p.batch : b.seq \in Nat
    BY DEF ProducerOk, RowType
  <1>. QED
    BY <1>1, <1>2 DEF ProducerOk

\* What becomes of the table before a group is written to it.
LEMMA TableIsPrepared ==
  ASSUME NEW evs, SpoolOk(sp, evs), NEW group \in Seq(Nat)
  PROVE  LET g == Prepared(group)
         IN  /\ Shrunk(sp, g.s) /\ SpoolOk(g.s, evs)
             /\ g.s.rows \subseteq g.purged /\ g.purged \subseteq sp.rows
             /\ Evs(g.purged \ g.s.rows) \cap Health = {}
             /\ Fresh(group) # {} /\ ~g.s.blocked =>
                   Cardinality(g.s.rows) + Cardinality(Fresh(group)) <= MaxEvents
  <1>. DEFINE s == PurgeIfNeeded(sp, FALSE)
              n == Cardinality(Fresh(group))
              u == IF Fresh(group) = {} THEN s ELSE MakeRoom(s, n)
  <1>1. Prepared(group).purged = s.rows /\ Prepared(group).s = u
    BY DEF Prepared
  <1>2. Shrunk(sp, s) /\ SpoolOk(s, evs)
    BY PurgeKeeps
  <1>3. n \in Nat
    <2>1. Fresh(group) \in SUBSET (1..Len(group)) /\ Len(group) \in Nat
      BY DEF Fresh
    <2>. QED
      BY <2>1, Places
  <1>. HIDE DEF s, n
  <1>4. /\ Shrunk(s, u) /\ SpoolOk(u, evs) /\ Evs(s.rows \ u.rows) \cap Health = {}
        /\ Fresh(group) # {} /\ ~u.blocked => Cardinality(u.rows) + n <= MaxEvents
    <2>1. CASE Fresh(group) = {}
      <3>1. u = s
        BY <2>1
      <3>2. Shrunk(s, s)
        BY <1>2 DEF Shrunk, SpoolOk
      <3>3. Evs({}) = {}
        BY DEF Evs
      <3>. HIDE DEF u
      <3>4. s.rows \ u.rows = {}
        BY <3>1
      <3>. QED
        BY <1>2, <2>1, <3>1, <3>2, <3>3, <3>4
    <2>2. CASE Fresh(group) # {}
      <3>1. u = MakeRoom(s, n)
        BY <2>2
      <3>. HIDE DEF u
      <3>. QED
        BY <1>2, <1>3, <3>1, RoomIsMade
    <2>. QED
      BY <2>1, <2>2
  <1>. HIDE DEF u
  <1>5. Shrunk(sp, u) /\ u.rows \subseteq s.rows /\ s.rows \subseteq sp.rows
    BY <1>2, <1>4 DEF Shrunk
  <1>. QED
    BY <1>1, <1>4, <1>5 DEF n

\* The coalescer once its write has ended, well or not.
LEMMA WriteEnds ==
  ASSUME CoalescerOk(c), c.job # <<>>,
         Success \/ Failure
  PROVE  /\ CoalescerOk(c')
         /\ InMemory(c') \subseteq InMemory(c)
         /\ \A x \in InMemory(c') : x = c.cur /\ x # 0
         /\ ~c'.failed /\ Coalesce => InMemory(c) \subseteq InMemory(c') \cup Elements(c.job)
  <1>1. /\ c \in CoalescerType /\ c.pend = <<>> /\ c.bytes = 0 /\ c.result # "clean"
    BY DEF CoalescerOk
  <1>2. Notified(c.timer) \in {"off", "ready", "asleep", "timed", "done"}
    BY <1>1 DEF Notified, CoalescerType
  <1>3. CASE Success
    <2>. DEFINE t == IF c.stop THEN Notified(c.timer) ELSE c.timer
              b == IF c.cur = 0 THEN "none" ELSE c.by
    <2>1. c' = [c EXCEPT !.job = <<>>, !.by = b, !.timer = t]
      BY <1>3 DEF Success
    <2>2. t \in {"off", "ready", "asleep", "timed", "done"}
      BY <1>1, <1>2 DEF CoalescerType
    <2>. HIDE DEF t
    <2>9. b \in Threads \cup {"none", "handler", "timer"}
      BY <1>1 DEF CoalescerType
    <2>. HIDE DEF b
    <2>3. /\ c' \in CoalescerType /\ c'.pend = <<>> /\ c'.bytes = 0 /\ c'.job = <<>>
          /\ c'.cur = c.cur /\ c'.closing = c.closing /\ c'.stop = c.stop
          /\ c'.result = c.result /\ c'.failed = c.failed
      BY <1>1, <2>1, <2>2, <2>9, NoElements DEF CoalescerType
    <2>4. CoalescerOk(c')
      BY <1>1, <2>3, NoElements, Limits DEF CoalescerOk
    <2>. QED
      BY <1>1, <2>3, <2>4, NoElements DEF InMemory
  <1>4. CASE Failure
    <2>. DEFINE t == IF c.by = "timer" THEN "done" ELSE Notified(c.timer)
    <2>1. c' = [c EXCEPT !.job = <<>>, !.cur = 0, !.at = 0, !.by = "none",
                         !.disabled = Coalesce, !.failed = Coalesce, !.timer = t]
      BY <1>4 DEF Failure, Fail
    <2>2. t \in {"off", "ready", "asleep", "timed", "done"}
      BY <1>2
    <2>. HIDE DEF t
    <2>3. /\ c' \in CoalescerType /\ c'.pend = <<>> /\ c'.bytes = 0 /\ c'.job = <<>>
          /\ c'.cur = 0 /\ c'.closing = c.closing /\ c'.stop = c.stop
          /\ c'.result = c.result /\ c'.failed = Coalesce
      BY <1>1, <2>1, <2>2, NoElements, Limits DEF CoalescerType
    <2>4. CoalescerOk(c')
      BY <1>1, <2>3, NoElements, Limits DEF CoalescerOk
    <2>. QED
      BY <1>1, <2>3, <2>4, NoElements DEF InMemory
  <1>. QED
    BY <1>3, <1>4

\* The table after a write: the prepared one, with the fresh events of the group if they are stored.
LEMMA TableIsWritten ==
  ASSUME IInv, Enqueue
  PROVE  LET g == Prepared(c.job)
             fresh == Fresh(c.job)
         IN  /\ SpoolOk(sp', DOMAIN born) /\ sp'.seq >= sp.seq
             /\ g.s.rows \subseteq sp'.rows
             /\ \A r \in sp'.rows : r \in sp.rows \/ (r.seq > sp.seq /\ r.ev \in Elements(c.job))
             /\ Success \/ Failure
             /\ Coalesce /\ ~c'.failed => \A i \in fresh : c.job[i] \in Evs(sp'.rows)
             /\ full' \in BOOLEAN /\ faults' \in Nat
  <1>. DEFINE g == Prepared(c.job)
              gs == g.s
              fresh == Fresh(c.job)
              t == Insert(gs, c.job, fresh)
              new == t.rows \ gs.rows
              memo == Note(gs.memo, new)
  <1>1. /\ c.job \in Seq(Nat) /\ c.job # <<>> /\ Ascends(c.job)
        /\ Elements(c.job) \subseteq DOMAIN born
        /\ \A x \in Elements(c.job), r \in sp.rows : r.ev < x
    <2>1. CoalescerOk(c) /\ c.job # <<>>
      BY DEF IInv, Enqueue
    <2>2. MemoryInv
      BY DEF IInv
    <2>. QED
      BY <2>1, <2>2 DEF CoalescerOk, CoalescerType, MemoryInv, InMemory
  <1>2. SpoolOk(sp, DOMAIN born) /\ full \in BOOLEAN /\ faults \in Nat
    BY DEF IInv, ClockInv
  <1>3. /\ Shrunk(sp, gs) /\ SpoolOk(gs, DOMAIN born)
        /\ fresh # {} /\ ~gs.blocked => Cardinality(gs.rows) + Cardinality(fresh) <= MaxEvents
    BY <1>1, <1>2, TableIsPrepared
  <1>4. fresh \in SUBSET DOMAIN c.job
    BY DEF Fresh
  <1>5. \A i \in fresh : /\ born[c.job[i]] \in Int /\ born[c.job[i]] + TTL >= 0
                         /\ born[c.job[i]] >= 0 - Lag /\ born[c.job[i]] <= MaxTime
    <2>1. SUFFICES ASSUME NEW i \in fresh
                   PROVE  /\ born[c.job[i]] \in Int /\ born[c.job[i]] + TTL >= 0
                          /\ born[c.job[i]] >= 0 - Lag /\ born[c.job[i]] <= MaxTime
      OBVIOUS
    <2>2. c.job[i] \in Elements(c.job)
      BY <1>4 DEF Elements
    <2>3. c.job[i] \in DOMAIN born
      BY <1>1, <2>2
    <2>4. born[c.job[i]] \in Int /\ born[c.job[i]] >= 0 - Lag /\ born[c.job[i]] <= MaxTime
      BY <2>3 DEF IInv, ClockInv
    <2>5. born[c.job[i]] >= now - TTL /\ now \in Int /\ now >= 0
      BY Limits DEF Fresh, IInv, ClockInv
    <2>. QED
      BY <2>4, <2>5, Limits
  <1>6. \/ /\ sp' = gs /\ (fresh = {} \/ (Coalesce => Failure))
           /\ (Failure \/ Success)
           /\ UNCHANGED <<full, faults>>
        \/ /\ fresh # {} /\ ~gs.blocked /\ (Failure \/ Success) /\ UNCHANGED faults
           /\ \E over \in BOOLEAN : full' = over /\ sp' = [t EXCEPT !.memo = memo, !.blocked = over]
        \/ /\ fresh # {} /\ ~gs.blocked /\ Failure /\ faults' = faults + 1 /\ UNCHANGED full
           /\ \E m \in {Unknown, gs.memo, memo} : sp' = [gs EXCEPT !.memo = m]
    <2>1. \/ /\ sp' = gs /\ (fresh = {} \/ gs.blocked)
             /\ IF Coalesce /\ gs.blocked THEN Failure ELSE Success
             /\ UNCHANGED <<full, faults>>
          \/ /\ fresh # {} /\ ~gs.blocked /\ UNCHANGED faults
             /\ \E over \in BOOLEAN :
                   /\ full' = over /\ sp' = [t EXCEPT !.memo = Note(@, new), !.blocked = over]
                   /\ IF over /\ Coalesce THEN Failure ELSE Success
          \/ /\ fresh # {} /\ ~gs.blocked /\ Failure /\ faults' = faults + 1 /\ UNCHANGED full
             /\ \E m \in IF Len(c.job) > 1 THEN {Unknown} ELSE {Unknown, gs.memo, memo} :
                   sp' = [gs EXCEPT !.memo = m]
      BY DEF Enqueue
    <2>. HIDE DEF fresh, gs, g
    <2>2. t.memo = gs.memo
      <3>1. gs \in SpoolType
        BY <1>3 DEF Shrunk
      <3>. QED
        BY <3>1 DEF Insert, SpoolType
    <2>. HIDE DEF t, new
    <2>3. ASSUME NEW over \in BOOLEAN, sp' = [t EXCEPT !.memo = Note(@, new), !.blocked = over]
          PROVE  sp' = [t EXCEPT !.memo = memo, !.blocked = over]
      BY <2>2, <2>3
    <2>. HIDE DEF memo
    <2>4. CASE /\ sp' = gs /\ (fresh = {} \/ gs.blocked)
               /\ IF Coalesce /\ gs.blocked THEN Failure ELSE Success
               /\ UNCHANGED <<full, faults>>
      <3>1. CASE Coalesce /\ gs.blocked
        BY <2>4, <3>1
      <3>2. CASE ~(Coalesce /\ gs.blocked)
        <4>1. Success /\ (fresh = {} \/ (Coalesce => Failure))
          BY <2>4, <3>2
        <4>. QED
          BY <2>4, <4>1
      <3>. QED
        BY <3>1, <3>2
    <2>5. CASE /\ fresh # {} /\ ~gs.blocked /\ UNCHANGED faults
               /\ \E over \in BOOLEAN :
                     /\ full' = over /\ sp' = [t EXCEPT !.memo = Note(@, new), !.blocked = over]
                     /\ IF over /\ Coalesce THEN Failure ELSE Success
      <3>1. PICK over \in BOOLEAN :
                     /\ full' = over /\ sp' = [t EXCEPT !.memo = Note(@, new), !.blocked = over]
                     /\ IF over /\ Coalesce THEN Failure ELSE Success
        BY <2>5
      <3>2. Failure \/ Success
        <4>1. CASE over /\ Coalesce
          BY <3>1, <4>1
        <4>2. CASE ~(over /\ Coalesce)
          BY <3>1, <4>2
        <4>. QED
          BY <4>1, <4>2
      <3>3. full' = over /\ sp' = [t EXCEPT !.memo = memo, !.blocked = over]
        BY <2>3, <3>1
      <3>. QED
        BY <2>5, <3>2, <3>3
    <2>6. CASE /\ fresh # {} /\ ~gs.blocked /\ Failure /\ faults' = faults + 1 /\ UNCHANGED full
               /\ \E m \in IF Len(c.job) > 1 THEN {Unknown} ELSE {Unknown, gs.memo, memo} :
                     sp' = [gs EXCEPT !.memo = m]
      <3>1. PICK m \in IF Len(c.job) > 1 THEN {Unknown} ELSE {Unknown, gs.memo, memo} :
                     sp' = [gs EXCEPT !.memo = m]
        BY <2>6
      <3>2. m \in {Unknown, gs.memo, memo}
        OBVIOUS
      <3>. QED
        BY <2>6, <3>1, <3>2
    <2>. QED
      BY <2>1, <2>4, <2>5, <2>6
  <1>. HIDE DEF gs, g, fresh
  <1>7. gs \in SpoolType /\ gs.seq = sp.seq /\ gs.rows \subseteq sp.rows
    BY <1>3 DEF Shrunk
  <1>8. fresh # {} /\ ~gs.blocked =>
           /\ t \in SpoolType /\ t.memo = gs.memo
           /\ gs.rows \subseteq t.rows /\ t.seq >= sp.seq
           /\ RowsOk(t.rows, t.seq, DOMAIN born)
           /\ \A r \in new : r.seq > sp.seq /\ r.ev \in Elements(c.job)
           /\ \A i \in fresh : c.job[i] \in Evs(t.rows)
           /\ memo \in Int /\ MemoOk(memo, t.rows)
    <2>1. SUFFICES ASSUME fresh # {}, ~gs.blocked
                   PROVE  /\ t \in SpoolType /\ t.memo = gs.memo
                          /\ gs.rows \subseteq t.rows /\ t.seq >= sp.seq
                          /\ RowsOk(t.rows, t.seq, DOMAIN born)
                          /\ \A r \in new : r.seq > sp.seq /\ r.ev \in Elements(c.job)
                          /\ \A i \in fresh : c.job[i] \in Evs(t.rows)
                          /\ memo \in Int /\ MemoOk(memo, t.rows)
      OBVIOUS
    <2>2. \A x \in Elements(c.job), r \in gs.rows : r.ev < x
      BY <1>1, <1>7
    <2>3. Cardinality(gs.rows) + Cardinality(fresh) <= MaxEvents
      BY <1>3, <2>1
    <2>4. /\ t \in SpoolType /\ t.memo = gs.memo
          /\ gs.rows \subseteq t.rows /\ t.seq >= gs.seq
          /\ RowsOk(t.rows, t.seq, DOMAIN born)
          /\ \A r \in new : r.seq > gs.seq /\ \E i \in fresh : r.ev = c.job[i]
          /\ \A i \in fresh : c.job[i] \in Evs(t.rows)
      BY <1>1, <1>3, <1>4, <1>5, <2>2, <2>3, InsertContinues
    <2>. HIDE DEF t
    <2>5. \A r \in new : r.ev \in Elements(c.job)
      BY <1>4, <2>4 DEF Elements
    <2>6. memo \in Int /\ MemoOk(memo, gs.rows \cup new)
      <3>1. \A r \in new : Expiry(r) \in Nat /\ Expiry(r) >= TTL - Lag /\ Expiry(r) <= Empty
        BY <2>4 DEF RowsOk
      <3>2. new \in SUBSET RowType /\ gs.rows \in SUBSET RowType /\ gs.memo \in Int
        BY <1>7, <2>4 DEF SpoolType
      <3>3. MemoOk(gs.memo, gs.rows)
        BY <1>3 DEF SpoolOk
      <3>. HIDE DEF new
      <3>. QED
        BY <3>1, <3>2, <3>3, NoteIsSound
    <2>7. gs.rows \cup new = t.rows
      BY <2>4
    <2>. HIDE DEF new, memo
    <2>. QED
      BY <1>7, <2>4, <2>5, <2>6, <2>7
  <1>. HIDE DEF t, memo
  <1>9. /\ SpoolOk(sp', DOMAIN born) /\ sp'.seq >= sp.seq /\ gs.rows \subseteq sp'.rows
        /\ \A r \in sp'.rows : r \in sp.rows \/ (r.seq > sp.seq /\ r.ev \in Elements(c.job))
        /\ sp'.rows = t.rows \/ sp'.rows = gs.rows
    <2>1. CASE sp' = gs
      BY <1>3, <1>7, <2>1 DEF SpoolType
    <2>2. ASSUME fresh # {}, ~gs.blocked, NEW over \in BOOLEAN,
                 sp' = [t EXCEPT !.memo = memo, !.blocked = over]
          PROVE  /\ SpoolOk(sp', DOMAIN born) /\ sp'.seq >= sp.seq /\ gs.rows \subseteq sp'.rows
                 /\ \A r \in sp'.rows : r \in sp.rows \/ (r.seq > sp.seq /\ r.ev \in Elements(c.job))
                 /\ sp'.rows = t.rows
      <3>1. /\ sp' \in SpoolType /\ sp'.rows = t.rows /\ sp'.seq = t.seq /\ sp'.memo = memo
        BY <1>8, <2>2 DEF SpoolType
      <3>. QED
        BY <1>7, <1>8, <2>2, <3>1 DEF SpoolOk
    <2>3. ASSUME fresh # {}, ~gs.blocked, NEW m \in {Unknown, gs.memo, memo}, sp' = [gs EXCEPT !.memo = m]
          PROVE  /\ SpoolOk(sp', DOMAIN born) /\ sp'.seq >= sp.seq /\ gs.rows \subseteq sp'.rows
                 /\ \A r \in sp'.rows : r \in sp.rows \/ (r.seq > sp.seq /\ r.ev \in Elements(c.job))
                 /\ sp'.rows = gs.rows
      <3>1. m \in Int /\ MemoOk(m, gs.rows)
        <4>1. CASE m = Unknown
          BY <4>1, Limits DEF MemoOk
        <4>2. CASE m = memo
          BY <1>8, <2>3, <4>2, MemoOfLess
        <4>3. CASE m = gs.memo
          BY <1>3, <1>7, <4>3 DEF SpoolOk, SpoolType
        <4>. QED
          BY <4>1, <4>2, <4>3
      <3>2. sp' \in SpoolType /\ sp'.rows = gs.rows /\ sp'.seq = gs.seq /\ sp'.memo = m
        BY <1>7, <2>3, <3>1 DEF SpoolType
      <3>. QED
        BY <1>3, <1>7, <3>1, <3>2 DEF SpoolOk, SpoolType
    <2>. QED
      BY <1>6, <2>1, <2>2, <2>3
  <1>10. Failure => (c'.failed = Coalesce)
    <2>1. c \in CoalescerType
      BY DEF IInv, CoalescerOk
    <2>. QED
      BY <2>1 DEF Failure, Fail, CoalescerType
  <1>11. Coalesce /\ ~c'.failed => \A i \in fresh : c.job[i] \in Evs(sp'.rows)
    <2>1. CASE fresh = {}
      BY <2>1
    <2>2. CASE Coalesce => Failure
      BY <1>10, <2>2
    <2>3. ASSUME fresh # {}, ~gs.blocked, NEW over \in BOOLEAN,
                 sp' = [t EXCEPT !.memo = memo, !.blocked = over]
          PROVE  \A i \in fresh : c.job[i] \in Evs(sp'.rows)
      <3>1. sp'.rows = t.rows
        BY <1>8, <2>3 DEF SpoolType
      <3>. QED
        BY <1>8, <2>3, <3>1
    <2>. QED
      BY <1>6, <2>1, <2>2, <2>3
  <1>12. Success \/ Failure
    BY <1>6
  <1>13. full' \in BOOLEAN /\ faults' \in Nat
    <2>1. full' \in BOOLEAN
      BY <1>2, <1>6
    <2>2. faults' = faults \/ faults' = faults + 1
      BY <1>6
    <2>. QED
      BY <1>2, <2>1, <2>2
  <1>. QED
    BY <1>9, <1>11, <1>12, <1>13 DEF gs, g, fresh

\* The rows that leave the table are those purged and those evicted.
LEMMA RowsAreAccounted ==
  ASSUME NEW rows, NEW purged \in SUBSET rows, NEW left \in SUBSET purged, NEW after, left \subseteq after
  PROVE  Evs(rows) \subseteq Evs(rows \ purged) \cup Evs(purged \ left) \cup Evs(after)
  BY DEF Evs

LEMMA EnqueueKeeps ==
  ASSUME IInv, Enqueue
  PROVE  IInv'
  <1>. DEFINE g == Prepared(c.job)
              fresh == Fresh(c.job)
              dropped == {c.job[i] : i \in DOMAIN c.job \ fresh}
  <1>1. /\ c.job # <<>> /\ c.job \in Seq(Nat) /\ CoalescerOk(c)
        /\ SpoolOk(sp, DOMAIN born) /\ MemoryInv /\ ProducerOk(d, sp, log.server) /\ LogInv
        /\ ClockInv /\ UNCHANGED <<now, born, d>>
    BY DEF IInv, Enqueue, CoalescerOk, CoalescerType
  <1>2. /\ SpoolOk(sp', DOMAIN born) /\ sp'.seq >= sp.seq
        /\ g.s.rows \subseteq sp'.rows
        /\ \A r \in sp'.rows : r \in sp.rows \/ (r.seq > sp.seq /\ r.ev \in Elements(c.job))
        /\ Success \/ Failure
        /\ Coalesce /\ ~c'.failed => \A i \in fresh : c.job[i] \in Evs(sp'.rows)
        /\ full' \in BOOLEAN /\ faults' \in Nat
    BY TableIsWritten
  <1>3. /\ CoalescerOk(c')
        /\ InMemory(c') \subseteq InMemory(c)
        /\ \A x \in InMemory(c') : x = c.cur /\ x # 0
        /\ ~c'.failed /\ Coalesce => InMemory(c) \subseteq InMemory(c') \cup Elements(c.job)
    BY <1>1, <1>2, WriteEnds
  <1>4. /\ g.s.rows \subseteq g.purged /\ g.purged \subseteq sp.rows
        /\ Evs(g.purged \ g.s.rows) \cap Health = {}
    BY <1>1, TableIsPrepared
  <1>5. /\ log'.durable = log.durable \cup Evs(sp'.rows) /\ log'.server = log.server
        /\ log'.past = log.past
        /\ log'.stale = log.stale \cup Evs(sp.rows \ g.purged) \cup dropped
        /\ log'.evicted = log.evicted \cup Evs(g.purged \ g.s.rows)
        /\ log' = [durable |-> log'.durable, stale |-> log'.stale, evicted |-> log'.evicted,
                   server |-> log'.server, past |-> log'.past]
    <2>1. log' = [Logged(sp.rows, g.purged, g.s.rows, dropped) EXCEPT !.durable = @ \cup Evs(sp'.rows)]
      BY DEF Enqueue
    <2>. HIDE DEF g, dropped
    <2>. DEFINE a == Evs(sp.rows \ g.purged) \cup dropped
                b == Evs(g.purged \ g.s.rows)
                e == Evs(sp'.rows)
    <2>2. log' = [log EXCEPT !.stale = log.stale \cup a, !.evicted = log.evicted \cup b,
                             !.durable = log.durable \cup e]
      BY <1>1, <2>1 DEF Logged, LogInv, LogType
    <2>. HIDE DEF a, b, e
    <2>3. /\ log'.durable = log.durable \cup e /\ log'.server = log.server
          /\ log'.past = log.past
          /\ log'.stale = log.stale \cup a /\ log'.evicted = log.evicted \cup b
          /\ log' = [durable |-> log'.durable, stale |-> log'.stale, evicted |-> log'.evicted,
                     server |-> log'.server, past |-> log'.past]
      BY <1>1, <2>2 DEF LogInv, LogType
    <2>. QED
      BY <2>3 DEF a, b, e
  <1>. HIDE DEF g
  <1>6. ClockInv'
    BY <1>1, <1>2 DEF ClockInv
  <1>7. SpoolOk(sp, DOMAIN born)'
    <2>1. DOMAIN born' = DOMAIN born
      BY <1>1
    <2>. QED
      BY <1>2, <2>1 DEF SpoolOk, RowsOk, MemoOk
  <1>8. MemoryInv'
    <2>1. InMemory(c') \subseteq DOMAIN born
      BY <1>1, <1>3 DEF MemoryInv
    <2>2. ASSUME NEW x \in InMemory(c'), NEW r \in sp'.rows PROVE r.ev < x
      <3>1. x = c.cur /\ c.cur # 0 /\ x \in InMemory(c)
        BY <1>3
      <3>2. CASE r \in sp.rows
        BY <1>1, <3>1, <3>2 DEF MemoryInv
      <3>3. CASE r.ev \in Elements(c.job)
        BY <1>1, <3>1, <3>3 DEF CoalescerOk
      <3>. QED
        BY <1>2, <3>2, <3>3
    <2>. QED
      BY <1>1, <2>1, <2>2 DEF MemoryInv
  <1>9. ProducerOk(d, sp, log.server)'
    <2>1. sp \in SpoolType /\ sp' \in SpoolType
      BY <1>1, <1>2 DEF SpoolOk
    <2>2. ProducerOk(d, sp', log'.server)
      BY <1>1, <1>2, <1>5, <2>1, ProducerKept
    <2>. QED
      BY <1>1, <2>2 DEF ProducerOk
  <1>10. LogInv'
    <2>1. log' \in LogType
      <3>1. \A x \in Evs(sp'.rows) \cup Evs(sp.rows) : x \in Nat
        BY <1>1, <1>2 DEF Evs, SpoolOk, SpoolType, RowType
      <3>2. Evs(sp.rows \ g.purged) \subseteq Evs(sp.rows) /\ Evs(g.purged \ g.s.rows) \subseteq Evs(sp.rows)
        BY <1>4 DEF Evs
      <3>3. dropped \in SUBSET Nat
        BY <1>1
      <3>4. /\ log.durable \in SUBSET Nat /\ log.stale \in SUBSET Nat
            /\ log.evicted \in SUBSET Nat /\ log.server \in SUBSET Nat /\ log.past \in SUBSET Nat
        BY <1>1 DEF LogInv, LogType
      <3>. HIDE DEF dropped
      <3>5. /\ log'.durable \in SUBSET Nat /\ log'.stale \in SUBSET Nat
            /\ log'.evicted \in SUBSET Nat /\ log'.server \in SUBSET Nat
        BY <1>5, <3>1, <3>2, <3>3, <3>4
      <3>6. log'.past \in SUBSET Nat
        BY <1>5, <3>4
      <3>. QED
        BY <1>5, <3>5, <3>6 DEF LogType
    <2>2. log'.durable \subseteq Evs(sp'.rows) \cup log'.server \cup log'.stale \cup log'.evicted
      <3>1. log.durable \subseteq Evs(sp.rows) \cup log.server \cup log.stale \cup log.evicted
        BY <1>1 DEF LogInv, NothingVanishes
      <3>2. Evs(sp.rows) \subseteq Evs(sp.rows \ g.purged) \cup Evs(g.purged \ g.s.rows) \cup Evs(sp'.rows)
        BY <1>2, <1>4, RowsAreAccounted
      <3>. HIDE DEF dropped
      <3>. QED
        BY <1>5, <3>1, <3>2
    <2>3. log'.evicted \cap Health = {}
      BY <1>1, <1>4, <1>5 DEF LogInv, NothingVanishes
    <2>4. ASSUME Coalesce, ~c'.failed
          PROVE  DOMAIN born' \ log'.past \subseteq log'.durable \cup log'.stale \cup InMemory(c')
      <3>1. ~c.failed
        <4>1. c'.failed \in BOOLEAN /\ c \in CoalescerType
          BY <1>1, <1>3 DEF CoalescerOk, CoalescerType
        <4>2. CASE Success
          <5>1. c'.failed = c.failed
            BY <4>1, <4>2 DEF Success, CoalescerType
          <5>. QED
            BY <2>4, <5>1
        <4>3. CASE Failure
          <5>1. c'.failed = Coalesce
            BY <4>1, <4>3 DEF Failure, Fail, CoalescerType
          <5>. QED
            BY <2>4, <5>1
        <4>. QED
          BY <1>2, <4>2, <4>3
      <3>2. DOMAIN born \ log.past \subseteq log.durable \cup log.stale \cup InMemory(c)
        BY <1>1, <2>4, <3>1 DEF LogInv
      <3>3. InMemory(c) \subseteq InMemory(c') \cup Elements(c.job)
        BY <1>3, <2>4
      <3>4. Elements(c.job) \subseteq Evs(sp'.rows) \cup dropped
        <4>1. ASSUME NEW i \in DOMAIN c.job PROVE c.job[i] \in Evs(sp'.rows) \cup dropped
          BY <1>2, <2>4
        <4>. QED
          BY <4>1 DEF Elements
      <3>. HIDE DEF dropped
      <3>. QED
        BY <1>1, <1>5, <3>2, <3>3, <3>4
    <2>. QED
      BY <2>1, <2>2, <2>3, <2>4 DEF LogInv, NothingVanishes
  <1>. QED
    BY <1>3, <1>6, <1>7, <1>8, <1>9, <1>10 DEF IInv

-----------------------------------------------------------------------------
(* The other actions *)

LEMMA SubmitKeeps ==
  ASSUME IInv, NEW by \in Threads \cup {"handler"}, NEW obs \in (now - Lag)..now, Submit(by, obs)
  PROVE  IInv'
  <1>. DEFINE e == Cardinality(DOMAIN born) + 1
  <1>1. /\ ClockInv /\ SpoolOk(sp, DOMAIN born) /\ CoalescerOk(c) /\ MemoryInv /\ LogInv
        /\ ProducerOk(d, sp, log.server) /\ c \in CoalescerType
    BY DEF IInv, CoalescerOk
  <1>2. PICK n \in Nat : DOMAIN born = 1..n
    BY <1>1 DEF ClockInv
  <1>3. e = n + 1
    BY <1>2, FS_Interval
  <1>4. /\ c.cur = 0 /\ c.job = <<>> /\ ~c.stop /\ e \in Events
        /\ born' = [x \in DOMAIN born \cup {e} |-> IF x = e THEN obs ELSE born[x]]
        /\ c' = [c EXCEPT !.cur = e, !.at = now, !.by = by]
        /\ d' = d \/ d' = [d EXCEPT !.pc = "idle"]
        /\ UNCHANGED <<now, sp, full, log, faults>>
    BY DEF Submit, LockFree
  <1>. HIDE DEF e
  <1>5. DOMAIN born' = 1..(n + 1) /\ DOMAIN born' = DOMAIN born \cup {e}
    BY <1>2, <1>3, <1>4
  <1>6. ClockInv'
    <2>1. \A x \in DOMAIN born' : born'[x] \in Int /\ born'[x] >= 0 - Lag /\ born'[x] <= MaxTime
      <3>1. now \in 0..MaxTime /\ obs \in Int /\ obs >= 0 - Lag /\ obs <= MaxTime
        BY <1>1, Limits DEF ClockInv
      <3>. QED
        BY <1>1, <1>4, <1>5, <3>1 DEF ClockInv
    <2>2. \E m \in Nat : DOMAIN born' = 1..m
      BY <1>5
    <2>. QED
      BY <1>1, <1>4, <1>5, <2>1, <2>2 DEF ClockInv
  <1>7. SpoolOk(sp, DOMAIN born)'
    BY <1>1, <1>4, <1>5 DEF SpoolOk, RowsOk, MemoOk
  <1>8. /\ c' \in CoalescerType /\ c'.pend = c.pend /\ c'.job = <<>> /\ c'.cur = e
        /\ c'.bytes = c.bytes /\ c'.disabled = c.disabled /\ c'.failed = c.failed
        /\ c'.stop = c.stop /\ c'.closing = c.closing /\ c'.result = c.result
        /\ e \in Nat /\ e # 0 /\ \A x \in DOMAIN born : x \in Nat /\ x < e
    <2>1. now \in Nat
      BY <1>1 DEF ClockInv
    <2>2. e \in Nat /\ e # 0 /\ \A x \in DOMAIN born : x \in Nat /\ x < e
      BY <1>2, <1>3
    <2>. QED
      BY <1>1, <1>4, <2>1, <2>2 DEF CoalescerType
  <1>9. CoalescerOk(c')
    <2>1. Elements(c.pend) \subseteq DOMAIN born
      BY <1>1 DEF MemoryInv, InMemory
    <2>. QED
      BY <1>1, <1>4, <1>8, <2>1, NoElements DEF CoalescerOk
  <1>10. InMemory(c') = InMemory(c) \cup {e}
    BY <1>4, <1>8 DEF InMemory
  <1>11. MemoryInv'
    <2>1. \A r \in sp.rows : r.ev \in DOMAIN born
      BY <1>1 DEF SpoolOk, RowsOk
    <2>. QED
      BY <1>1, <1>4, <1>5, <1>8, <1>10, <2>1 DEF MemoryInv
  <1>12. ProducerOk(d, sp, log.server)'
    BY <1>1, <1>4 DEF ProducerOk
  <1>13. LogInv'
    BY <1>1, <1>4, <1>5, <1>8, <1>10 DEF LogInv, NothingVanishes
  <1>. QED
    BY <1>6, <1>7, <1>9, <1>11, <1>12, <1>13 DEF IInv

LEMMA DeliverOnceKeeps ==
  ASSUME IInv, DeliverOnce
  PROVE  IInv'
  <1>. DEFINE u == PurgeIfNeeded(sp, TRUE)
              s == Refresh(u, 0)
              fresh == s.rows \ Stale(s.rows)
  <1>1. /\ ClockInv /\ SpoolOk(sp, DOMAIN born) /\ CoalescerOk(c) /\ MemoryInv /\ LogInv
        /\ ProducerOk(d, sp, log.server)
    BY DEF IInv
  <1>2. /\ sp' = s /\ log' = Logged(sp.rows, s.rows, s.rows, {})
        /\ d' = d \/ d' = [d EXCEPT !.pc = "post", !.batch = Batch(fresh)]
        /\ UNCHANGED <<now, born, full, c, faults>>
    BY DEF DeliverOnce
  <1>3. Shrunk(sp, u) /\ SpoolOk(u, DOMAIN born)
    BY <1>1, PurgeKeeps
  <1>4. s \in SpoolType /\ s.rows = u.rows /\ s.seq = u.seq /\ s.memo = u.memo
    <2>. HIDE DEF u
    <2>. QED
      BY <1>3, Refreshed DEF SpoolOk
  <1>. HIDE DEF s, u
  <1>5. SpoolOk(s, DOMAIN born) /\ s.rows \subseteq sp.rows /\ s.seq = sp.seq
    BY <1>3, <1>4 DEF SpoolOk, Shrunk
  <1>6. /\ log'.durable = log.durable /\ log'.server = log.server
        /\ log'.stale = log.stale \cup Evs(sp.rows \ s.rows) /\ log'.evicted = log.evicted
        /\ log'.past = log.past
        /\ log' \in LogType
    <2>. DEFINE a == Evs(sp.rows \ s.rows)
    <2>1. Evs(s.rows \ s.rows) = {}
      BY DEF Evs
    <2>2. a \in SUBSET Nat
      BY <1>1 DEF Evs, SpoolOk, SpoolType, RowType
    <2>3. log' = [log EXCEPT !.stale = log.stale \cup a, !.evicted = log.evicted]
      <3>. HIDE DEF a
      <3>1. log' = [log EXCEPT !.stale = @ \cup a \cup {}, !.evicted = @ \cup {}]
        BY <1>2, <2>1 DEF Logged, a
      <3>. QED
        BY <1>1, <3>1 DEF LogInv, LogType
    <2>. HIDE DEF a
    <2>4. /\ log'.durable = log.durable /\ log'.server = log.server
          /\ log'.stale = log.stale \cup a /\ log'.evicted = log.evicted
          /\ log'.past = log.past
          /\ log' \in LogType
      BY <1>1, <2>2, <2>3 DEF LogInv, LogType
    <2>. QED
      BY <2>4 DEF a
  <1>7. ProducerOk(d', s, log'.server)
    <2>1. sp \in SpoolType /\ s \in SpoolType
      BY <1>1, <1>4 DEF SpoolOk
    <2>2. ProducerOk(d, s, log'.server)
      BY <1>1, <1>5, <1>6, <2>1, ProducerKept DEF SpoolType
    <2>3. CASE d' = [d EXCEPT !.pc = "post", !.batch = Batch(fresh)]
      <3>1. Batch(fresh) \subseteq s.rows
        BY DEF Batch, FirstBySeq
      <3>. DEFINE B == Batch(fresh)
      <3>. HIDE DEF B, fresh
      <3>2. /\ d' \in [pc : {"idle", "post", "ack", "report"}, batch : SUBSET RowType, perm : BOOLEAN]
            /\ d'.pc = "post" /\ d'.batch = B
        <4>1. B \in SUBSET RowType
          BY <2>1, <3>1 DEF B, SpoolType
        <4>. QED
          BY <2>2, <2>3, <4>1 DEF ProducerOk, B
      <3>3. ASSUME NEW b \in B PROVE b.seq <= s.seq /\ \A r \in s.rows : r.seq = b.seq => r.ev = b.ev
        <4>1. b \in s.rows /\ s.seq \in Nat
          BY <2>1, <3>1 DEF B, SpoolType
        <4>2. \A r \in s.rows : r.ev \in Nat /\ r.seq \in Nat
          BY <2>1 DEF SpoolType, RowType
        <4>3. \A r \in s.rows : (r.ev < b.ev => r.seq < b.seq) /\ (b.ev < r.ev => b.seq < r.seq)
          BY <1>5, <4>1 DEF SpoolOk, RowsOk
        <4>4. b.seq <= s.seq
          BY <1>5, <4>1, <4>2 DEF SpoolOk, RowsOk
        <4>. QED
          BY <4>1, <4>2, <4>3, <4>4
      <3>. QED
        BY <3>2, <3>3 DEF ProducerOk
    <2>. QED
      BY <1>2, <2>2, <2>3
  <1>8. MemoryInv'
    BY <1>1, <1>2, <1>5 DEF MemoryInv
  <1>9. LogInv'
    <2>1. Evs(sp.rows) \subseteq Evs(sp.rows \ s.rows) \cup Evs(s.rows)
      BY DEF Evs
    <2>. QED
      BY <1>1, <1>2, <1>6, <2>1 DEF LogInv, NothingVanishes
  <1>10. ClockInv' /\ SpoolOk(sp, DOMAIN born)' /\ CoalescerOk(c)' /\ ProducerOk(d, sp, log.server)'
    <2>1. ClockInv'
      BY <1>1, <1>2 DEF ClockInv
    <2>2. SpoolOk(sp, DOMAIN born)'
      BY <1>2, <1>5 DEF SpoolOk, RowsOk, MemoOk
    <2>3. CoalescerOk(c)'
      BY <1>1, <1>2
    <2>4. ProducerOk(d, sp, log.server)'
      BY <1>2, <1>7 DEF ProducerOk
    <2>. QED
      BY <2>1, <2>2, <2>3, <2>4
  <1>. QED
    BY <1>8, <1>9, <1>10 DEF IInv

LEMMA PostKeeps ==
  ASSUME IInv, NEW answer \in {"ok", "none", "transient", "permanent"}, Post(answer)
  PROVE  IInv'
  <1>1. /\ ClockInv /\ SpoolOk(sp, DOMAIN born) /\ CoalescerOk(c) /\ MemoryInv /\ LogInv
        /\ ProducerOk(d, sp, log.server)
        /\ UNCHANGED <<now, born, sp, full, c, faults>>
    BY DEF IInv, Post
  <1>2. PICK received \in BOOLEAN :
           /\ log' = [log EXCEPT !.server = @ \cup (IF received THEN Evs(d.batch) ELSE {})]
           /\ answer = "ok" => received
    BY DEF Post
  <1>. DEFINE a == IF received THEN Evs(d.batch) ELSE {}
  <1>3. a \in SUBSET Nat
    <2>1. d.batch \subseteq RowType
      BY <1>1 DEF ProducerOk
    <2>. QED
      BY <2>1 DEF Evs, RowType
  <1>4. /\ log'.durable = log.durable /\ log'.stale = log.stale /\ log'.evicted = log.evicted
        /\ log'.server = log.server \cup a /\ log'.past = log.past
        /\ log' \in LogType
    <2>1. log' = [log EXCEPT !.server = @ \cup a]
      BY <1>2
    <2>. HIDE DEF a
    <2>. QED
      BY <1>1, <1>3, <2>1 DEF LogInv, LogType
  <1>5. answer = "ok" => Evs(d.batch) \subseteq log'.server
    BY <1>2, <1>4
  <1>. HIDE DEF a
  <1>6. ProducerOk(d', sp, log'.server)
    <2>1. CASE answer = "ok"
      <3>1. d' = [d EXCEPT !.pc = "ack"]
        BY <2>1 DEF Post
      <3>2. /\ d' \in [pc : {"idle", "post", "ack", "report"}, batch : SUBSET RowType, perm : BOOLEAN]
            /\ d'.batch = d.batch
        BY <1>1, <3>1 DEF ProducerOk
      <3>. QED
        BY <1>1, <1>5, <2>1, <3>2 DEF ProducerOk
    <2>2. CASE answer # "ok"
      <3>1. d' = [NewProducer EXCEPT !.perm = TRUE] \/ d' = [d EXCEPT !.pc = "report", !.batch = {}]
        BY <2>2 DEF Post, Retry
      <3>2. /\ d' \in [pc : {"idle", "post", "ack", "report"}, batch : SUBSET RowType, perm : BOOLEAN]
            /\ d'.batch = {} /\ d'.pc # "ack"
        BY <1>1, <3>1 DEF ProducerOk, NewProducer
      <3>. QED
        BY <3>2 DEF ProducerOk
    <2>. QED
      BY <2>1, <2>2
  <1>7. ProducerOk(d, sp, log.server)'
    BY <1>1, <1>6 DEF ProducerOk
  <1>8. LogInv'
    BY <1>1, <1>4 DEF LogInv, NothingVanishes
  <1>9. ClockInv' /\ SpoolOk(sp, DOMAIN born)' /\ CoalescerOk(c)' /\ MemoryInv'
    BY <1>1 DEF ClockInv, SpoolOk, RowsOk, MemoOk, MemoryInv
  <1>. QED
    BY <1>7, <1>8, <1>9 DEF IInv

LEMMA AcknowledgeKeeps ==
  ASSUME IInv, Acknowledge
  PROVE  IInv'
  <1>. DEFINE left == {r \in sp.rows : ~\E b \in d.batch : b.seq = r.seq}
  <1>1. /\ ClockInv /\ SpoolOk(sp, DOMAIN born) /\ CoalescerOk(c) /\ MemoryInv /\ LogInv
        /\ ProducerOk(d, sp, log.server) /\ d.pc = "ack"
        /\ d' = [d EXCEPT !.pc = "report", !.batch = {}]
        /\ UNCHANGED <<now, born, full, c, log>>
    BY DEF IInv, Acknowledge
  <1>2. faults' \in Nat
    BY <1>1 DEF Acknowledge, ClockInv
  <1>3. sp \in SpoolType /\ sp.rows \in SUBSET RowType
    BY <1>1 DEF SpoolOk, SpoolType
  <1>4. /\ sp' \in SpoolType /\ sp'.seq = sp.seq /\ sp'.memo = sp.memo
        /\ sp'.rows \subseteq sp.rows /\ left \subseteq sp'.rows
    <2>. DEFINE s == [sp EXCEPT !.rows = left]
    <2>1. s \in SpoolType /\ s.rows = left /\ s.seq = sp.seq /\ s.memo = sp.memo
      <3>1. left \in SUBSET RowType
        BY <1>3
      <3>. HIDE DEF left
      <3>. QED
        BY <1>3, <3>1 DEF SpoolType
    <2>2. CASE sp' = Refresh([sp EXCEPT !.rows = @ \ {r \in @ : \E b \in d.batch : b.seq = r.seq}], 0)
      <3>1. [sp EXCEPT !.rows = @ \ {r \in @ : \E b \in d.batch : b.seq = r.seq}] = s
        <4>1. sp.rows \ {r \in sp.rows : \E b \in d.batch : b.seq = r.seq} = left
          OBVIOUS
        <4>. HIDE DEF left
        <4>. QED
          BY <4>1
      <3>2. sp' = Refresh(s, 0)
        BY <2>2, <3>1
      <3>. HIDE DEF s
      <3>3. sp' \in SpoolType /\ sp'.rows = left /\ sp'.seq = sp.seq /\ sp'.memo = sp.memo
        BY <2>1, <3>2, Refreshed
      <3>. QED
        BY <3>3
    <2>3. CASE sp' = sp
      BY <1>3, <2>3
    <2>. QED
      BY <2>2, <2>3 DEF Acknowledge
  <1>5. SpoolOk(sp', DOMAIN born)
    BY <1>1, <1>4, MemoOfLess, ShrunkIsOk DEF Shrunk, SpoolOk
  <1>6. Evs(sp.rows) \subseteq Evs(sp'.rows) \cup log.server
    <2>1. ASSUME NEW r \in sp.rows PROVE r.ev \in Evs(sp'.rows) \cup log.server
      <3>1. CASE r \in sp'.rows
        BY <3>1 DEF Evs
      <3>2. CASE r \notin sp'.rows
        <4>1. PICK b \in d.batch : b.seq = r.seq
          BY <1>4, <3>2
        <4>2. r.ev = b.ev
          BY <1>1, <4>1 DEF ProducerOk
        <4>. QED
          BY <1>1, <4>2 DEF ProducerOk, Evs
      <3>. QED
        BY <3>1, <3>2
    <2>. QED
      BY <2>1 DEF Evs
  <1>. HIDE DEF left
  <1>7. ProducerOk(d, sp, log.server)'
    <2>1. /\ d' \in [pc : {"idle", "post", "ack", "report"}, batch : SUBSET RowType, perm : BOOLEAN]
          /\ d'.batch = {} /\ d'.pc = "report"
      BY <1>1 DEF ProducerOk
    <2>. QED
      BY <2>1 DEF ProducerOk
  <1>8. LogInv'
    BY <1>1, <1>2, <1>6 DEF LogInv, NothingVanishes
  <1>9. ClockInv' /\ SpoolOk(sp, DOMAIN born)' /\ CoalescerOk(c)' /\ MemoryInv'
    <2>1. ClockInv'
      BY <1>1, <1>2 DEF ClockInv
    <2>2. SpoolOk(sp, DOMAIN born)'
      BY <1>1, <1>5 DEF SpoolOk, RowsOk, MemoOk
    <2>3. CoalescerOk(c)' /\ MemoryInv'
      BY <1>1, <1>4 DEF MemoryInv
    <2>. QED
      BY <2>1, <2>2, <2>3
  <1>. QED
    BY <1>7, <1>8, <1>9 DEF IInv

LEMMA NothingToReportKeeps ==
  ASSUME IInv, NothingToReport
  PROVE  IInv'
  <1>1. d' = [d EXCEPT !.pc = "idle"] /\ UNCHANGED <<now, born, sp, full, c, log, faults>>
    BY DEF NothingToReport
  <1>2. ProducerOk(d, sp, log.server)'
    BY <1>1 DEF IInv, ProducerOk
  <1>. QED
    BY <1>1, <1>2 DEF IInv, ClockInv, SpoolOk, RowsOk, MemoOk, MemoryInv, LogInv, NothingVanishes

LEMMA StartIsOk ==
  ASSUME NEW ok \in BOOLEAN
  PROVE  LET k == StartedCoalescer(ok)
         IN  CoalescerOk(k) /\ InMemory(k) = {}
  <1>. DEFINE t == IF Coalesce /\ ok THEN "ready" ELSE "off"
              dis == Coalesce /\ ~ok
              k == [NewCoalescer EXCEPT !.timer = t, !.disabled = dis]
  <1>1. StartedCoalescer(ok) = k
    BY DEF StartedCoalescer
  <1>2. t \in {"off", "ready"} /\ dis \in BOOLEAN
    BY Limits
  <1>. HIDE DEF t, dis
  <1>3. /\ k \in CoalescerType /\ k.pend = <<>> /\ k.bytes = 0 /\ k.job = <<>> /\ k.cur = 0
        /\ ~k.closing /\ k.result = "none"
    BY <1>2, NoElements DEF NewCoalescer, CoalescerType
  <1>. HIDE DEF k
  <1>4. CoalescerOk(k)
    BY <1>3, NoElements, Limits DEF CoalescerOk
  <1>5. InMemory(k) = {}
    BY <1>3, NoElements DEF InMemory
  <1>. QED
    BY <1>1, <1>4, <1>5

LEMMA CrashKeeps ==
  ASSUME IInv, Crash
  PROVE  IInv'
  <1>1. /\ ClockInv /\ SpoolOk(sp, DOMAIN born) /\ LogInv /\ faults' = faults + 1
        /\ sp' = [sp EXCEPT !.memo = Unknown, !.blocked = FALSE] /\ d' = NewProducer
        /\ log' = [log EXCEPT !.past = DOMAIN born]
        /\ UNCHANGED <<now, born, full>>
    BY DEF IInv, Crash
  <1>2. CoalescerOk(c') /\ InMemory(c') = {}
    BY StartIsOk DEF Crash
  <1>3. sp' \in SpoolType /\ sp'.rows = sp.rows /\ sp'.seq = sp.seq /\ sp'.memo = Unknown
    <2>1. Unknown \in Int
      BY Limits
    <2>. QED
      BY <1>1, <2>1 DEF SpoolOk, SpoolType
  <1>4. SpoolOk(sp', DOMAIN born)
    BY <1>1, <1>3 DEF SpoolOk, MemoOk
  <1>5. ClockInv'
    BY <1>1 DEF ClockInv
  <1>6. SpoolOk(sp, DOMAIN born)'
    BY <1>1, <1>4 DEF SpoolOk, RowsOk, MemoOk
  <1>7. MemoryInv'
    BY <1>2 DEF MemoryInv
  <1>8. ProducerOk(d, sp, log.server)'
    BY <1>1 DEF ProducerOk, NewProducer
  <1>9. LogInv'
    <2>1. DOMAIN born \in SUBSET Nat
      BY <1>1 DEF ClockInv
    <2>2. /\ log' \in LogType /\ log'.past = DOMAIN born /\ log'.durable = log.durable
          /\ log'.stale = log.stale /\ log'.evicted = log.evicted /\ log'.server = log.server
      BY <1>1, <2>1 DEF LogInv, LogType
    <2>. QED
      BY <1>1, <1>3, <2>2 DEF LogInv, NothingVanishes
  <1>. QED
    BY <1>2, <1>5, <1>6, <1>7, <1>8, <1>9 DEF IInv

LEMMA TimePasses ==
  ASSUME IInv, Tick \/ DiskRelief
  PROVE  IInv'
  <1>1. ClockInv'
    <2>1. ClockInv /\ UNCHANGED <<born, faults>> /\ full' \in BOOLEAN
      BY DEF IInv, ClockInv, Tick, DiskRelief
    <2>2. now' \in 0..MaxTime
      <3>1. now \in 0..MaxTime
        BY <2>1 DEF ClockInv
      <3>. QED
        BY <3>1, Limits DEF Tick, DiskRelief
    <2>. QED
      BY <2>1, <2>2 DEF ClockInv
  <1>2. UNCHANGED <<born, sp, c, d, log, faults>>
    BY DEF Tick, DiskRelief
  <1>. QED
    BY <1>1, <1>2 DEF IInv, SpoolOk, RowsOk, MemoOk, MemoryInv, ProducerOk, LogInv, NothingVanishes

LEMMA InitOk == Init => IInv
  <1>. SUFFICES ASSUME Init PROVE IInv
    OBVIOUS
  <1>1. /\ now = 0 /\ born = [e \in {} |-> 0] /\ full = FALSE /\ d = NewProducer /\ faults = 0
        /\ sp = [rows |-> {}, seq |-> 0, memo |-> Unknown, blocked |-> FALSE]
        /\ log = [durable |-> {}, stale |-> {}, evicted |-> {}, server |-> {},
                  past |-> {}]
    BY DEF Init
  <1>2. CoalescerOk(c) /\ InMemory(c) = {}
    BY StartIsOk DEF Init
  <1>3. DOMAIN born = {} /\ DOMAIN born = 1..0 /\ 0 \in Nat
    BY <1>1
  <1>4. ClockInv
    <2>1. now \in 0..MaxTime
      BY <1>1, Limits
    <2>2. \E n \in Nat : DOMAIN born = 1..n
      BY <1>3
    <2>3. \A e \in DOMAIN born : FALSE
      BY <1>3
    <2>. QED
      BY <1>1, <2>1, <2>2, <2>3 DEF ClockInv
  <1>5. SpoolOk(sp, DOMAIN born)
    <2>1. sp \in SpoolType /\ sp.rows = {} /\ sp.memo = Unknown
      BY <1>1, Limits DEF SpoolType
    <2>. QED
      BY <2>1, FS_EmptySet, Limits DEF SpoolOk, RowsOk, MemoOk
  <1>6. MemoryInv
    BY <1>2 DEF MemoryInv
  <1>7. ProducerOk(d, sp, log.server)
    BY <1>1 DEF ProducerOk, NewProducer
  <1>8. LogInv
    BY <1>1, <1>3 DEF LogInv, LogType, NothingVanishes
  <1>. QED
    BY <1>2, <1>4, <1>5, <1>6, <1>7, <1>8 DEF IInv

LEMMA NextKeeps == IInv /\ [Next]_vars => IInv'
  <1>. SUFFICES ASSUME IInv, [Next]_vars PROVE IInv'
    OBVIOUS
  <1>1. ASSUME NEW by \in Threads \cup {"handler"}, NEW obs \in (now - Lag)..now, Submit(by, obs)
        PROVE  IInv'
    BY <1>1, SubmitKeeps
  <1>2. CASE TimerStep
    BY <1>2, TimerStepKeeps
  <1>3. CASE TimerWakes \/ RequestStop \/ Close \/ Joined
    BY <1>3, ShutdownKeeps
  <1>4. CASE SubmitStep
    BY <1>4, SubmitStepKeeps
  <1>5. CASE Enqueue
    BY <1>5, EnqueueKeeps
  <1>6. CASE DeliverOnce
    BY <1>6, DeliverOnceKeeps
  <1>7. ASSUME NEW a \in {"ok", "none", "transient", "permanent"}, Post(a)
        PROVE  IInv'
    BY <1>7, PostKeeps
  <1>8. CASE Acknowledge
    BY <1>8, AcknowledgeKeeps
  <1>9. CASE Crash
    BY <1>9, CrashKeeps
  <1>10. CASE Tick \/ DiskRelief
    BY <1>10, TimePasses
  <1>11. CASE NothingToReport
    BY <1>11, NothingToReportKeeps
  <1>12. CASE UNCHANGED vars
    BY <1>12 DEF vars, IInv, ClockInv, SpoolOk, RowsOk, MemoOk, MemoryInv, ProducerOk, LogInv, NothingVanishes
  <1>. QED
    BY <1>1, <1>2, <1>3, <1>4, <1>5, <1>6, <1>7, <1>8, <1>9, <1>10, <1>11, <1>12
    DEF Next, Timer, Deliver

\* The invariant: the table is in the order of submission and within its limits, its memo is sound,
\* what waits in memory is newer than all of it, and no event is unaccounted for.
THEOREM Invariance == Spec => []IInv
  BY InitOk, NextKeeps, PTL DEF Spec

-----------------------------------------------------------------------------
(* The properties *)

\* _purge_stale_if_needed may trust next_possible_stale_at_utc: whatever was inserted, ignored,
\* evicted, acknowledged or rolled back since, no stored row expires before it.
THEOREM MemoCorrectness == Spec => []MemoSound
  <1>1. IInv => MemoSound
    BY DEF IInv, SpoolOk, MemoOk, MemoSound
  <1>. QED
    BY <1>1, Invariance, PTL

\* Distinct rows hold distinct events.
LEMMA EventsAreCounted ==
  ASSUME NEW rows, IsFiniteSet(rows), \A q, r \in rows : q.ev = r.ev => q = r
  PROVE  Cardinality(Evs(rows)) = Cardinality(rows)
  <1>. DEFINE f == [r \in rows |-> r.ev]
  <1>1. f \in [rows -> Evs(rows)] /\ \A r \in rows : f[r] = r.ev
    BY DEF Evs
  <1>2. \A x \in Evs(rows) : \E r \in rows : x = r.ev
    BY DEF Evs
  <1>. HIDE DEF f
  <1>3. f \in Injection(rows, Evs(rows))
    BY <1>1, Zenon DEF Injection, IsInjective
  <1>4. f \in Surjection(rows, Evs(rows))
    BY <1>1, <1>2 DEF Surjection
  <1>5. ExistsBijection(rows, Evs(rows))
    BY <1>3, <1>4 DEF Bijection, ExistsBijection
  <1>. QED
    BY <1>5, FS_Bijection

\* Events are delivered at least once or accounted for, in the order of their submission, across
\* evictions, lost answers, failed writes and restarts (SensorSpool, SensorProducer), and when the
\* coalescer reports a clean end nothing it was given is missing.
THEOREM DeliveryCorrectness == Spec => []DeliveryIsSound
  <1>1. IInv => DeliveryIsSound
    <2>. SUFFICES ASSUME IInv PROVE DeliveryIsSound
      OBVIOUS
    <2>1. /\ SpoolOk(sp, DOMAIN born) /\ CoalescerOk(c) /\ LogInv /\ ProducerOk(d, sp, log.server)
      BY DEF IInv
    <2>2. TypeOK
      <3>1. Cardinality(Evs(sp.rows)) = Cardinality(sp.rows)
        BY <2>1, EventsAreCounted DEF SpoolOk, RowsOk
      <3>2. sp.memo \in {Unknown} \cup (TTL - Lag)..Empty
        BY <2>1 DEF SpoolOk, MemoOk
      <3>3. Cardinality(sp.rows) <= MaxEvents /\ \A r \in sp.rows : r.ev \in DOMAIN born /\ r.seq \in 1..sp.seq
        BY <2>1 DEF SpoolOk, RowsOk
      <3>4. /\ Len(c.pend) < MaxPend /\ c.bytes <= MaxBytes
            /\ c.timer \in {"off", "ready", "asleep", "timed", "done"}
        BY <2>1 DEF CoalescerOk, CoalescerType
      <3>5. d.pc \in {"idle", "post", "ack", "report"}
        BY <2>1 DEF ProducerOk
      <3>. QED
        BY <3>1, <3>2, <3>3, <3>4, <3>5 DEF TypeOK
    <2>3. NothingVanishes
      BY <2>1 DEF LogInv
    <2>4. SubmissionOrder
      BY <2>1 DEF SubmissionOrder, SpoolOk, RowsOk
    <2>5. CleanMeansDurable
      <3>1. SUFFICES ASSUME c.result = "clean"
                     PROVE  DOMAIN born \ log.past \subseteq log.durable \cup log.stale
        BY DEF CleanMeansDurable
      <3>2. /\ Coalesce /\ ~c.failed /\ c.pend = <<>> /\ c.job = <<>> /\ c.cur = 0
        BY <2>1, <3>1 DEF CoalescerOk
      <3>3. InMemory(c) = {}
        BY <3>2, NoElements DEF InMemory
      <3>. QED
        BY <2>1, <3>1, <3>2, <3>3 DEF LogInv
    <2>. QED
      BY <2>2, <2>3, <2>4, <2>5 DEF DeliveryIsSound
  <1>. QED
    BY <1>1, Invariance, PTL
=============================================================================
