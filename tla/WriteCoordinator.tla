-------------------------- MODULE WriteCoordinator --------------------------
(***************************************************************************)
(* PriorityWriteCoordinator of the visit store: one write slot, starts of  *)
(* visits (foreground) before the journal reader, the retry of pending     *)
(* events and the link reconciliation (background), and an escape for a    *)
(* background class that starts have kept waiting for Age ticks.           *)
(*                                                                         *)
(* One step is one critical section of the coordinator's condition: a      *)
(* waiter looks at the slot when it arrives and whenever it wakes up (a    *)
(* notification or the 50 ms poll).  Times are kept as ages and remaining  *)
(* waits, so the model needs no bound on the clock.                        *)
(***************************************************************************)
EXTENDS Integers, Sequences, FiniteSets

CONSTANTS Thread,   \* threads that write to the visit store
          Nobody,   \* not a thread: the slot is free
          Ops,      \* Ops[t]: the operations thread t may ask the slot for
          Age,      \* BACKGROUND_STARVATION_AGE_MS, in ticks
          Wait,     \* the longest wait for the slot, in ticks: that of a start
          BackgroundWait,  \* the reader's and the reconciler's, under PromptNext
          MaxHold   \* the longest time the slot is held under PromptTick

Operation == {"start", "reader_line", "reader_checkpoint", "pending_retry", "reconciliation"}

Classes == {"reader", "pending_retry", "reconciliation"}

ASSUME NobodyAssumption == Nobody \notin Thread
ASSUME OpsAssumption == Ops \in [Thread -> SUBSET Operation]
ASSUME TimesAssumption ==
  Age \in Nat \ {0} /\ Wait \in Nat /\ BackgroundWait \in 0 .. Wait /\ MaxHold \in Nat

Never == -1

ClassOf(op) == IF op \in {"reader_line", "reader_checkpoint"} THEN "reader" ELSE op

VARIABLES
  holder,      \* the thread in the slot, or Nobody
  foreground,  \* waiting starts, in order of arrival
  background,  \* waiting background operations, in order of arrival
  starvation,  \* starvation[c]: for how long starts have blocked class c, or Never
  required,    \* _foreground_required_after_escape
  thread,      \* thread[t]: its place in acquire(), operation and remaining wait
  stopped,     \* threads whose cancel_event is set
  held,        \* for how long the slot has been held
  passed,      \* starts let through while the first background waiter was aged
  escapes      \* background turns taken while starts were waiting, since the last start

slotVars == <<holder, foreground, background, starvation, required, thread, stopped, held, passed,
          escapes>>

NotWaiting == [pc |-> "idle", op |-> "none", left |-> 0]

SlotInit ==
  /\ holder = Nobody
  /\ foreground = <<>>
  /\ background = <<>>
  /\ starvation = [c \in Classes |-> Never]
  /\ required = FALSE
  /\ thread = [t \in Thread |-> NotWaiting]
  /\ stopped = {}
  /\ held = 0
  /\ passed = 0
  /\ escapes = 0

-----------------------------------------------------------------------------
(* What a waiter sees.  F and B are the queues, the waiter included.       *)

\* popleft and remove: q without its entry t
Without(q, t) ==
  LET at == CHOOSE i \in DOMAIN q : q[i] = t
  IN IF \A i \in DOMAIN q : q[i] # t THEN q
     ELSE [i \in 1 .. Len(q) - 1 |-> q[IF i < at THEN i ELSE i + 1]]

IsHead(t, q) == q # <<>> /\ Head(q) = t

BackgroundIsAged(c) == starvation[c] = Age

\* _aged_background_head_locked; op is the operation of t, which may just arrive
AgedBackgroundHead(t, op, B) ==
  /\ B # <<>>
  /\ BackgroundIsAged(ClassOf(IF Head(B) = t THEN op ELSE thread[Head(B)].op))

\* Variant: an aged waiter escapes again without giving the starts their turn.
AgedEscape_NoTurn(t, op, B, req) ==
  op # "start" /\ IsHead(t, B) /\ BackgroundIsAged(ClassOf(op))

\* aged_escape
AgedEscape(t, op, B, req) ==
  /\ op # "start"
  /\ IsHead(t, B)
  /\ BackgroundIsAged(ClassOf(op))
  /\ ~req

\* Variant: starts always go first.
PriorityAllows_StartsFirst(t, op, F, B, req) ==
  op = "start" \/ F = <<>> \/ AgedEscape(t, op, B, req)

PriorityAllows(t, op, F, B, req) ==
  \/ op = "start" /\ (req \/ ~AgedBackgroundHead(t, op, B))
  \/ F = <<>>
  \/ AgedEscape(t, op, B, req)

CanHold(t, op, F, B, req) ==
  /\ holder = Nobody
  /\ IsHead(t, IF op = "start" THEN F ELSE B)
  /\ PriorityAllows(t, op, F, B, req)

\* _foreground_blocks_locked
ForegroundBlocks(t, F, B) ==
  /\ IsHead(t, B)
  /\ \/ holder = Nobody /\ F # <<>>
     \/ holder # Nobody /\ thread[holder].op = "start"

\* starvation without the mark of op's class
Unmarked(op) == [c \in Classes |-> IF c = ClassOf(op) THEN Never ELSE starvation[c]]

\* Variant: a wait never ages.
Marked_Never(t, op, F, B) == starvation

\* starvation once t has looked at the slot and has to go on waiting
Marked(t, op, F, B) ==
  [c \in Classes |->
     IF c = ClassOf(op) /\ ForegroundBlocks(t, F, B) /\ starvation[c] = Never
     THEN 0 ELSE starvation[c]]

-----------------------------------------------------------------------------
(* acquire()                                                               *)

Leave(t, F, B) ==
  /\ foreground' = Without(F, t)
  /\ background' = Without(B, t)
  /\ thread' = [thread EXCEPT ![t] = NotWaiting]
  /\ UNCHANGED <<holder, held>>

\* The two counters compare turns taken with the waiters that were passed over.
CountTurn(t, op, F, B) ==
  IF op = "start"
  THEN /\ passed' = IF AgedBackgroundHead(t, op, B) THEN passed + 1 ELSE 0
       /\ escapes' = 0
  ELSE /\ passed' = 0
       /\ escapes' = IF F = <<>> THEN 0 ELSE escapes + 1

CountLeave(t, F, B) ==
  /\ passed' = IF IsHead(t, B) THEN 0 ELSE passed
  /\ escapes' = IF Without(F, t) = <<>> THEN 0 ELSE escapes

Take(t, op, F, B, req) ==
  /\ holder' = t
  /\ foreground' = Without(F, t)
  /\ background' = Without(B, t)
  /\ required' = (op # "start" /\ (req \/ (AgedEscape(t, op, B, req) /\ F # <<>>)))
  /\ thread' = [thread EXCEPT ![t] = [pc |-> "holding", op |-> op, left |-> 0]]
  /\ held' = 0
  /\ CountTurn(t, op, F, B)
  /\ UNCHANGED starvation

\* One pass of the loop in acquire(): the checks are made in this order.
Examine(t, op, left, F, B) ==
  LET req == required /\ F # <<>>
  IN /\ \/ /\ t \in stopped
           /\ starvation' = Unmarked(op)
           /\ required' = req
           /\ Leave(t, F, B)
           /\ CountLeave(t, F, B)
        \/ /\ t \notin stopped
           /\ CanHold(t, op, F, B, req)
           /\ Take(t, op, F, B, req)
        \/ /\ t \notin stopped
           /\ ~CanHold(t, op, F, B, req)
           /\ starvation' = Marked(t, op, F, B)
           /\ required' = req
           /\ \/ left = 0 /\ Leave(t, F, B) /\ CountLeave(t, F, B)
              \/ /\ left > 0
                 /\ foreground' = F
                 /\ background' = B
                 /\ thread' = [thread EXCEPT ![t] = [pc |-> "waiting", op |-> op, left |-> left]]
                 /\ UNCHANGED <<holder, held, passed, escapes>>
     /\ UNCHANGED stopped

\* A thread calls acquire(); a deadline of the caller may shorten the wait.
Enter(t, op, left) ==
  /\ thread[t].pc = "idle"
  /\ op \in Ops[t]
  /\ Examine(t, op, left, IF op = "start" THEN Append(foreground, t) ELSE foreground,
             IF op = "start" THEN background ELSE Append(background, t))

\* A waiting thread wakes up and looks again.
Wake(t) ==
  /\ thread[t].pc = "waiting"
  /\ Examine(t, thread[t].op, thread[t].left, foreground, background)

\* The lease ends; a lease that did its work, or found none, clears its class's mark.
Release(t, useful) ==
  /\ holder = t
  /\ starvation' = IF useful THEN Unmarked(thread[t].op) ELSE starvation
  /\ holder' = Nobody
  /\ held' = 0
  /\ thread' = [thread EXCEPT ![t] = NotWaiting]
  /\ UNCHANGED <<foreground, background, required, stopped, passed, escapes>>

\* clear_background_work: process_pending_events notices that it was cancelled
ClearBackgroundWork(t) ==
  /\ t \in stopped
  /\ "pending_retry" \in Ops[t]
  /\ \/ thread[t].pc = "idle"
     \/ thread[t].pc = "holding" /\ thread[t].op = "pending_retry"
  /\ starvation' = Unmarked("pending_retry")
  /\ UNCHANGED <<holder, foreground, background, required, thread, stopped, held, passed, escapes>>

\* A component sets its stop event; its threads share it.
Stop(t) ==
  /\ t \notin stopped
  /\ stopped' = stopped \cup {u \in Thread : Ops[u] = Ops[t]}
  /\ UNCHANGED <<holder, foreground, background, starvation, required, thread, held, passed,
                 escapes>>

TickBody ==
  /\ starvation' = [c \in Classes |->
                      IF starvation[c] \in 0 .. Age - 1 THEN starvation[c] + 1 ELSE starvation[c]]
  /\ thread' = [t \in Thread |->
                  IF thread[t].left > 0 THEN [thread[t] EXCEPT !.left = @ - 1] ELSE thread[t]]
  /\ UNCHANGED <<holder, foreground, background, required, stopped, passed, escapes>>

SlotTick == TickBody /\ UNCHANGED held

Call(t) ==
  \/ \E op \in Operation, left \in 0 .. Wait : Enter(t, op, left)
  \/ Wake(t)
  \/ \E useful \in BOOLEAN : Release(t, useful)
  \/ ClearBackgroundWork(t)
  \/ Stop(t)

SlotNext == SlotTick \/ \E t \in Thread : Call(t)

SlotSpec == SlotInit /\ [][SlotNext]_slotVars

-----------------------------------------------------------------------------
(* Without starvation by the scheduler: the slot is held for at most       *)
(* MaxHold ticks, and a waiter that can act does so before time passes     *)
(* (it polls every 50 ms, a quarter of the starvation age).  Nobody stops, *)
(* and background threads come back with every scan or pass.               *)

Ready(t) ==
  /\ thread[t].pc = "waiting"
  /\ \/ thread[t].left = 0
     \/ CanHold(t, thread[t].op, foreground, background, required /\ foreground # <<>>)
     \/ Marked(t, thread[t].op, foreground, background) # starvation

PromptTick ==
  /\ \A t \in Thread : ~Ready(t)
  /\ holder # Nobody => held < MaxHold
  /\ held' = IF holder = Nobody THEN 0 ELSE held + 1
  /\ TickBody

\* writer_slot_wait_ms
SlotWait(op) == IF op = "start" THEN Wait ELSE BackgroundWait

PromptNext ==
  \/ PromptTick
  \/ \E t \in Thread :
       \/ \E op \in Operation : Enter(t, op, SlotWait(op))
       \/ Wake(t)
       \/ \E useful \in BOOLEAN : Release(t, useful)

PromptSpec ==
  /\ SlotInit
  /\ [][PromptNext]_slotVars
  /\ SF_slotVars(PromptTick)
  /\ WF_slotVars(\E t \in Thread : Ready(t) /\ Wake(t))
  /\ WF_slotVars(\E t \in Thread, useful \in BOOLEAN : Release(t, useful))
  /\ \A t \in Thread : \A op \in Ops[t] \ {"start"} : SF_slotVars(Enter(t, op, SlotWait(op)))

-----------------------------------------------------------------------------
(* Properties                                                              *)

\* Every waiter is in exactly one queue, the one of its kind, and nobody else is: a wait that ends
\* by timeout or cancellation leaves no trace that would block the queue.
SlotTypeOK ==
  /\ holder \in Thread \cup {Nobody}
  /\ foreground \in Seq({t \in Thread : thread[t].pc = "waiting" /\ thread[t].op = "start"})
  /\ background \in Seq({t \in Thread : thread[t].pc = "waiting" /\ thread[t].op # "start"})
  /\ starvation \in [Classes -> Never .. Age]
  /\ required \in BOOLEAN
  /\ thread \in [Thread -> [pc : {"idle", "waiting", "holding"}, op : Operation \cup {"none"},
                            left : 0 .. Wait]]
  /\ stopped \in SUBSET Thread
  /\ held \in Nat
  /\ \A t \in Thread : (thread[t].pc = "holding") <=> (holder = t)
  /\ Len(foreground) + Len(background) = Cardinality({t \in Thread : thread[t].pc = "waiting"})

\* The escape bounds the wait of background work: once starts have kept the first background
\* waiter for Age ticks, at most one more start gets the slot before it (the one that
\* _foreground_required_after_escape lets through after an earlier escape).
AgedIsPassedAtMostOnce == passed <= 1

\* The escape does not turn the priority around: while starts are waiting, background operations
\* never get two turns in a row, whichever classes are aged and whoever times out meanwhile.
StartsWaitForOneEscape == escapes <= 1

\* Neither side shuts the other out, and the queues the turns are taken from hold just the waiters.
SidesTakeTurns == SlotTypeOK /\ AgedIsPassedAtMostOnce /\ StartsWaitForOneEscape

\* Background work as a whole is not shut out: if the slot is held for a bounded time and waiters
\* poll, some background operation gets the slot again and again, although starts keep coming and
\* each single wait may time out.
BackgroundSideIsServed ==
  []<>(holder # Nobody /\ thread[holder].op # "start")

\* A background class is not shut out: it gets the slot again and again (acquire, the credit that
\* outlives a wait and the escape).
ClassIsServed(c) ==
  []<>(holder # Nobody /\ ClassOf(thread[holder].op) = c)

\* Each class whose threads keep asking is served.  This needs a wait that outlasts the turns of an
\* escape: it holds if only one background thread asks, or if the background waits exceed Age by
\* three turns; with the delivered waits of two background threads it does not.
BackgroundIsServed ==
  \A c \in {ClassOf(op) : op \in UNION {Ops[t] : t \in Thread} \ {"start"}} : ClassIsServed(c)
=============================================================================
