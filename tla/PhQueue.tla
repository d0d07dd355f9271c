------------------------------ MODULE PhQueue ------------------------------
(***************************************************************************)
(* The event ring of src/ph_queue.c: a circular array under one mutex,     *)
(* filled in place by producers and drained by the sender thread, which    *)
(* sleeps on a condition variable between drains.                          *)
(*                                                                         *)
(* Threads.  A producer (ph__submit_event) calls begin_push, fills the     *)
(* slot while it still holds the mutex, publishes it with end_push, and    *)
(* after releasing the mutex reads the size and wakes the sender when the  *)
(* threshold is reached.  The sender alternates ph_queue_wait and pops     *)
(* until the ring is empty.  Any thread may call ph_queue_wake (ph_flush,  *)
(* a flag reload, shutdown).                                               *)
(***************************************************************************)
EXTENDS Naturals, Sequences

CONSTANTS Cap,        \* slots of the ring (q->cap)
          Events,     \* contents of a filled slot
          Blank,      \* content of a slot that is empty or being filled
          Producers,  \* threads that capture events
          Nobody,     \* owner of the free mutex
          MaxBatch,   \* events one pop takes at most (max_batch)
          Threshold,  \* ring size that wakes the sender (flush_at)
          MaxPushes   \* bound: pushes each producer makes

ASSUME QueueAssumption ==
  /\ Cap \in Nat \ {0}
  /\ MaxBatch \in Nat \ {0}
  /\ Threshold \in Nat \ {0}
  /\ MaxPushes \in Nat
  /\ Blank \notin Events
  /\ Nobody \notin Producers

VARIABLES slots,      \* q->slots
          head,       \* q->head
          size,       \* q->size
          dropped,    \* q->dropped
          woken,      \* q->woken, the latch of ph_queue_wake
          lock,       \* the producer that holds q->lock across its fill
          filling,    \* the event being copied in while lock is held
          ppc,        \* control of each producer
          pushes,     \* pushes each producer has begun
          spc,        \* control of the sender
          signalled,  \* a broadcast reached the sleeping sender
          out         \* the sender's scratch after the last pop

producerVars == <<ppc, pushes>>
ringVars == <<slots, head, size, dropped>>
vars == <<slots, head, size, dropped, woken, lock, filling, ppc, pushes,
          spc, signalled, out>>

(* The slot k places after the head.                                       *)
Slot(k) == (head + k) % Cap

Init ==
  /\ slots = [i \in 0 .. Cap - 1 |-> Blank]
  /\ head = 0
  /\ size = 0
  /\ dropped = 0
  /\ woken = FALSE
  /\ lock = Nobody
  /\ filling = Blank
  /\ ppc = [p \in Producers |-> "out"]
  /\ pushes = [p \in Producers |-> 0]
  /\ spc = "wait"
  /\ signalled = FALSE
  /\ out = <<>>

Goto(p, from, to) ==
  /\ ppc[p] = from
  /\ ppc' = [ppc EXCEPT ![p] = to]

(* Mutants: a full ring keeps its head and overwrites the newest event, or *)
(* is noticed one push too late.                                           *)
BeginPushDropNewest(p, e) ==
  LET s == IF size = Cap THEN size - 1 ELSE size
  IN /\ lock = Nobody
     /\ pushes[p] < MaxPushes
     /\ Goto(p, "out", "fill")
     /\ lock' = p
     /\ filling' = e
     /\ size' = s
     /\ dropped' = IF size = Cap THEN dropped + 1 ELSE dropped
     /\ slots' = [slots EXCEPT ![(head + s) % Cap] = Blank]
     /\ pushes' = [pushes EXCEPT ![p] = @ + 1]
     /\ UNCHANGED <<head, woken, spc, signalled, out>>

(* ph_queue_begin_push: evict the oldest event if the ring is full, hand   *)
(* the tail slot to the caller and return with the mutex held.             *)
BeginPush(p, e) ==
  LET full == size = Cap
      h == IF full THEN (head + 1) % Cap ELSE head
      s == IF full THEN size - 1 ELSE size
  IN /\ lock = Nobody
     /\ pushes[p] < MaxPushes
     /\ Goto(p, "out", "fill")
     /\ lock' = p
     /\ filling' = e
     /\ head' = h
     /\ size' = s
     /\ dropped' = IF full THEN dropped + 1 ELSE dropped
     /\ slots' = [slots EXCEPT ![(h + s) % Cap] = Blank]
     /\ pushes' = [pushes EXCEPT ![p] = @ + 1]
     /\ UNCHANGED <<woken, spc, signalled, out>>

(* The fill and ph_queue_end_push: the slot is complete and published.     *)
EndPush(p) ==
  /\ lock = p
  /\ Goto(p, "fill", "measure")
  /\ slots' = [slots EXCEPT ![Slot(size)] = filling]
  /\ size' = size + 1
  /\ lock' = Nobody
  /\ filling' = Blank
  /\ UNCHANGED <<head, dropped, woken, pushes, spc, signalled, out>>

(* Mutant: the sender is woken one event too late.                         *)
MeasureLate(p) ==
  /\ lock = Nobody
  /\ Goto(p, "measure", IF size > Threshold THEN "wake" ELSE "out")
  /\ UNCHANGED <<ringVars, woken, lock, filling, pushes, spc, signalled, out>>

(* The tail of ph__submit_event: ph_queue_size, then ph__sender_wake when  *)
(* the threshold is reached.                                               *)
Measure(p) ==
  /\ lock = Nobody
  /\ Goto(p, "measure", IF size >= Threshold THEN "wake" ELSE "out")
  /\ UNCHANGED <<ringVars, woken, lock, filling, pushes, spc, signalled, out>>

(* ph_queue_wake: latch the request and broadcast to a sleeping sender.    *)
Wake ==
  /\ lock = Nobody
  /\ woken' = TRUE
  /\ signalled' = (spc = "asleep")
  /\ UNCHANGED <<ringVars, lock, filling, pushes, spc, out>>

ProducerWake(p) == Wake /\ Goto(p, "wake", "out")

(* ph_flush, ph_reload_feature_flags or shutdown asks for a drain.         *)
ExternalWake == Wake /\ UNCHANGED ppc

(* Mutant: without the latch a wake before the wait is lost.               *)
BeginWaitUnlatched ==
  /\ lock = Nobody
  /\ spc = "wait"
  /\ spc' = IF size < Threshold THEN "asleep" ELSE "drain"
  /\ woken' = (woken /\ size < Threshold)
  /\ signalled' = FALSE
  /\ UNCHANGED <<ringVars, lock, filling, producerVars, out>>

(* ph_queue_wait up to the condition variable: sleep only below the        *)
(* threshold and without a latched request.                                *)
BeginWait ==
  /\ lock = Nobody
  /\ spc = "wait"
  /\ IF size < Threshold /\ ~woken
     THEN spc' = "asleep" /\ UNCHANGED woken
     ELSE spc' = "drain" /\ woken' = FALSE
  /\ signalled' = FALSE
  /\ UNCHANGED <<ringVars, lock, filling, producerVars, out>>

(* ph_queue_wait from the condition variable on: the mutex is taken again  *)
(* and the latch consumed.                                                 *)
EndWait ==
  /\ lock = Nobody
  /\ spc = "asleep"
  /\ spc' = "drain"
  /\ woken' = FALSE
  /\ signalled' = FALSE
  /\ UNCHANGED <<ringVars, lock, filling, producerVars, out>>

Awakened == signalled /\ EndWait
TimedOut == ~signalled /\ EndWait

(* ph_queue_pop_batch, called until it returns nothing.                    *)
PopBatch ==
  LET n == IF size < MaxBatch THEN size ELSE MaxBatch
  IN /\ lock = Nobody
     /\ spc = "drain"
     /\ out' = [i \in 1 .. n |-> slots[Slot(i - 1)]]
     /\ head' = Slot(n)
     /\ size' = size - n
     /\ spc' = IF n = 0 THEN "wait" ELSE "drain"
     /\ UNCHANGED <<slots, dropped, woken, lock, filling, producerVars, signalled>>

Producer(p) ==
  \/ \E e \in Events : BeginPush(p, e)
  \/ EndPush(p)
  \/ Measure(p)
  \/ ProducerWake(p)

Next ==
  \/ \E p \in Producers : Producer(p)
  \/ ExternalWake
  \/ BeginWait
  \/ Awakened
  \/ TimedOut
  \/ PopBatch

Spec == Init /\ [][Next]_vars

(* A call that has begun is finished, and the sender thread runs.  Nothing *)
(* is assumed of the interval timer or of new captures.                    *)
Fairness ==
  /\ \A p \in Producers : WF_vars(EndPush(p) \/ Measure(p) \/ ProducerWake(p))
  /\ WF_vars(BeginWait \/ Awakened \/ PopBatch)

FairSpec == Spec /\ Fairness
-----------------------------------------------------------------------------
(* Every variable has its type: head and size stay within the array that   *)
(* ph_queue_begin_push and ph_queue_pop_batch index.                       *)
TypeOK ==
  /\ slots \in [0 .. Cap - 1 -> Events \cup {Blank}]
  /\ head \in 0 .. Cap - 1
  /\ size \in 0 .. Cap
  /\ dropped \in Nat
  /\ woken \in BOOLEAN
  /\ lock \in Producers \cup {Nobody}
  /\ filling \in Events \cup {Blank}
  /\ ppc \in [Producers -> {"out", "fill", "measure", "wake"}]
  /\ pushes \in [Producers -> 0 .. MaxPushes]
  /\ spc \in {"wait", "asleep", "drain"}
  /\ signalled \in BOOLEAN
  /\ out \in Seq(Events)

(* The live part of the ring, oldest first, and the queue it stands for:   *)
(* a push takes effect at begin_push, so the event being filled is in.     *)
Window == [i \in 1 .. size |-> slots[Slot(i - 1)]]
Contents == IF lock = Nobody THEN Window ELSE Append(Window, filling)

Abstract == INSTANCE DropOldestQueue WITH fifo <- Contents

(* The circular array behaves as the drop-oldest FIFO: a push evicts at    *)
(* most the oldest event and counts it, a pop returns the oldest events in *)
(* order and no slot is seen half filled (ph_queue.c begin_push, end_push, *)
(* pop_batch).                                                             *)
RefinesDropOldestQueue == Abstract!Spec

(* No wake is lost: a request latched at any moment, before, during or     *)
(* after the sender's wait, starts a drain pass after it, without help     *)
(* from the interval timer (the latch of ph_queue_wait).                   *)
WakeIsServed == woken ~> spc = "drain" /\ ~woken

(* Reaching flush_at is enough: once the ring holds Threshold events the   *)
(* sender takes it below again, without help from the interval timer       *)
(* (ph__submit_event measures after it released the mutex).                *)
ThresholdIsServed == size >= Threshold ~> size < Threshold
=============================================================================
