-------------------------- MODULE DropOldestQueue --------------------------
(***************************************************************************)
(* The abstract event queue: a bounded FIFO that never blocks a producer.  *)
(* dropped counts the evictions; out is what the last pop handed over.     *)
(***************************************************************************)
EXTENDS BoundedFifo

CONSTANTS Events,     \* what can be queued
          MaxBatch    \* elements one pop takes at most

VARIABLES fifo, dropped, out

vars == <<fifo, dropped, out>>

Init ==
  /\ fifo = <<>>
  /\ dropped = 0
  /\ out = <<>>

Push(e) ==
  /\ fifo' = Pushed(fifo, e)
  /\ dropped' = IF Full(fifo) THEN dropped + 1 ELSE dropped
  /\ UNCHANGED out

PopBatch ==
  /\ out' = Batch(fifo, MaxBatch)
  /\ fifo' = Rest(fifo, MaxBatch)
  /\ UNCHANGED dropped

Next == PopBatch \/ \E e \in Events : Push(e)

Spec == Init /\ [][Next]_vars
=============================================================================
